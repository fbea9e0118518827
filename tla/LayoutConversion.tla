---------------------------- MODULE LayoutConversion ----------------------------
(***************************************************************************)
(* The conversion of a selected text between the two layouts               *)
(* (selected_text/engine.rs).  A text is a sequence of characters.  One    *)
(* key stands for every group of keys the tables treat alike; a Cyrillic   *)
(* character is named for its sound.                                       *)
(***************************************************************************)
EXTENDS Integers, Sequences, FiniteSets, SequencesExt, FiniteSetsExt

Latin == {"a"}
Cyrillic == {"ru_f", "ru_b", "ru_yu", "ru_kh"}
Letters == Latin \cup Cyrillic

\* The keys: what each of them types in the English and in the Russian layout.
\* A letter in both (a), letters in Russian only (the keys of comma, dot and
\* bracket), no letter in either, and a key that types the same in both.
KeyTable == {<<"a", "ru_f">>, <<",", "ru_b">>, <<".", "ru_yu">>, <<"[", "ru_kh">>,
             <<"/", ".">>, <<"?", ",">>, <<"&", "?">>, <<"|", "/">>, <<"1", "1">>,
             <<" ", " ">>}
Us == {k[1] : k \in KeyTable}
Ru == {k[2] : k \in KeyTable}
Chars == Us \cup Ru

\* Mutant: the separators use the table of the letters, where a comma stays.
EnToRuLetterTable(c) ==
  IF c \in Us \ {",", "."} THEN (CHOOSE k \in KeyTable : k[1] = c)[2] ELSE c

\* en_to_ru_char with the four exceptions of en_to_ru_separator_char: a
\* character no English key types is kept.  A letter of a word never needs the
\* exceptions, they are of comma and dot.
EnToRuChar(c) == IF c \in Us THEN (CHOOSE k \in KeyTable : k[1] = c)[2] ELSE c

\* ru_to_en_char and ru_to_en_separator_char, which differ for the slash alone.
RuToEnChar(c) == IF c \in Ru THEN (CHOOSE k \in KeyTable : k[2] = c)[1] ELSE c

\* classify_char.
Kind(c) == IF c = " " THEN "Whitespace" ELSE IF c \in Letters THEN "Text" ELSE "Separator"

TextAt(t) == {i \in 1..Len(t) : Kind(t[i]) = "Text"}

\* The segment of segment_text with the character i: the positions that are
\* joined to it by characters of the same kind.
SegmentOf(t, i) ==
  {j \in 1..Len(t) : \A n \in 1..Len(t) :
     (i <= n /\ n <= j) \/ (j <= n /\ n <= i) => Kind(t[n]) = Kind(t[i])}

\* evaluate_segment_conversion: the majority of the letters, and a tie is
\* taken for English.
SegmentDirection(t, i) ==
  LET latin == {j \in SegmentOf(t, i) : t[j] \in Latin}
      cyrillic == {j \in SegmentOf(t, i) : t[j] \in Cyrillic}
  IN IF Cardinality(cyrillic) > Cardinality(latin) THEN "RuToEn" ELSE "EnToRu"

\* The direction at the character i: its word's, and between words that of the
\* last word before it or else of the first after it, if there is a word.
DirectionAt(t, i) ==
  LET before == {j \in TextAt(t) : j <= i}
      after == {j \in TextAt(t) : j > i}
  IN IF before # {} THEN SegmentDirection(t, Max(before))
     ELSE IF after # {} THEN SegmentDirection(t, Min(after))
     ELSE "none"

\* convert_selected_text.
Convert(t) ==
  [i \in 1..Len(t) |->
     IF Kind(t[i]) = "Whitespace" THEN t[i]
     ELSE CASE DirectionAt(t, i) = "EnToRu" -> EnToRuChar(t[i])
            [] DirectionAt(t, i) = "RuToEn" -> RuToEnChar(t[i])
            [] OTHER -> t[i]]

\* A text typed in one layout that has a key which is a letter in both: a word
\* such as "ёж", of Russian letters on punctuation keys only, converts to a
\* text without a letter, which no direction can be found for.
TypedInOneLayout(t) ==
  \/ Range(t) \subseteq Us /\ "a" \in Range(t)
  \/ Range(t) \subseteq Ru /\ "ru_f" \in Range(t)
================================================================================
