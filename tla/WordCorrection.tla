----------------------------- MODULE WordCorrection -----------------------------
(***************************************************************************)
(* What the daemon decides about a typed word and what it types instead    *)
(* (switch_logic.rs, the replay of keyboard.rs).  The keyboard is cut down *)
(* to eight letters and three other keys: comma types a letter in Russian  *)
(* only, slash and one type no letter in either layout.  Each table of the *)
(* code is given by all its entries over these letters.                    *)
(***************************************************************************)
EXTENDS Integers, Sequences, FiniteSets, SequencesExt

CONSTANT WordLength   \* length of the words the plans are checked on

LatinKeys == {"e", "t", "g", "s", "h", "r", "i", "c"}
Keys == LatinKeys \cup {"comma", "slash", "one"}

\* is_case_fix_letter_key, the same set as is_case_sensitive_letter_key: the
\* keys of a letter in one of the layouts, whatever the layout in use.
CaseFixKeys == LatinKeys \cup {"comma"}

Layouts == {"English", "Russian"}

\* Keystroke.
Stroke(k, s, c) == [key |-> k, shift |-> s, caps |-> c]

NoPlan == [buffer |-> << >>, backspaces |-> 0]

----------------------------------------------------------------------------
(* Characters.  A character is its key and whether it is the upper one.    *)

\* key_to_char: Caps Lock counts for a Latin letter alone.
VisibleChar(st) ==
  <<st.key, IF st.key \in LatinKeys THEN st.shift # st.caps ELSE st.shift>>

\* russian_visible_char_for_keyboard_position: the characters that end a
\* sentence, by layout.  The slash key types full stop and comma in Russian.
TailPunctuation(layout) ==
  {<<"one", TRUE>>, <<"slash", TRUE>>} \cup
  (IF layout = "Russian" THEN {<<"slash", FALSE>>} ELSE {<<"comma", FALSE>>})

IsTail(st, layout) == VisibleChar(st) \in TailPunctuation(layout)

\* Mutant: one character of punctuation is taken for the tail.
LastOfWord(buffer, layout) ==
  IF buffer # << >> /\ IsTail(buffer[Len(buffer)], layout) THEN Len(buffer) - 1 ELSE Len(buffer)

\* split_word_core_and_trailing_tail, split_physical_english_core_and_trailing_tail.
TailStart(buffer, layout) ==
  SelectLastInSeq(buffer, LAMBDA st : ~IsTail(st, layout))

Core(buffer, layout) == SubSeq(buffer, 1, TailStart(buffer, layout))
TrailingTail(buffer, layout) == SubSeq(buffer, TailStart(buffer, layout) + 1, Len(buffer))

----------------------------------------------------------------------------
(* Case and plans.                                                         *)

IsUpper(st) == st.shift # st.caps

\* normalize_strokes_for_replay: the case of a letter goes into its Shift.
NormalizedReplayBuffer(buffer) ==
  [i \in DOMAIN buffer |->
     Stroke(buffer[i].key,
            IF buffer[i].key \in CaseFixKeys THEN IsUpper(buffer[i]) ELSE buffer[i].shift,
            FALSE)]

\* Mutant: the first letter of a word typed with Caps Lock stays small.
CapsLockLowered(pattern, twoCapitals, capsLock) ==
  IF capsLock /\ Len(pattern) >= 2 /\ ~pattern[1] /\ \A i \in 2..Len(pattern) : pattern[i]
  THEN [i \in DOMAIN pattern |-> FALSE] ELSE pattern

\* corrected_case_pattern: an upper case letter is TRUE.  Two capitals and
\* then small letters, or a small letter and then capitals.
CorrectedPattern(pattern, twoCapitals, capsLock) ==
  LET n == Len(pattern)
      two == twoCapitals /\ n >= 3 /\ pattern[1] /\ pattern[2] /\ \A i \in 3..n : ~pattern[i]
      caps == capsLock /\ n >= 2 /\ ~pattern[1] /\ \A i \in 2..n : pattern[i]
  IN IF two \/ caps THEN [i \in 1..n |-> i = 1] ELSE pattern

\* apply_case_fixes_to_strokes: words of letter keys alone are looked at.
ApplyCaseFixes(buffer, twoCapitals, capsLock) ==
  LET pattern == [i \in DOMAIN buffer |-> IsUpper(buffer[i])]
      fixed == CorrectedPattern(pattern, twoCapitals, capsLock)
  IN IF \A i \in DOMAIN buffer : buffer[i].key \in CaseFixKeys
     THEN [i \in DOMAIN buffer |-> Stroke(buffer[i].key, fixed[i], FALSE)]
     ELSE NormalizedReplayBuffer(buffer)

\* same_layout_case_correction_plan.
CaseCorrectionPlan(buffer, layout, twoCapitals, capsLock) ==
  LET core == Core(buffer, layout)
      fixed == ApplyCaseFixes(core, twoCapitals, capsLock)
  IN IF core = << >> \/ fixed = NormalizedReplayBuffer(core) THEN NoPlan
     ELSE [buffer |-> fixed \o NormalizedReplayBuffer(TrailingTail(buffer, layout)), backspaces |-> 0]

\* manual_correction_plan: the word that is being typed, or else the last one
\* and the separator after it.
ManualCorrectionPlan(current, last, separated, layout) ==
  LET buffer == IF current # << >> THEN current ELSE last
      extra == IF current = << >> /\ separated THEN 1 ELSE 0
  IN IF Core(buffer, layout) = << >> THEN NoPlan
     ELSE [buffer |-> NormalizedReplayBuffer(buffer), backspaces |-> extra]

----------------------------------------------------------------------------
(* Which words are moved to the other layout.                              *)

\* The other keys of the English layout, with and without Shift.
EnglishPunctuation == [comma |-> <<"<", ",">>, slash |-> <<"?", "/">>, one |-> <<"!", "1">>]

Punctuation(st) == EnglishPunctuation[st.key][IF st.shift THEN 1 ELSE 2]

\* keys_to_string and normalize_word_for_switch_heuristics: a letter key stands
\* for its lower case letter.
Word(core) ==
  [i \in DOMAIN core |-> IF core[i].key \in LatinKeys THEN core[i].key ELSE Punctuation(core[i])]

Has(word, part) ==
  \E i \in 1..(Len(word) - Len(part) + 1) : SubSeq(word, i, i + Len(part) - 1) = part
HasOneOf(word, parts) == \E p \in parts : Has(word, p)
CountOf(word, chars) == Cardinality({i \in DOMAIN word : word[i] \in chars})

\* EXCLUDED_WORDS and TECHNICAL_ENGLISH_WORDS.
TechnicalWords == {<<"c", "s", "s">>}
GuardWords == TechnicalWords \cup {<<"g", "i", "t">>}

\* ENGLISH_LAYOUT_NO_VOWEL_TECHNICAL_WORDS.
NoVowelWords == {<<"s", "r", "c">>, <<"s", "s", "h">>}

\* RUSSIAN_PRIORITY_PHYSICAL_WORDS, RU_LAYOUT_COMMON_ENGLISH_WORDS.
PriorityWords == {<<"h", "e", "r", "e">>}
CommonWords == {<<"g", "e", "t">>, <<"s", "e", "e">>, <<"t", "h", "e">>, <<"t", "h", "i", "s">>}

LikelyBigrams ==
  {<<"e", "r">>, <<"h", "e">>, <<"r", "e">>, <<"s", "e">>, <<"s", "t">>, <<"t", "e">>,
   <<"t", "h">>, <<"t", "i">>}
PatternBigrams == LikelyBigrams \cup
  {<<"c", "h">>, <<"c", "t">>, <<"e", "c">>, <<"e", "s">>, <<"i", "t">>}
StrongTrigrams ==
  {<<"e", "c", "t">>, <<"e", "s", "t">>, <<"r", "e", "t">>, <<"s", "t", "r">>,
   <<"t", "c", "h">>, <<"t", "e", "r">>}
PatternTrigrams == (StrongTrigrams \ {<<"s", "t", "r">>}) \cup {<<"s", "e", "r">>}
CommonSuffixes == {<<"e", "r">>, <<"e", "s", "t">>}

\* is_likely_english; the punctuation it trims is what comma types.
LikelyEnglish(word) ==
  LET clean == SubSeq(word, 1, SelectLastInSeq(word, LAMBDA c : c # ","))
      vowels == CountOf(clean, {"e", "i"})
  IN \/ Len(clean) < 3 \/ clean \in GuardWords
     \/ vowels >= 2 /\ Len(clean) <= 5
     \/ vowels >= 2 /\ \E s \in CommonSuffixes : IsSuffix(s, clean)
     \/ vowels >= 1 /\ HasOneOf(clean, LikelyBigrams)

\* is_english_layout_technical_token: digits and slashes are of code.
TechnicalToken(core) ==
  \/ Word(core) \in NoVowelWords
  \/ \E i \in DOMAIN core : VisibleChar(core[i]) \in {<<"one", FALSE>>, <<"slash", FALSE>>}

\* count_russian_vowels: keys of a Russian vowel.
RussianVowelKeys == {"e", "t", "s"}

\* english_layout_russian_physical_score.
PhysicalScore(core) ==
  LET commas == {i \in DOMAIN core : core[i].key = "comma"}
      russian == Cardinality({i \in DOMAIN core : core[i].key \in RussianVowelKeys})
      english == CountOf(Word(core), {"e", "i"})
  IN 15 * Cardinality(commas \ {Len(core)}) + 5 * Cardinality(commas \cap {Len(core)})
     + (IF russian > english THEN 10 ELSE 0) + (IF english = 0 THEN 12 ELSE 0)

\* should_switch_english_to_russian.
EnglishToRussian(buffer) ==
  LET core == Core(buffer, "English")
  IN /\ Len(core) >= 3
     /\ ~TechnicalToken(core)
     /\ ~LikelyEnglish(Word(core))
     /\ PhysicalScore(core) >= 10

\* english_pattern_score.
PatternScore(word) ==
  Cardinality({b \in PatternBigrams : Has(word, b)})
  + 2 * Cardinality({t \in PatternTrigrams : Has(word, t)})

\* is_confident_english_for_russian_layout.
ConfidentEnglish(word) ==
  LET vowels == CountOf(word, {"e", "i"})
      score == PatternScore(word)
  IN /\ word \notin PriorityWords
     /\ \/ word \in CommonWords \cup TechnicalWords
        \/ /\ vowels > 0
           /\ \/ Len(word) <= 5 /\ score >= 3
              \/ Len(word) > 5 /\ HasOneOf(word, StrongTrigrams) /\ score >= 2
              \/ Len(word) > 5 /\ score >= 4
              \/ Len(word) > 5 /\ vowels >= 2 /\ score >= 3 /\ LikelyEnglish(word)

\* should_switch_russian_to_english: the word is split as its keys read in
\* English, and every one of them must be a Latin letter.
RussianToEnglish(buffer) ==
  LET core == Core(buffer, "English")
  IN /\ Len(core) >= 3
     /\ \A i \in DOMAIN core : core[i].key \in LatinKeys
     /\ ConfidentEnglish(Word(core))

\* layout_correction_direction.
ShouldSwitch(buffer, layout) ==
  IF layout = "English" THEN EnglishToRussian(buffer) ELSE RussianToEnglish(buffer)

----------------------------------------------------------------------------
(* The screen.                                                             *)

\* What an application shows for a key: Caps Lock counts for the letters of
\* the layout in use.
Shown(key, shift, caps, layout) ==
  <<layout, key,
    IF key \in LatinKeys \/ (key = "comma" /\ layout = "Russian") THEN shift # caps ELSE shift>>

\* Mutant: the Shift of the plan is typed as it is.
PlanShift(st, caps) == st.shift

\* replay_shift_for_stroke.
ReplayShift(st, caps) == IF st.key \in CaseFixKeys THEN st.shift # caps ELSE st.shift

\* The keystrokes of a layout correction: the manual plan with the case fixes
\* (service.rs), for the word alone.
LayoutPlan(buffer, layout, twoCapitals, capsLock) ==
  ApplyCaseFixes(ManualCorrectionPlan(buffer, << >>, FALSE, layout).buffer, twoCapitals, capsLock)

Typed(buffer, layout) ==
  [i \in DOMAIN buffer |-> Shown(buffer[i].key, buffer[i].shift, buffer[i].caps, layout)]
Replayed(buffer, caps, layout) ==
  [i \in DOMAIN buffer |-> Shown(buffer[i].key, ReplayShift(buffer[i], caps), caps, layout)]

----------------------------------------------------------------------------
(* Properties, of every word up to a length.                               *)

\* Words typed with Caps Lock on or off, of the keys the case rules tell apart.
Buffers(caps) ==
  SeqOf({Stroke(k, s, caps) : k \in {"e", "comma", "slash"}, s \in BOOLEAN}, WordLength)

\* With Caps Lock on, a key that is a letter in Russian only counts as a capital
\* though it types the same punctuation in English: a case fix would make it
\* another character, as the apostrophe of "dON'T".
CapsOverPunctuation(buffer, caps, layout) ==
  caps /\ layout = "English" /\ \E i \in DOMAIN buffer : buffer[i].key = "comma"

Capitalised(text, n) == [i \in DOMAIN text |-> IF i <= n THEN <<text[i][1], text[i][2], i = 1>> ELSE text[i]]

\* A correction deletes the word and types it again (keyboard.rs, with the Caps
\* Lock of that moment).  What is then on the screen is what the user would have
\* typed in the target layout, or the word with one capital at the start where
\* a case fix is on: every character once, in order, the case and the
\* punctuation after the word included.
PlansRetype(buffer, caps, layout, two, fix) ==
  LET plan == CaseCorrectionPlan(buffer, layout, two, fix).buffer
      n == TailStart(buffer, layout)
      other == CHOOSE l \in Layouts : l # layout
      moved == LayoutPlan(buffer, layout, two, fix)
      asTyped == Typed(buffer, other)
  IN /\ plan # << >> /\ ~CapsOverPunctuation(Core(buffer, layout), caps, layout) =>
          Replayed(plan, caps, layout) = Capitalised(Typed(buffer, layout), n)
     /\ moved # << >> /\ ~CapsOverPunctuation(buffer, caps, other) =>
          Replayed(moved, caps, other) \in
            {asTyped} \cup (IF two \/ fix THEN {Capitalised(asTyped, Len(buffer))} ELSE {})

EveryPlanRetypes ==
  \A caps \in BOOLEAN, layout \in Layouts, two \in BOOLEAN, fix \in BOOLEAN :
    \A buffer \in Buffers(caps) : PlansRetype(buffer, caps, layout, two, fix)

\* Words the decisions are checked on: all short ones, and ones of two syllables.
Syllables == {<<"s", "t", "r">>, <<"e", "s", "t">>, <<"t", "h", "e">>, <<"r", "e", "t">>,
              <<"g", "t", "h">>, <<"h", "comma", "c">>}
DecisionWords ==
  SeqOf(LatinKeys \cup {"comma", "one"}, 3)
  \cup {<<"h", "e", "r", "e">>, <<"t", "h", "i", "s">>}
  \cup {a \o b : a \in Syllables, b \in Syllables}

\* Whether a word is moved to the other layout depends on its keys alone:
\* neither capitals nor Caps Lock nor the punctuation typed after the word
\* change the decision in either layout.
DecisionSeesWordOnly(keys, layout) ==
  LET plain == [i \in DOMAIN keys |-> Stroke(keys[i], FALSE, FALSE)]
      capitals == [i \in DOMAIN keys |-> Stroke(keys[i], keys[i] \in LatinKeys, FALSE)]
      locked == [i \in DOMAIN keys |-> Stroke(keys[i], FALSE, TRUE)]
      tail == <<Stroke("one", TRUE, FALSE), Stroke("slash", TRUE, FALSE)>>
  IN \A b \in {capitals, locked, plain \o tail} :
       ShouldSwitch(b, layout) = ShouldSwitch(plain, layout)

DecisionsSeeWordsOnly ==
  \A keys \in DecisionWords, layout \in Layouts : DecisionSeesWordOnly(keys, layout)
================================================================================
