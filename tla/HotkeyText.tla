------------------------------ MODULE HotkeyText -------------------------------
(***************************************************************************)
(* How hotkeys and layout combinations are written and read back           *)
(* (src/src/model.rs).  The configuration file and D-Bus carry them as     *)
(* text, and files of older versions hold spellings of types that are      *)
(* gone (UndoKey, SelectedTextHotkey).                                     *)
(*                                                                         *)
(* A text is a sequence of words and separators: "shift+scroll_lock" is    *)
(* <<"shift", "+", "scroll", "_", "lock">>.  No word of a trigger is the   *)
(* end of another one, so a suffix of words is a suffix of characters.     *)
(***************************************************************************)
EXTENDS Naturals, Sequences, SequencesExt

HotkeyModifiers == {"shift", "ctrl", "alt"}
HotkeyTriggers == {"f9", "f10", "f12", "pause", "scroll_lock", "insert", "menu"}
HotkeySpecs == [modifiers : SUBSET HotkeyModifiers, trigger : HotkeyTriggers]

Hotkey(modifiers, trigger) == [modifiers |-> modifiers, trigger |-> trigger]

\* What a parser returns for a text it refuses.
Invalid == [error |-> "unsupported"]
Separators == {"+", "_", "-", " "}

\* HotkeySpec::matches: the modifiers of a key press are compared exactly.
Matches(spec, trigger, modifiers) == spec.trigger = trigger /\ spec.modifiers = modifiers

\* HotkeySpec::conflicts_exact.
ConflictsExact(a, b) == a.trigger = b.trigger /\ a.modifiers = b.modifiers

--------------------------------------------------------------------------------
(***************************************************************************)
(* Writing.                                                                *)
(***************************************************************************)
\* The modifiers in the order in which they are written.
Order == <<"shift", "ctrl", "alt">>
InOrder(order, modifiers) == SelectSeq(order, LAMBDA m : m \in modifiers)

\* HotkeyTrigger::config_value.
ConfigValue(trigger) == IF trigger = "scroll_lock" THEN <<"scroll", "_", "lock">> ELSE <<trigger>>

\* Mutant: the modifiers are written in the order of the label.
DisplayLikeLabel(spec) ==
  FlattenSeq([i \in 1..Cardinality(spec.modifiers) |->
                <<InOrder(<<"ctrl", "alt", "shift">>, spec.modifiers)[i], "+">>])
    \o ConfigValue(spec.trigger)

\* Display of HotkeySpec, which its serialisation uses.
Display(spec) ==
  FlattenSeq([i \in 1..Cardinality(spec.modifiers) |->
                <<InOrder(Order, spec.modifiers)[i], "+">>])
    \o ConfigValue(spec.trigger)

--------------------------------------------------------------------------------
(***************************************************************************)
(* Reading.                                                                *)
(***************************************************************************)
Capitals == [Shift |-> "shift", Ctrl |-> "ctrl", Alt |-> "alt", Pause |-> "pause",
             F12 |-> "f12", Scroll |-> "scroll", Lock |-> "lock"]
Lower(word) == IF word \in DOMAIN Capitals THEN Capitals[word] ELSE word

\* The text in lower case without its separators.
Compact(text) ==
  SelectSeq([i \in DOMAIN text |-> Lower(text[i])], LAMBDA w : w \notin Separators)

\* HotkeyTrigger::compact_alias.
CompactAlias(trigger) == IF trigger = "scroll_lock" THEN <<"scroll", "lock">> ELSE <<trigger>>

\* HotkeyTrigger::from_compact_suffix: the first trigger the text ends with.
FromCompactSuffix(compact) ==
  SelectSeq(<<"scroll_lock", "insert", "pause", "menu", "f10", "f12", "f9">>,
            LAMBDA t : IsSuffix(CompactAlias(t), compact))

\* HotkeyModifiers::from_compact_prefix knows the modifiers in one order only.
FromCompactPrefix(prefix) == {m \in SUBSET HotkeyModifiers : InOrder(Order, m) = prefix}

\* FromStr of HotkeySpec.
Parse(text) ==
  LET compact == Compact(text)
      found == FromCompactSuffix(compact)
      prefix == SubSeq(compact, 1, Len(compact) - Len(CompactAlias(found[1])))
  IN IF found = <<>> \/ FromCompactPrefix(prefix) = {} THEN Invalid
     ELSE Hotkey(CHOOSE m \in FromCompactPrefix(prefix) : TRUE, found[1])

--------------------------------------------------------------------------------
(***************************************************************************)
(* The spellings of older versions.                                        *)
(***************************************************************************)
\* UndoKey: the only triggers there were, and SelectedTextHotkey: one of them
\* with exactly one modifier.
UndoKeys == {"pause", "f12", "scroll_lock"}
SelectedTextHotkeys == [modifier : HotkeyModifiers, key : UndoKeys]

\* What they stand for now: From<UndoKey> and From<SelectedTextHotkey>.
FromUndoKey(key) == Hotkey({}, key)
FromSelectedText(old) == Hotkey({old.modifier}, old.key)

UndoKeyText(key) ==
  CASE key = "pause" -> <<"Pause">>
    [] key = "f12" -> <<"F12">>
    [] key = "scroll_lock" -> <<"Scroll", "Lock">>
ModifierText(m) == CHOOSE w \in DOMAIN Capitals : Capitals[w] = m

\* SelectedTextHotkey::config_value, and its short_label.
SelectedTextValue(old) == <<ModifierText(old.modifier)>> \o UndoKeyText(old.key)
SelectedTextLabel(old) == <<ModifierText(old.modifier), "+">> \o UndoKeyText(old.key)

\* FromStr of SelectedTextHotkey.
ParseSelectedText(text) ==
  LET named == {o \in SelectedTextHotkeys : text \in {SelectedTextValue(o), SelectedTextLabel(o)}}
  IN IF named = {} THEN Invalid ELSE CHOOSE o \in named : TRUE

\* The spelling of every hotkey, and what is read from every spelling that a
\* version of the program wrote.
Spelling == [h \in HotkeySpecs |-> Display(h)]
Reading ==
  [text \in Range(Spelling) \cup {UndoKeyText(k) : k \in UndoKeys}
             \cup {SelectedTextValue(o) : o \in SelectedTextHotkeys}
             \cup {SelectedTextLabel(o) : o \in SelectedTextHotkeys} |-> Parse(text)]

--------------------------------------------------------------------------------
(***************************************************************************)
(* Layout combinations: a combination is the words of its name.            *)
(***************************************************************************)
ComboWords ==
  [CtrlShift           |-> <<"Ctrl", "Shift">>,
   AltShift            |-> <<"Alt", "Shift">>,
   CapsLock            |-> <<"CapsLock">>,
   CtrlSpace           |-> <<"Ctrl", "Space">>,
   SuperSpace          |-> <<"Super", "Space">>,
   LeftCtrlLeftShift   |-> <<"Left", "Ctrl", "Left", "Shift">>,
   RightCtrlRightShift |-> <<"Right", "Ctrl", "Right", "Shift">>,
   LeftAltLeftShift    |-> <<"Left", "Alt", "Left", "Shift">>,
   RightAltRightShift  |-> <<"Right", "Alt", "Right", "Shift">>]

\* LayoutSwitchCombo::config_value, the words without anything between them.
ComboValue(combo) == ComboWords[combo]

\* LayoutSwitchCombo::short_label: a blank after a side, a plus between keys.
ComboLabel(combo) ==
  LET w == ComboWords[combo]
  IN CASE Len(w) = 4 -> <<w[1], " ", w[2], "+", w[3], " ", w[4]>>
       [] Len(w) = 2 -> <<w[1], "+", w[2]>>
       [] OTHER -> w

\* FromStr of LayoutSwitchCombo.
ParseCombo(text) ==
  LET named == {c \in DOMAIN ComboWords : text \in {ComboValue(c), ComboLabel(c)}}
  IN IF named = {} THEN "unsupported" ELSE CHOOSE c \in named : TRUE
================================================================================
