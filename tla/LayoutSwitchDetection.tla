------------------------- MODULE LayoutSwitchDetection -------------------------
(***************************************************************************)
(* How the daemon finds out which key combination switches the layout of   *)
(* the desktop it runs in (src/src/layout_switch/mod.rs).  One strategy    *)
(* per desktop reads the desktop's own settings through a command, looks   *)
(* for the first entry it knows and reports the combination; anything else *)
(* is a fall back to the default combination.                              *)
(*                                                                         *)
(* A desktop is a record of what its commands print: for each source the   *)
(* sequence of its entries, and the set of the sources whose command       *)
(* fails.  An XKB option is its name; an accelerator is the tokens of its  *)
(* modifiers and of its key, that is what normalize_gnome_key_token makes  *)
(* of their spellings.                                                     *)
(***************************************************************************)
EXTENDS Naturals, Sequences, SequencesExt

NoCombo == "none"

\* The XKB options the detector knows, and the combination each one names.
XkbOptions ==
  [ctrl_shift_toggle   |-> "CtrlShift",
   alt_shift_toggle    |-> "AltShift",
   caps_toggle         |-> "CapsLock",
   ctrl_space_toggle   |-> "CtrlSpace",
   win_space_toggle    |-> "SuperSpace",
   lctrl_lshift_toggle |-> "LeftCtrlLeftShift",
   rctrl_rshift_toggle |-> "RightCtrlRightShift",
   lalt_lshift_toggle  |-> "LeftAltLeftShift",
   ralt_rshift_toggle  |-> "RightAltRightShift"]

Combos == {XkbOptions[o] : o \in DOMAIN XkbOptions}
DefaultCombo == "CtrlShift"

\* The keys the daemon presses to switch the layout with a combination.
Taps ==
  [CtrlShift           |-> {"lctrl", "lshift"},
   AltShift            |-> {"lalt", "lshift"},
   CapsLock            |-> {"caps"},
   CtrlSpace           |-> {"lctrl", "space"},
   SuperSpace          |-> {"lsuper", "space"},
   LeftCtrlLeftShift   |-> {"lctrl", "lshift"},
   RightCtrlRightShift |-> {"rctrl", "rshift"},
   LeftAltLeftShift    |-> {"lalt", "lshift"},
   RightAltRightShift  |-> {"ralt", "rshift"}]

--------------------------------------------------------------------------------
(***************************************************************************)
(* Accelerators: <<modifier>>key, where a modifier token is a kind and a   *)
(* side and the key is a modifier token, Space, CapsLock or another key.   *)
(***************************************************************************)
Sides == {"any", "left", "right"}
Modifiers == {"shift", "ctrl", "alt", "super"}
Tokens == [kind : Modifiers, side : Sides]
Bindings == [mods : {<<>>} \cup {<<m>> : m \in Tokens},
             key : Tokens \cup [kind : {"space", "caps", "other"}, side : {"any"}]]

\* Mutant: the right hand keys pass for the generic ones.
AnySide(side) == side \in Sides

\* side_pair_matches_generic_left, for one of the two sides.
GenericLeft(side) == side \in {"any", "left"}

\* combo_from_gnome_space_binding.
SpaceBinding(m, key) ==
  IF key.kind # "space" \/ ~GenericLeft(m.side) THEN NoCombo
  ELSE CASE m.kind = "super" -> "SuperSpace"
         [] m.kind = "ctrl" -> "CtrlSpace"
         [] OTHER -> NoCombo

\* The sides of a pair of a primary modifier and Shift, whichever of the two
\* is written as the key: primary_token_side and secondary_token_side.
ShiftPair(m, key, primary) ==
  CASE m.kind = primary /\ key.kind = "shift" -> <<m.side, key.side>>
    [] m.kind = "shift" /\ key.kind = primary -> <<key.side, m.side>>
    [] OTHER -> <<>>

\* gnome_shift_combo: the combination a pair of sides names.
PairCombo(pair, left, right, generic) ==
  IF pair = <<>> THEN NoCombo
  ELSE IF pair = <<"left", "left">> THEN left
  ELSE IF pair = <<"right", "right">> THEN right
  ELSE IF GenericLeft(pair[1]) /\ GenericLeft(pair[2]) THEN generic ELSE NoCombo

\* combo_from_gnome_shift_pair: Alt is tried before Ctrl.
ShiftPairCombo(m, key) ==
  LET alt == PairCombo(ShiftPair(m, key, "alt"),
                       "LeftAltLeftShift", "RightAltRightShift", "AltShift")
  IN IF alt # NoCombo THEN alt
     ELSE PairCombo(ShiftPair(m, key, "ctrl"),
                    "LeftCtrlLeftShift", "RightCtrlRightShift", "CtrlShift")

\* combo_from_gnome_binding.
BindingCombo(b) ==
  CASE b.mods = <<>> -> IF b.key.kind = "caps" THEN "CapsLock" ELSE NoCombo
    [] Len(b.mods) = 1 ->
         LET space == SpaceBinding(b.mods[1], b.key)
         IN IF space # NoCombo THEN space ELSE ShiftPairCombo(b.mods[1], b.key)
    [] OTHER -> NoCombo

\* combo_from_xkb_option.
OptionCombo(o) == IF o \in DOMAIN XkbOptions THEN XkbOptions[o] ELSE NoCombo

--------------------------------------------------------------------------------
Detected(combo) == [combo |-> combo, source |-> "detected"]
Fallback == [combo |-> DefaultCombo, source |-> "fallback"]

\* The sources that hold accelerators; the others hold XKB options.
BindingSources == {"primary", "backward"}

\* The first entry of a source that names a combination; an unreadable source
\* names none.
FirstCombo(d, source) ==
  LET ComboOf(e) == IF source \in BindingSources THEN BindingCombo(e) ELSE OptionCombo(e)
      known == SelectSeq(d[source], LAMBDA e : ComboOf(e) # NoCombo)
  IN IF source \in d.unreadable \/ known = <<>> THEN NoCombo ELSE ComboOf(known[1])

OrFallback(combo) == IF combo = NoCombo THEN Fallback ELSE Detected(combo)

\* detect_wm_input_source_binding, the primary binding before the backward one.
WmCombo(d) ==
  LET primary == FirstCombo(d, "primary")
  IN IF primary # NoCombo THEN primary ELSE FirstCombo(d, "backward")

\* setxkbmap -query, its first line of options.
QueryCombo(d) == FirstCombo(d, "query")

\* detect_xfce_x11: Xfce manages the keyboard itself unless it says it does not.
DetectXfce(d) ==
  IF "disabled" \in d.unreadable THEN Fallback
  ELSE OrFallback(IF d.disabled THEN QueryCombo(d) ELSE FirstCombo(d, "group"))

\* detect_cinnamon_x11: its own options, then the bindings of the window
\* manager, then the X server; nothing more is tried when the first is
\* unreadable.
DetectCinnamon(d) ==
  LET options == FirstCombo(d, "group")
      wm == WmCombo(d)
  IN IF "group" \in d.unreadable THEN Fallback
     ELSE IF options # NoCombo THEN Detected(options)
     ELSE IF wm # NoCombo THEN Detected(wm) ELSE OrFallback(QueryCombo(d))

\* LayoutSwitchAutoDetector::detect.
DetectSwitch(d) ==
  CASE d.strategy = "xfce" -> DetectXfce(d)
    [] d.strategy = "cinnamon" -> DetectCinnamon(d)
    [] d.strategy = "gnome" -> OrFallback(WmCombo(d))
    [] OTHER -> Fallback

--------------------------------------------------------------------------------
(***************************************************************************)
(* What the desktop really does (external): the sets of keys that switch   *)
(* its layout, from the meaning of its settings and not from the detector. *)
(***************************************************************************)
KeysOf(t) ==
  IF t.kind \notin Modifiers THEN {t.kind}
  ELSE CASE t.side = "left" -> {"l" \o t.kind}
         [] t.side = "right" -> {"r" \o t.kind}
         [] OTHER -> {"l" \o t.kind, "r" \o t.kind}

BindingChords(b) ==
  IF b.mods = <<>> THEN {{k} : k \in KeysOf(b.key)}
  ELSE {{m, k} : m \in KeysOf(b.mods[1]), k \in KeysOf(b.key)}

Pair(A, B) == {{a, b} : a \in A, b \in B}
OptionChords(o) ==
  CASE o = "ctrl_shift_toggle" -> Pair({"lctrl", "rctrl"}, {"lshift", "rshift"})
    [] o = "alt_shift_toggle" -> Pair({"lalt", "ralt"}, {"lshift", "rshift"})
    [] o = "caps_toggle" -> {{"caps"}}
    [] o = "ctrl_space_toggle" -> Pair({"lctrl", "rctrl"}, {"space"})
    [] o = "win_space_toggle" -> Pair({"lsuper", "rsuper"}, {"space"})
    [] o = "lctrl_lshift_toggle" -> {{"lctrl", "lshift"}}
    [] o = "rctrl_rshift_toggle" -> {{"rctrl", "rshift"}}
    [] o = "lalt_lshift_toggle" -> {{"lalt", "lshift"}}
    [] o = "ralt_rshift_toggle" -> {{"ralt", "rshift"}}
    [] OTHER -> {}

SourceChords(d, source) ==
  LET ChordsOf(e) == IF source \in BindingSources THEN BindingChords(e) ELSE OptionChords(e)
  IN UNION {ChordsOf(d[source][i]) : i \in DOMAIN d[source]}

Chords(d) ==
  LET wm == SourceChords(d, "primary")
              \cup SourceChords(d, "backward")
      group == SourceChords(d, "group")
      query == SourceChords(d, "query")
  IN CASE d.strategy = "xfce" -> IF d.disabled THEN query ELSE group
       [] d.strategy = "cinnamon" -> group \cup wm \cup query
       [] OTHER -> wm

\* A combination reported as detected switches the layout of the desktop it
\* was detected on when its keys are pressed.
Works(setting, d) == setting.source = "detected" => Taps[setting.combo] \in Chords(d)

\* A desktop with these settings, all readable.
Desktop(strategy, disabled, group, query, primary) ==
  [strategy |-> strategy, disabled |-> disabled, group |-> group, query |-> query,
   primary |-> primary, backward |-> <<>>, unreadable |-> {}]
================================================================================
