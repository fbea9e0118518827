-------------------------- MODULE MC_InputService --------------------------
(***************************************************************************)
(* Five users: one switches windows while a word is corrected, on X11 and  *)
(* on Wayland; one has the automatic corrections and writes words with     *)
(* overlapping separators and backspaces; one opens a settings window that *)
(* captures a shortcut before, during and after a correction; one has the  *)
(* automatic corrections and both hotkeys, and writes on while a word is   *)
(* corrected; one has the default hotkeys, which share a key, and erases   *)
(* with modifiers.                                                         *)
(***************************************************************************)
EXTENDS InputService

MCKeys == {"A", "LeftAlt", "LeftShift", "Tab", "F12", "F10", "Pause", "Space", "Enter",
           "Backspace", "CapsLock"}

Key(k) == [key |-> k, with |-> {}]

Switching(type, events) ==
    [sessionType |-> type, manual |-> Key("F12"), selected |-> Key("F10"),
     manualWordFix |-> TRUE, corrections |-> {}, keys |-> {"A", "LeftAlt", "Tab", "F12"},
     maxEvents |-> events, maxInvalidations |-> 1, maxCaptures |-> 0, maxFailures |-> 0]

Writing ==
    [sessionType |-> "X11", manual |-> Key("F12"), selected |-> Key("F10"),
     manualWordFix |-> FALSE, corrections |-> {"layout", "case"},
     keys |-> {"A", "Space", "Enter", "Backspace", "CapsLock", "F10"},
     maxEvents |-> 5, maxInvalidations |-> 1, maxCaptures |-> 0, maxFailures |-> 1]

Capturing ==
    [sessionType |-> "X11", manual |-> Key("F12"), selected |-> Key("F10"),
     manualWordFix |-> TRUE, corrections |-> {}, keys |-> {"A", "LeftAlt", "Tab", "F12"},
     maxEvents |-> 4, maxInvalidations |-> 0, maxCaptures |-> 1, maxFailures |-> 0]

Mixing ==
    [sessionType |-> "X11", manual |-> Key("F12"), selected |-> Key("F10"),
     manualWordFix |-> TRUE, corrections |-> {"case"}, keys |-> {"A", "Space", "F10", "F12"},
     maxEvents |-> 5, maxInvalidations |-> 0, maxCaptures |-> 0, maxFailures |-> 0]

Default ==
    [sessionType |-> "X11", manual |-> Key("Pause"),
     selected |-> [key |-> "Pause", with |-> {"Shift"}],
     manualWordFix |-> TRUE, corrections |-> {},
     keys |-> {"A", "LeftShift", "LeftAlt", "Backspace", "Pause"},
     maxEvents |-> 4, maxInvalidations |-> 0, maxCaptures |-> 0, maxFailures |-> 0]

MCProfiles ==
    {Switching("X11", 5), Switching("Wayland", 4), Writing, Capturing, Mixing, Default}
=============================================================================
