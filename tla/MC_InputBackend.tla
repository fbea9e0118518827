---------------------------- MODULE MC_InputBackend ----------------------------
(***************************************************************************)
(* Two keyboards with links, of which the first is not the user's, and a   *)
(* mouse.                                                                  *)
(***************************************************************************)
EXTENDS InputBackend

MCNodes == <<"event0", "event1", "event2">>
MCKind == [event0 |-> "keyboard", event1 |-> "keyboard", event2 |-> "mouse"]
MCSeat == [event0 |-> "seat0", event1 |-> "seat0", event2 |-> "seat0"]
MCLinked == {"event0", "event1"}
MCDenied == {"event0"}
MCMoving == {"event1", "event2"}
MCContested == {"uinput"}
================================================================================
