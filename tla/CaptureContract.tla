---------------------------- MODULE CaptureContract ----------------------------
(***************************************************************************)
(* What the capture of a shortcut promises (daemon/capture.rs), without    *)
(* phases, leases and clocks: the keyboard is lent to one window at a time *)
(* and taken back, and every key goes where its press went.                *)
(***************************************************************************)
CONSTANTS Keys, Owners, Nobody

VARIABLES
    holder,     \* the window the keyboard is lent to, or Nobody
    desktop,    \* keys whose press the desktop was given,
    captured,   \* keys whose press was kept for a window,
    unseen      \* and keys that were down before

share == <<holder, desktop, captured, unseen>>

Down == desktop \cup captured \cup unseen

Init == holder = Nobody /\ Down = {}

\* It is lent only when nobody has it, and taken back at any time.
Lend(o) == holder = Nobody /\ holder' = o /\ UNCHANGED <<desktop, captured, unseen>>
TakeBack == holder' = Nobody /\ UNCHANGED <<desktop, captured, unseen>>

\* A press is kept from the desktop only while the keyboard is lent; it may
\* end the loan.
Press(k) ==
    /\ k \in Keys \ Down
    /\ \/ desktop' = desktop \cup {k} /\ UNCHANGED captured
       \/ holder # Nobody /\ captured' = captured \cup {k} /\ UNCHANGED desktop
    /\ holder' \in {holder, Nobody}
    /\ UNCHANGED unseen

\* A release settles its own press and nothing else, whoever has the keyboard
\* by then.
Release(k) ==
    /\ k \in Down
    /\ desktop' = desktop \ {k}
    /\ captured' = captured \ {k}
    /\ unseen' = unseen \ {k}
    /\ UNCHANGED holder

\* The keyboard is opened anew while the keys of P are held.
Reset(P) ==
    /\ desktop' = {} /\ captured' = {} /\ unseen' = P
    /\ holder' = Nobody

Next ==
    \/ TakeBack
    \/ \E o \in Owners : Lend(o)
    \/ \E k \in Keys : Press(k) \/ Release(k)
    \/ \E P \in SUBSET Keys : Reset(P)

Spec == Init /\ [][Next]_share
=============================================================================
