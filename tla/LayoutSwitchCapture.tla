------------------------- MODULE LayoutSwitchCapture -------------------------
(***************************************************************************)
(* The capture of a layout switch shortcut (daemon/capture.rs): a settings *)
(* window starts it over D-Bus, holds it with a lease and ends it; until   *)
(* then the presses of a shortcut are kept from the desktop.  A key whose  *)
(* press was suppressed is a debt: its release is suppressed as well, even *)
(* when the capture has ended meanwhile.                                   *)
(*                                                                         *)
(* The session is one record behind the mutex of RuntimeState, and every   *)
(* operation is a function on that record, so that InputService uses the   *)
(* same functions.                                                         *)
(***************************************************************************)
EXTENDS Integers, FiniteSets

CONSTANTS
    Keys,          \* keys of the physical keyboard, by name
    Owners,        \* D-Bus names of settings windows
    NoLease,
    SoftLease, AbsoluteLease,
    MaxTime        \* bound on the clock

ASSUME CaptureAssumption ==
    /\ SoftLease \in Nat /\ AbsoluteLease \in Nat /\ MaxTime \in Nat
    /\ SoftLease <= AbsoluteLease
    /\ NoLease \notin [owner : Owners, soft : Int, absolute : Int]
    /\ NoLease \notin Owners

VARIABLES
    now,
    cap,       \* LayoutSwitchCaptureSession
    phys,      \* keys that are physically down
    device,    \* keys that were forwarded to the desktop as down
    before,    \* keys that were down when the input backend was opened
    started,   \* history: when the current capture was started,
    heard      \* and when its owner last asked for it

vars == <<now, cap, phys, device, before, started, heard>>

-----------------------------------------------------------------------------
\* The session.

Phases == {"Idle", "Waiting", "Candidate", "Unsupported", "Cancelled",
           "Finished"}

IsActive(c) == c.phase \in {"Waiting", "Candidate"}

Ctrl == {"LeftCtrl", "RightCtrl"}
Alt == {"LeftAlt", "RightAlt"}
Shift == {"LeftShift", "RightShift"}

Meta == {"LeftMeta", "RightMeta"}

CaptureKeys == Ctrl \cup Alt \cup Shift \cup {"Super", "Space", "CapsLock"}

\* physical_capture_key_from_evdev: the two logo keys are one capture key, and
\* a key that is none is its own name, outside CaptureKeys.
CaptureKey(k) == IF k \in Meta THEN "Super" ELSE k

\* evaluate: what the pressed keys are.
IsCandidate(P) ==
    \/ P = {"CapsLock"}
    \/ \E m \in Ctrl \cup Alt, s \in Shift : P = {m, s}
    \/ \E m \in Ctrl \cup {"Super"} : P = {m, "Space"}

IsPrefix(P) ==
    P = {} \/ \E m \in CaptureKeys \ {"Space", "CapsLock"} : P = {m}

Evaluate(P) ==
    CASE IsCandidate(P) -> "Candidate"
      [] IsPrefix(P) -> "Waiting"
      [] OTHER -> "Unsupported"

Idle == [phase |-> "Idle", pressed |-> {}, suppressed |-> {}, lease |-> NoLease]

\* cancel and finish
End(c, phase) ==
    [c EXCEPT !.phase = phase, !.pressed = {}, !.lease = NoLease]

Expired(c) ==
    c.lease # NoLease /\ (now >= c.lease.soft \/ now >= c.lease.absolute)

\* Mutant: a renewal moves the absolute deadline as well.
RenewedForEver(c) ==
    [c EXCEPT !.lease.soft = now + SoftLease, !.lease.absolute = now + AbsoluteLease]

Renewed(c) ==
    [c EXCEPT !.lease.soft = IF now + SoftLease <= c.lease.absolute
                             THEN now + SoftLease
                             ELSE c.lease.absolute]

Lease(owner) ==
    [owner |-> owner, soft |-> now + SoftLease, absolute |-> now + AbsoluteLease]

Started(c, lease) ==
    [c EXCEPT !.phase = "Waiting", !.pressed = {}, !.lease = lease]

\* Mutant: an unsupported key ends the capture but keeps its lease.
ReplaceStateKeepingLease(c, phase) == [c EXCEPT !.phase = phase]

\* replace_state
ReplaceState(c, phase) ==
    [c EXCEPT !.phase = phase,
              !.lease = IF phase \in {"Waiting", "Candidate"} THEN @ ELSE NoLease]

Suppress(c) == [to |-> "Suppress", session |-> c]
Direct(c) == [to |-> "ForwardDirect", session |-> c]
Through(c) == [to |-> "PassThrough", session |-> c]

\* route_event_at for a press of a capture that is active.
RoutePress(c, k) ==
    LET P == c.pressed \cup {CaptureKey(k)}
        debt == [c EXCEPT !.suppressed = @ \cup {k}]
    IN  CASE k = "Esc" -> Suppress(End(debt, "Cancelled"))
          [] k # "Esc" /\ (CaptureKey(k) \notin CaptureKeys \/ Evaluate(P) = "Unsupported") ->
                Direct(ReplaceState([c EXCEPT !.pressed = {}], "Unsupported"))
          [] OTHER ->
                Suppress(ReplaceState([debt EXCEPT !.pressed = P], Evaluate(P)))

\* Mutant: once the capture has ended its debts are forgotten.
RouteForgettingDebts(c, k, value) ==
    CASE ~IsActive(c) -> Through(c)
      [] IsActive(c) /\ k \in c.suppressed ->
            Suppress(IF value = 0
                     THEN [c EXCEPT !.suppressed = @ \ {k}, !.pressed = @ \ {CaptureKey(k)}]
                     ELSE c)
      [] IsActive(c) /\ k \notin c.suppressed /\ value # 1 -> Direct(c)
      [] OTHER -> RoutePress(c, k)

\* Mutant: a released key still counts towards the shortcut.
RouteKeepingProgress(c, k, value) ==
    CASE k \in c.suppressed ->
            Suppress(IF value = 0 THEN [c EXCEPT !.suppressed = @ \ {k}] ELSE c)
      [] k \notin c.suppressed /\ ~IsActive(c) -> Through(c)
      [] k \notin c.suppressed /\ IsActive(c) /\ value # 1 -> Direct(c)
      [] OTHER -> RoutePress(c, k)

\* route_event_at, after expire_at; value is 1 for a press, 2 for a repeat and
\* 0 for a release.
Route(c, k, value) ==
    CASE k \in c.suppressed ->
            Suppress(IF value = 0
                     THEN [c EXCEPT !.suppressed = @ \ {k}, !.pressed = @ \ {CaptureKey(k)}]
                     ELSE c)
      [] k \notin c.suppressed /\ ~IsActive(c) -> Through(c)
      [] k \notin c.suppressed /\ IsActive(c) /\ value # 1 -> Direct(c)
      [] OTHER -> RoutePress(c, k)

\* reset_input_epoch
EpochReset(c) ==
    [End(c, IF IsActive(c) THEN "Cancelled" ELSE c.phase) EXCEPT !.suppressed = {}]

\* expire_at runs first in every operation.
Current == IF Expired(cap) THEN End(cap, "Cancelled") ELSE cap

-----------------------------------------------------------------------------
Init ==
    /\ now = 0
    /\ cap = Idle
    /\ phys = {} /\ device = {} /\ before = {}
    /\ started = 0 /\ heard = 0

Tick ==
    /\ now < MaxTime
    /\ now' = now + 1
    /\ UNCHANGED <<cap, phys, device, before, started, heard>>

\* poll_layout_switch_capture_expiry, once per round of the event loop.
Expire ==
    /\ Expired(cap)
    /\ cap' = Current
    /\ UNCHANGED <<now, phys, device, before, started, heard>>

OwnedBy(c, o) == c.lease # NoLease /\ c.lease.owner = o

\* start_owned: a second start of the owner renews; another owner is refused.
StartOwned(o) ==
    /\ cap' = CASE Current.lease = NoLease -> Started(Current, Lease(o))
                [] OwnedBy(Current, o) -> Renewed(Current)
                [] OTHER -> Current
    /\ started' = IF Current.lease = NoLease THEN now ELSE started
    /\ heard' = IF Current.lease = NoLease \/ OwnedBy(Current, o) THEN now ELSE heard
    /\ UNCHANGED <<now, phys, device, before>>

RenewOwned(o) ==
    /\ cap' = IF OwnedBy(Current, o) THEN Renewed(Current) ELSE Current
    /\ heard' = IF OwnedBy(Current, o) THEN now ELSE heard
    /\ UNCHANGED <<now, phys, device, before, started>>

\* cancel_owned, finish_owned, and owner_disappeared, which only cancels.
EndOwned(o) ==
    /\ \E phase \in {"Cancelled", "Finished"} :
        cap' = IF OwnedBy(Current, o) THEN End(Current, phase) ELSE Current
    /\ UNCHANGED <<now, phys, device, before, started, heard>>

\* A physical event reaches the daemon and is routed.
Press(k) ==
    /\ k \notin phys
    /\ phys' = phys \cup {k}
    /\ LET r == Route(Current, k, 1)
       IN  /\ cap' = r.session
           /\ device' = IF r.to = "Suppress" THEN device ELSE device \cup {k}
    /\ UNCHANGED <<now, before, started, heard>>

Repeat(k) ==
    /\ k \in phys
    /\ cap' = Route(Current, k, 2).session
    /\ UNCHANGED <<now, phys, device, before, started, heard>>

Release(k) ==
    /\ k \in phys
    /\ phys' = phys \ {k}
    /\ LET r == Route(Current, k, 0)
       IN  /\ cap' = r.session
           /\ device' = IF r.to = "Suppress" THEN device ELSE device \ {k}
           /\ before' = IF r.to = "Suppress" THEN before ELSE before \ {k}
    /\ UNCHANGED <<now, started, heard>>

\* The input backend is lost and opened again: the virtual device is a new
\* one, the capture starts a new epoch, and the keys that are down by then were
\* not seen to be pressed.
BackendReset(P) ==
    /\ cap' = EpochReset(cap)
    /\ phys' = P /\ before' = P
    /\ device' = {}
    /\ UNCHANGED <<now, started, heard>>

Next ==
    \/ Tick \/ Expire
    \/ \E P \in SUBSET Keys : BackendReset(P)
    \/ \E o \in Owners : StartOwned(o) \/ RenewOwned(o) \/ EndOwned(o)
    \/ \E k \in Keys : Press(k) \/ Repeat(k) \/ Release(k)

Spec == Init /\ [][Next]_vars

\* The event loop polls, and time passes.
FairSpec == Spec /\ WF_vars(Tick) /\ WF_vars(Expire)

-----------------------------------------------------------------------------
\* Properties.

Leases == [owner : Owners, soft : Int, absolute : Int]

\* The state is typed, and a key counts towards the shortcut only while a
\* suppressed key stands for it.
TypeOK ==
    /\ now \in 0..MaxTime /\ started \in 0..now /\ heard \in started..now
    /\ cap \in [phase : Phases, pressed : SUBSET CaptureKeys, suppressed : SUBSET Keys,
                lease : Leases \cup {NoLease}]
    /\ phys \subseteq Keys /\ device \subseteq Keys /\ before \subseteq Keys
    /\ \A p \in cap.pressed : \E k \in cap.suppressed : CaptureKey(k) = p

\* Every key that is held was forwarded, or is a debt of the capture, or was
\* held before the epoch: exactly one of them.  So no key stays down on the
\* desktop after its release, and no press is kept from it while the release
\* is not, however captures start, expire and end in between.
DebtIsExact ==
    /\ phys = device \cup cap.suppressed \cup before
    /\ device \cap cap.suppressed = {}
    /\ device \cap before = {}
    /\ cap.suppressed \cap before = {}

\* A capture that swallows keys always has an owner and deadlines that end it,
\* and a capture that has ended blocks no other owner with its lease.
ActiveIsLeased ==
    IsActive(cap) <=> cap.lease # NoLease

\* Who has the keyboard: the owner of a lease that has not run out, whether or
\* not the event loop has noticed that it has.
Holder == IF Current.lease = NoLease THEN NoLease ELSE Current.lease.owner

Contract == INSTANCE CaptureContract
                WITH Nobody <- NoLease, holder <- Holder, desktop <- device,
                     captured <- cap.suppressed, unseen <- before

\* The capture keeps its contract: it lends the keyboard to one window at a
\* time, keeps presses from the desktop only for that window, and treats each
\* release like its press, however captures start, expire and end in between
\* (start_owned, expire_at, route_event_at); and one that has ended leaves no
\* lease that would keep other windows out (replace_state).
LendsTheKeyboard == Contract!Spec /\ []ActiveIsLeased

\* A key is newly swallowed only while the capture is held: its owner asked
\* for it less than the soft lease ago, and it started less than the absolute
\* lease ago, which no renewal or second start moves.  A window that has hung
\* or died takes the keyboard for a bounded time only.
SwallowsOnlyWhileHeld ==
    [][\A k \in cap'.suppressed \ cap.suppressed :
        now < heard + SoftLease /\ now < started + AbsoluteLease]_vars

\* A capture ends although nobody presses a key and its owner starts and
\* renews it for ever: the absolute deadline does not move (the captures whose
\* deadline the clock can reach are considered).
CaptureEnds ==
    \A t \in {t \in 0..MaxTime : t + AbsoluteLease <= MaxTime} :
        (cap.lease # NoLease /\ started = t) ~> (cap.lease = NoLease \/ started # t)
=============================================================================
