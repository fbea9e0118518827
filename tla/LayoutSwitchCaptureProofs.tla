----------------------- MODULE LayoutSwitchCaptureProofs -----------------------
(***************************************************************************)
(* Proofs about LayoutSwitchCapture, for every set of keys and of owners   *)
(* and all lengths of the leases, and about the CaptureDialog on top of it, *)
(* for every number of captures, loads and signals.                        *)
(***************************************************************************)
EXTENDS CaptureDialog, SequenceTheorems, TLAPS

Session == [phase : Phases, pressed : SUBSET CaptureKeys, suppressed : SUBSET Keys,
            lease : Leases \cup {NoLease}]

\* Every pressed capture key has a suppressed key that stands for it.
Backed(c) == \A p \in c.pressed : \E k \in c.suppressed : CaptureKey(k) = p

Leased(c) == IsActive(c) <=> c.lease # NoLease

\* What every function on the session preserves.
GoodSession(c) == c \in Session /\ Backed(c) /\ Leased(c)

\* The lease was drawn up when the capture started, and its soft deadline when
\* its owner was last heard of.
DeadlineInv ==
    cap.lease # NoLease =>
        /\ cap.lease.soft <= heard + SoftLease
        /\ cap.lease.absolute = started + AbsoluteLease

TimesInv == now \in 0..MaxTime /\ started \in 0..now /\ heard \in started..now

KeysInv == phys \subseteq Keys /\ device \subseteq Keys /\ before \subseteq Keys

Inv == TimesInv /\ KeysInv /\ GoodSession(cap) /\ DebtIsExact /\ DeadlineInv

\* Ending a session leaves its debts.
LEMMA EndFacts ==
    ASSUME NEW c, GoodSession(c), NEW p \in {"Cancelled", "Finished"}
    PROVE  /\ GoodSession(End(c, p))
           /\ End(c, p).suppressed = c.suppressed
           /\ End(c, p).lease = NoLease
BY DEF GoodSession, Session, Backed, Leased, IsActive, End, Phases

\* expire_at ends the session or finds that it is within its deadlines.
LEMMA CurrentFacts ==
    ASSUME GoodSession(cap), TimesInv
    PROVE  /\ GoodSession(Current)
           /\ Current.suppressed = cap.suppressed
           /\ Current.lease # NoLease =>
                 Current = cap /\ now < cap.lease.soft /\ now < cap.lease.absolute
<1>1. CASE Expired(cap)
  BY <1>1, EndFacts DEF Current
<1>2. CASE ~Expired(cap)
  <2>1. Current = cap
    BY <1>2 DEF Current
  <2>2. cap.lease # NoLease =>
            cap.lease.soft \in Int /\ cap.lease.absolute \in Int /\ now \in Int
    BY DEF GoodSession, Session, Leases, TimesInv
  <2>3. cap.lease # NoLease => now < cap.lease.soft /\ now < cap.lease.absolute
    BY <1>2, <2>2 DEF Expired
  <2> QED BY <2>1, <2>3
<1> QED BY <1>1, <1>2

\* A press either is suppressed, by a capture that is leased, and becomes a
\* debt, or leaves the debts alone.
LEMMA PressFacts ==
    ASSUME NEW c, GoodSession(c), NEW k \in Keys, k \notin c.suppressed
    PROVE  /\ GoodSession(Route(c, k, 1).session)
           /\ Route(c, k, 1).session.lease \in {c.lease, NoLease}
           /\ Route(c, k, 1).to = "Suppress" =>
                 /\ Route(c, k, 1).session.suppressed = c.suppressed \cup {k}
                 /\ c.lease # NoLease
           /\ Route(c, k, 1).to # "Suppress" =>
                 Route(c, k, 1).session.suppressed = c.suppressed
<1> DEFINE P == c.pressed \cup {CaptureKey(k)}
           debt == [c EXCEPT !.suppressed = @ \cup {k}]
           r == Route(c, k, 1)
<1>1. CASE ~IsActive(c)
  <2>1. r = Through(c)
    BY <1>1 DEF Route
  <2> QED BY <2>1 DEF Through
<1>2. CASE IsActive(c)
  <2>1. r = RoutePress(c, k) /\ c.lease # NoLease
    BY <1>2 DEF Route, GoodSession, Leased
  <2>2. CASE k = "Esc"
    <3>1. r = Suppress(End(debt, "Cancelled"))
      BY <2>1, <2>2 DEF RoutePress
    <3>2. GoodSession(debt) /\ debt.suppressed = c.suppressed \cup {k}
      BY DEF GoodSession, Session, Backed, Leased, IsActive
    <3> HIDE DEF debt
    <3>3. /\ GoodSession(End(debt, "Cancelled"))
          /\ End(debt, "Cancelled").suppressed = c.suppressed \cup {k}
          /\ End(debt, "Cancelled").lease = NoLease
      BY <3>2, EndFacts
    <3>4. r.to = "Suppress" /\ r.session = End(debt, "Cancelled")
      BY <3>1 DEF Suppress
    <3> QED BY <2>1, <3>3, <3>4
  <2>3. CASE k # "Esc" /\ (CaptureKey(k) \notin CaptureKeys \/ Evaluate(P) = "Unsupported")
    <3> DEFINE d == ReplaceState([c EXCEPT !.pressed = {}], "Unsupported")
    <3>1. r = Direct(d)
      BY <2>1, <2>3 DEF RoutePress
    <3>2. d = [c EXCEPT !.phase = "Unsupported", !.pressed = {}, !.lease = NoLease]
      BY DEF ReplaceState, GoodSession, Session
    <3>3. GoodSession(d) /\ d.suppressed = c.suppressed /\ d.lease = NoLease
      BY <3>2 DEF GoodSession, Session, Backed, Leased, IsActive, Phases
    <3> QED BY <3>1, <3>3 DEF Direct
  <2>4. CASE k # "Esc" /\ CaptureKey(k) \in CaptureKeys /\ Evaluate(P) # "Unsupported"
    <3> DEFINE d == ReplaceState([debt EXCEPT !.pressed = P], Evaluate(P))
    <3>1. r = Suppress(d)
      BY <2>1, <2>4 DEF RoutePress
    <3>2. Evaluate(P) \in {"Waiting", "Candidate"}
      BY <2>4 DEF Evaluate
    <3>3. d = [c EXCEPT !.phase = Evaluate(P), !.pressed = P,
                        !.suppressed = c.suppressed \cup {k}]
      BY <3>2 DEF ReplaceState, GoodSession, Session
    <3> HIDE DEF d
    <3>4. P \subseteq CaptureKeys
      BY <2>4 DEF GoodSession, Session
    <3>5. d \in Session /\ d.suppressed = c.suppressed \cup {k} /\ d.lease = c.lease
      BY <3>2, <3>3, <3>4 DEF GoodSession, Session, Phases
    <3>6. Backed(d)
      BY <3>3 DEF GoodSession, Session, Backed
    <3>7. Leased(d)
      BY <2>1, <3>2, <3>3 DEF GoodSession, Session, Leased, IsActive
    <3> QED BY <2>1, <3>1, <3>5, <3>6, <3>7 DEF Suppress, GoodSession
  <2> QED BY <2>2, <2>3, <2>4
<1> QED BY <1>1, <1>2

\* A release settles a debt, or is forwarded and leaves the session alone.
LEMMA ReleaseFacts ==
    ASSUME NEW c, GoodSession(c), NEW k \in Keys
    PROVE  /\ GoodSession(Route(c, k, 0).session)
           /\ Route(c, k, 0).session.lease = c.lease
           /\ Route(c, k, 0).to = "Suppress" <=> k \in c.suppressed
           /\ Route(c, k, 0).session.suppressed = c.suppressed \ {k}
<1>1. CASE k \in c.suppressed
  <2> DEFINE d == [c EXCEPT !.suppressed = @ \ {k}, !.pressed = @ \ {CaptureKey(k)}]
  <2>1. Route(c, k, 0) = Suppress(d)
    BY <1>1 DEF Route
  <2>2. d \in Session /\ d.lease = c.lease /\ d.suppressed = c.suppressed \ {k}
    BY DEF GoodSession, Session
  <2>3. Backed(d)
    BY DEF GoodSession, Session, Backed
  <2>4. Leased(d)
    BY DEF GoodSession, Session, Leased, IsActive
  <2> HIDE DEF d
  <2>5. Route(c, k, 0).to = "Suppress" /\ Route(c, k, 0).session = d
    BY <2>1 DEF Suppress
  <2> QED BY <1>1, <2>2, <2>3, <2>4, <2>5 DEF GoodSession
<1>2. CASE k \notin c.suppressed
  <2>1. Route(c, k, 0) \in {Through(c), Direct(c)}
    BY <1>2 DEF Route
  <2> QED BY <1>2, <2>1 DEF Through, Direct, GoodSession, Session
<1> QED BY <1>1, <1>2

\* A repeat leaves the session alone.
LEMMA RepeatFacts ==
    ASSUME NEW c, NEW k
    PROVE  Route(c, k, 2).session = c
BY DEF Route, Suppress, Through, Direct

\* A new lease and a renewed one keep to the deadlines.
LEMMA LeaseFacts ==
    ASSUME NEW c, GoodSession(c), NEW o \in Owners, TimesInv
    PROVE  /\ GoodSession(Started(c, Lease(o)))
           /\ Started(c, Lease(o)).suppressed = c.suppressed
           /\ Started(c, Lease(o)).lease = Lease(o)
           /\ c.lease # NoLease =>
                 /\ GoodSession(Renewed(c))
                 /\ Renewed(c).suppressed = c.suppressed
                 /\ Renewed(c).lease # NoLease
                 /\ Renewed(c).lease.soft <= now + SoftLease
                 /\ Renewed(c).lease.absolute = c.lease.absolute
<1>1. now \in Int /\ now + SoftLease \in Int /\ now + AbsoluteLease \in Int
  BY CaptureAssumption DEF TimesInv
<1>2. Lease(o) \in Leases /\ Lease(o) # NoLease
  BY <1>1, CaptureAssumption DEF Lease, Leases
<1>3. GoodSession(Started(c, Lease(o)))
  BY <1>2 DEF Started, GoodSession, Session, Backed, Leased, IsActive, Phases
<1>4. Started(c, Lease(o)).suppressed = c.suppressed /\ Started(c, Lease(o)).lease = Lease(o)
  BY DEF Started, GoodSession, Session
<1>5. ASSUME c.lease # NoLease
      PROVE  /\ GoodSession(Renewed(c))
             /\ Renewed(c).suppressed = c.suppressed
             /\ Renewed(c).lease # NoLease
             /\ Renewed(c).lease.soft <= now + SoftLease
             /\ Renewed(c).lease.absolute = c.lease.absolute
  <2> DEFINE s == IF now + SoftLease <= c.lease.absolute
                  THEN now + SoftLease ELSE c.lease.absolute
  <2>1. c.lease \in Leases /\ c.lease.absolute \in Int
    BY <1>5 DEF GoodSession, Session, Leases
  <2>2. s \in Int /\ s <= now + SoftLease
    BY <1>1, <2>1
  <2>3. Renewed(c) = [c EXCEPT !.lease = [c.lease EXCEPT !.soft = s]]
    BY DEF Renewed
  <2> HIDE DEF s
  <2>4. /\ [c.lease EXCEPT !.soft = s] \in Leases
        /\ [c.lease EXCEPT !.soft = s].soft = s
        /\ [c.lease EXCEPT !.soft = s].absolute = c.lease.absolute
    BY <2>1, <2>2 DEF Leases
  <2>5. [c.lease EXCEPT !.soft = s] # NoLease
    BY <2>4, CaptureAssumption DEF Leases
  <2> DEFINE l == [c.lease EXCEPT !.soft = s]
  <2> HIDE DEF l
  <2>6. Renewed(c) = [c EXCEPT !.lease = l]
    BY <2>3 DEF l
  <2>7. l \in Leases /\ l # NoLease
    BY <2>4, <2>5 DEF l
  <2>8. Renewed(c).lease = l /\ Renewed(c).suppressed = c.suppressed
    BY <2>6 DEF GoodSession, Session
  <2>9. GoodSession(Renewed(c))
    BY <1>5, <2>6, <2>7 DEF GoodSession, Session, Backed, Leased, IsActive
  <2> QED BY <2>2, <2>4, <2>7, <2>8, <2>9 DEF l
<1> QED BY <1>3, <1>4, <1>5

LEMMA InitInv == Init => Inv
BY CaptureAssumption
   DEF Init, Inv, TimesInv, KeysInv, GoodSession, Session, Backed, Leased, IsActive,
       Idle, Phases, DebtIsExact, DeadlineInv

LEMMA NextInv == Inv /\ [Next]_vars => Inv'
<1> SUFFICES ASSUME Inv, [Next]_vars PROVE Inv'
  OBVIOUS
<1> USE DEF Inv
<1>c. /\ GoodSession(Current)
      /\ Current.suppressed = cap.suppressed
      /\ Current.lease # NoLease =>
            Current = cap /\ now < cap.lease.soft /\ now < cap.lease.absolute
  BY CurrentFacts
<1>t. /\ now \in Int /\ started \in Int /\ heard \in Int /\ MaxTime \in Int
      /\ SoftLease \in Int /\ AbsoluteLease \in Int
      /\ SoftLease >= 0 /\ AbsoluteLease >= 0
      /\ cap.lease # NoLease => cap.lease.soft \in Int /\ cap.lease.absolute \in Int
  BY CaptureAssumption DEF TimesInv, GoodSession, Session, Leases
<1>1. CASE Tick
  <2>1. TimesInv'
    BY <1>1, <1>t DEF Tick, TimesInv
  <2>2. KeysInv' /\ DebtIsExact' /\ GoodSession(cap)' /\ DeadlineInv'
    BY <1>1 DEF Tick, KeysInv, DebtIsExact, DeadlineInv, GoodSession
  <2> QED BY <2>1, <2>2
<1>2. CASE Expire
  <2>1. cap' = Current
    BY <1>2 DEF Expire
  <2>2. TimesInv' /\ KeysInv'
    BY <1>2 DEF Expire, TimesInv, KeysInv
  <2>3. DebtIsExact'
    BY <1>2, <1>c, <2>1 DEF Expire, DebtIsExact
  <2>4. DeadlineInv'
    BY <1>2, <1>c, <2>1 DEF Expire, DeadlineInv
  <2> QED BY <1>c, <2>1, <2>2, <2>3, <2>4
<1>3. ASSUME NEW P \in SUBSET Keys, BackendReset(P) PROVE Inv'
  <2> DEFINE p == IF IsActive(cap) THEN "Cancelled" ELSE cap.phase
  <2>1. p \in Phases \ {"Waiting", "Candidate"}
    BY DEF IsActive, GoodSession, Session, Phases
  <2> HIDE DEF p
  <2>2. cap' = [cap EXCEPT !.phase = p, !.pressed = {}, !.lease = NoLease, !.suppressed = {}]
    BY <1>3 DEF BackendReset, EpochReset, End, p, GoodSession, Session
  <2>3. GoodSession(cap')
    BY <2>1, <2>2 DEF GoodSession, Session, Backed, Leased, IsActive
  <2>4. cap'.lease = NoLease /\ cap'.suppressed = {}
    BY <2>2 DEF GoodSession, Session
  <2>5. DebtIsExact' /\ KeysInv' /\ TimesInv' /\ DeadlineInv'
    BY <1>3, <2>4 DEF BackendReset, DebtIsExact, KeysInv, TimesInv, DeadlineInv
  <2> QED BY <2>3, <2>5
<1>4. ASSUME NEW o \in Owners, StartOwned(o) PROVE Inv'
  <2>0. KeysInv' /\ now' = now
    BY <1>4 DEF StartOwned, KeysInv
  <2>1. CASE Current.lease = NoLease
    <3>1. cap' = Started(Current, Lease(o)) /\ started' = now /\ heard' = now
      BY <1>4, <2>1 DEF StartOwned, OwnedBy
    <3>2. GoodSession(cap') /\ cap'.suppressed = cap.suppressed /\ cap'.lease = Lease(o)
      BY <1>c, <3>1, LeaseFacts
    <3>3. TimesInv'
      BY <1>t, <2>0, <3>1 DEF TimesInv
    <3>4. DeadlineInv'
      BY <1>t, <3>1, <3>2 DEF DeadlineInv, Lease
    <3>5. DebtIsExact'
      BY <1>4, <3>2 DEF StartOwned, DebtIsExact
    <3> QED BY <2>0, <3>2, <3>3, <3>4, <3>5
  <2>2. CASE Current.lease # NoLease /\ OwnedBy(Current, o)
    <3>1. cap' = Renewed(Current) /\ started' = started /\ heard' = now
      BY <1>4, <2>2 DEF StartOwned
    <3>2. /\ GoodSession(cap') /\ cap'.suppressed = cap.suppressed
          /\ cap'.lease.soft <= now + SoftLease
          /\ cap'.lease.absolute = cap.lease.absolute /\ cap.lease # NoLease
      BY <1>c, <2>2, <3>1, LeaseFacts
    <3>3. TimesInv'
      BY <1>t, <2>0, <3>1 DEF TimesInv
    <3>4. DeadlineInv'
      BY <1>t, <3>1, <3>2 DEF DeadlineInv
    <3>5. DebtIsExact'
      BY <1>4, <3>2 DEF StartOwned, DebtIsExact
    <3> QED BY <2>0, <3>2, <3>3, <3>4, <3>5
  <2>3. CASE Current.lease # NoLease /\ ~OwnedBy(Current, o)
    <3>1. cap' = cap /\ started' = started /\ heard' = heard
      BY <1>4, <1>c, <2>3 DEF StartOwned
    <3>2. DebtIsExact' /\ TimesInv' /\ DeadlineInv'
      BY <1>4, <3>1 DEF StartOwned, DebtIsExact, TimesInv, DeadlineInv
    <3> QED BY <2>0, <3>1, <3>2
  <2> QED BY <2>1, <2>2, <2>3
<1>5. ASSUME NEW o \in Owners, RenewOwned(o) PROVE Inv'
  <2>0. KeysInv' /\ now' = now /\ started' = started
    BY <1>5 DEF RenewOwned, KeysInv
  <2>1. CASE OwnedBy(Current, o)
    <3>1. cap' = Renewed(Current) /\ heard' = now
      BY <1>5, <2>1 DEF RenewOwned
    <3>2. /\ GoodSession(cap') /\ cap'.suppressed = cap.suppressed
          /\ cap'.lease.soft <= now + SoftLease
          /\ cap'.lease.absolute = cap.lease.absolute /\ cap.lease # NoLease
      BY <1>c, <2>1, <3>1, LeaseFacts DEF OwnedBy
    <3>3. TimesInv'
      BY <1>t, <2>0, <3>1 DEF TimesInv
    <3>4. DeadlineInv'
      BY <1>t, <2>0, <3>1, <3>2 DEF DeadlineInv
    <3>5. DebtIsExact'
      BY <1>5, <3>2 DEF RenewOwned, DebtIsExact
    <3> QED BY <2>0, <3>2, <3>3, <3>4, <3>5
  <2>2. CASE ~OwnedBy(Current, o)
    <3>1. cap' = Current /\ heard' = heard
      BY <1>5, <2>2 DEF RenewOwned
    <3>2. DebtIsExact' /\ TimesInv' /\ DeadlineInv'
      BY <1>5, <1>c, <3>1 DEF RenewOwned, DebtIsExact, TimesInv, DeadlineInv
    <3> QED BY <1>c, <2>0, <3>1, <3>2
  <2> QED BY <2>1, <2>2
<1>6. ASSUME NEW o \in Owners, EndOwned(o) PROVE Inv'
  <2>1. PICK p \in {"Cancelled", "Finished"} :
            cap' = IF OwnedBy(Current, o) THEN End(Current, p) ELSE Current
    BY <1>6 DEF EndOwned
  <2>2. /\ GoodSession(cap') /\ cap'.suppressed = cap.suppressed
        /\ cap'.lease # NoLease => cap' = cap
    BY <1>c, <2>1, EndFacts
  <2>3. DebtIsExact' /\ TimesInv' /\ DeadlineInv' /\ KeysInv'
    BY <1>6, <2>2 DEF EndOwned, DebtIsExact, TimesInv, DeadlineInv, KeysInv
  <2> QED BY <2>2, <2>3
<1>7. ASSUME NEW k \in Keys, Press(k) PROVE Inv'
  <2> DEFINE r == Route(Current, k, 1)
  <2>1. k \notin phys /\ phys' = phys \cup {k} /\ cap' = r.session /\ before' = before
        /\ device' = (IF r.to = "Suppress" THEN device ELSE device \cup {k})
    BY <1>7 DEF Press
  <2>2. k \notin Current.suppressed
    BY <1>c, <2>1 DEF DebtIsExact
  <2>3. /\ GoodSession(r.session)
        /\ r.session.lease \in {Current.lease, NoLease}
        /\ r.to = "Suppress" => r.session.suppressed = cap.suppressed \cup {k}
        /\ r.to # "Suppress" => r.session.suppressed = cap.suppressed
    BY <1>c, <2>2, PressFacts
  <2> HIDE DEF r
  <2>4. DebtIsExact'
    BY <2>1, <2>3 DEF DebtIsExact
  <2>5. KeysInv' /\ TimesInv'
    BY <1>7, <2>1 DEF Press, KeysInv, TimesInv
  <2>6. DeadlineInv'
    BY <1>7, <1>c, <2>1, <2>3 DEF Press, DeadlineInv
  <2> QED BY <2>1, <2>3, <2>4, <2>5, <2>6
<1>8. ASSUME NEW k \in Keys, Repeat(k) PROVE Inv'
  <2>1. cap' = Current
    BY <1>8, RepeatFacts DEF Repeat
  <2>2. DebtIsExact' /\ TimesInv' /\ DeadlineInv' /\ KeysInv'
    BY <1>8, <1>c, <2>1 DEF Repeat, DebtIsExact, TimesInv, DeadlineInv, KeysInv
  <2> QED BY <1>c, <2>1, <2>2
<1>9. ASSUME NEW k \in Keys, Release(k) PROVE Inv'
  <2> DEFINE r == Route(Current, k, 0)
  <2>1. k \in phys /\ phys' = phys \ {k} /\ cap' = r.session
        /\ device' = (IF r.to = "Suppress" THEN device ELSE device \ {k})
        /\ before' = (IF r.to = "Suppress" THEN before ELSE before \ {k})
    BY <1>9 DEF Release
  <2>2. /\ GoodSession(r.session)
        /\ r.session.lease = Current.lease
        /\ r.to = "Suppress" <=> k \in cap.suppressed
        /\ r.session.suppressed = cap.suppressed \ {k}
    BY <1>c, ReleaseFacts
  <2> HIDE DEF r
  <2>3. DebtIsExact'
    BY <2>1, <2>2 DEF DebtIsExact
  <2>4. KeysInv' /\ TimesInv'
    BY <1>9, <2>1 DEF Release, KeysInv, TimesInv
  <2>5. DeadlineInv'
    BY <1>9, <1>c, <2>1, <2>2 DEF Release, DeadlineInv
  <2> QED BY <2>1, <2>2, <2>3, <2>4, <2>5
<1>10. CASE UNCHANGED vars
  BY <1>10 DEF vars, TimesInv, KeysInv, GoodSession, DebtIsExact, DeadlineInv
<1> QED BY <1>1, <1>2, <1>3, <1>4, <1>5, <1>6, <1>7, <1>8, <1>9, <1>10 DEF Next

\* Every entry point of the capture session keeps the inductive invariant: the
\* keys are shared out, leases and phases agree, the deadlines are those of the
\* start and of the last renewal.
THEOREM Invariant == Spec => []Inv
BY InitInv, NextInv, PTL DEF Spec

\* The state is typed and the keys of the shortcut are backed by suppressed
\* keys.
THEOREM CaptureTyped == Spec => []TypeOK
<1>1. Inv => TypeOK
  BY DEF Inv, TimesInv, KeysInv, GoodSession, Session, Backed, TypeOK
<1> QED BY Invariant, <1>1, PTL

\* However captures start, expire, are cancelled and reset between a press and
\* its release, route_event_at treats both alike.
THEOREM ReleasesFollowTheirPresses == Spec => []DebtIsExact
<1>1. Inv => DebtIsExact
  BY DEF Inv
<1> QED BY Invariant, <1>1, PTL

\* An active capture has a lease, and only an active one.
THEOREM CapturesAreLeased == Spec => []ActiveIsLeased
<1>1. Inv => ActiveIsLeased
  BY DEF Inv, GoodSession, Leased, ActiveIsLeased
<1> QED BY Invariant, <1>1, PTL

\* No key is newly swallowed after either deadline of the capture, whatever
\* the owners ask for and whether or not the event loop polls in time.
THEOREM SwallowingIsBounded == Spec => SwallowsOnlyWhileHeld
<1>1. ASSUME Inv, [Next]_vars
      PROVE  [\A k \in cap'.suppressed \ cap.suppressed :
                now < heard + SoftLease /\ now < started + AbsoluteLease]_vars
  <2> SUFFICES ASSUME NEW j \in cap'.suppressed \ cap.suppressed
               PROVE  now < heard + SoftLease /\ now < started + AbsoluteLease
    OBVIOUS
  <2>c. /\ GoodSession(Current)
        /\ Current.suppressed = cap.suppressed
        /\ Current.lease # NoLease =>
              Current = cap /\ now < cap.lease.soft /\ now < cap.lease.absolute
    BY <1>1, CurrentFacts DEF Inv
  <2>1. ASSUME NEW k \in Keys, Press(k)
        PROVE  now < heard + SoftLease /\ now < started + AbsoluteLease
    <3>1. k \notin Current.suppressed /\ cap' = Route(Current, k, 1).session
      BY <1>1, <2>1, <2>c DEF Press, Inv, DebtIsExact
    <3>2. Current.lease # NoLease
      BY <2>c, <3>1, PressFacts
    <3>3. /\ now \in Int /\ started \in Int /\ heard \in Int
          /\ SoftLease \in Int /\ AbsoluteLease \in Int
          /\ cap.lease.soft \in Int /\ cap.lease.absolute \in Int
      BY <1>1, <2>c, <3>2, CaptureAssumption DEF Inv, TimesInv, GoodSession, Session, Leases
    <3>4. cap.lease.soft <= heard + SoftLease /\ cap.lease.absolute = started + AbsoluteLease
      BY <1>1, <2>c, <3>2 DEF Inv, DeadlineInv
    <3> QED BY <2>c, <3>2, <3>3, <3>4
  <2>2. ASSUME NEW k \in Keys, Repeat(k) \/ Release(k) PROVE FALSE
    BY <2>2, <2>c, RepeatFacts, ReleaseFacts DEF Repeat, Release
  <2>3. ASSUME NEW o \in Owners, StartOwned(o) \/ RenewOwned(o) \/ EndOwned(o) PROVE FALSE
    <3>1. Started(Current, Lease(o)).suppressed = cap.suppressed
      BY <1>1, <2>c, LeaseFacts DEF Inv
    <3>2. OwnedBy(Current, o) => Renewed(Current).suppressed = cap.suppressed
      BY <1>1, <2>c, LeaseFacts DEF Inv, OwnedBy
    <3>3. \A p \in {"Cancelled", "Finished"} : End(Current, p).suppressed = cap.suppressed
      BY <2>c, EndFacts
    <3>4. StartOwned(o) => cap' \in {Started(Current, Lease(o)), Current}
                           \/ (OwnedBy(Current, o) /\ cap' = Renewed(Current))
      BY DEF StartOwned
    <3>5. RenewOwned(o) => cap' = Current \/ (OwnedBy(Current, o) /\ cap' = Renewed(Current))
      BY DEF RenewOwned
    <3>6. EndOwned(o) => cap' = Current
                         \/ \E p \in {"Cancelled", "Finished"} : cap' = End(Current, p)
      BY DEF EndOwned
    <3>7. cap'.suppressed = cap.suppressed
      BY <2>3, <2>c, <3>1, <3>2, <3>3, <3>4, <3>5, <3>6
    <3> QED BY <3>7
  <2>4. ASSUME NEW P \in SUBSET Keys, BackendReset(P) PROVE FALSE
    BY <1>1, <2>4 DEF BackendReset, EpochReset, End, Inv, GoodSession, Session
  <2>5. ASSUME Tick \/ Expire \/ UNCHANGED vars PROVE FALSE
    BY <2>5, <2>c DEF Tick, Expire, vars
  <2> QED BY <1>1, <2>1, <2>2, <2>3, <2>4, <2>5 DEF Next
<1> QED BY Invariant, <1>1, PTL DEF Spec, SwallowsOnlyWhileHeld

-----------------------------------------------------------------------------
\* The refinement of CaptureContract.

\* The keyboard is lent exactly when expire_at leaves a lease.
LEMMA HolderFacts ==
    ASSUME Inv
    PROVE  /\ Current.lease = NoLease => Holder = NoLease
           /\ Current.lease # NoLease =>
                 Holder = Current.lease.owner /\ Holder \in Owners /\ Holder # NoLease
<1>1. GoodSession(Current)
  BY CurrentFacts DEF Inv
<1>2. Current.lease # NoLease => Current.lease.owner \in Owners
  BY <1>1 DEF GoodSession, Session, Leases
<1> QED BY <1>2, CaptureAssumption DEF Holder

\* A renewal does not change hands.
LEMMA RenewedOwner ==
    ASSUME NEW c, GoodSession(c), c.lease # NoLease
    PROVE  Renewed(c).lease.owner = c.lease.owner
BY DEF Renewed, GoodSession, Session, Leases

\* After a step the holder is the owner of the lease that is left, or nobody.
LEMMA HolderAfter ==
    ASSUME Inv'
    PROVE  /\ cap'.lease = NoLease => Holder' = NoLease
           /\ cap'.lease # NoLease => Holder' \in {cap'.lease.owner, NoLease}
<1>1. CASE Expired(cap)'
  <2>1. Current' = End(cap, "Cancelled")'
    BY <1>1 DEF Current
  <2>2. Current'.lease = NoLease
    BY <2>1 DEF End, Inv, GoodSession, Session
  <2> QED BY <2>2 DEF Holder
<1>2. CASE ~Expired(cap)'
  BY <1>2 DEF Current, Holder
<1> QED BY <1>1, <1>2

\* A step that leaves the keys alone and the keyboard with its holder, or takes
\* it back, is one of the contract.
LEMMA Kept ==
    ASSUME UNCHANGED <<device, before>>, cap'.suppressed = cap.suppressed,
           Holder' \in {Holder, NoLease}
    PROVE  [Contract!Next]_(Contract!share)
BY DEF Contract!Next, Contract!TakeBack, Contract!share

LEMMA StepRefines ==
    ASSUME Inv, Inv', [Next]_vars
    PROVE  [Contract!Next]_(Contract!share)
<1>c. /\ GoodSession(Current)
      /\ Current.suppressed = cap.suppressed
      /\ Current.lease # NoLease => Current = cap
  BY CurrentFacts DEF Inv
<1>h. /\ Current.lease = NoLease => Holder = NoLease
      /\ Current.lease # NoLease =>
            Holder = Current.lease.owner /\ Holder \in Owners /\ Holder # NoLease
  BY HolderFacts
<1>a. /\ cap'.lease = NoLease => Holder' = NoLease
      /\ cap'.lease # NoLease => Holder' \in {cap'.lease.owner, NoLease}
  BY HolderAfter
\* Whoever leaves the lease that is left, or none, keeps the holder.
<1>k. cap'.lease \in {Current.lease, NoLease} => Holder' \in {Holder, NoLease}
  BY <1>h, <1>a
<1>1. CASE Tick
  <2>1. cap' = cap /\ UNCHANGED <<device, before>>
    BY <1>1 DEF Tick
  <2>2. Expired(cap) => Expired(cap)'
    BY <1>1, CaptureAssumption DEF Tick, Expired, Inv, TimesInv, GoodSession, Session, Leases
  <2>3. Current.lease = NoLease => Holder' = NoLease
    <3>1. CASE Expired(cap)
      <4>1. Current' = End(cap, "Cancelled")'
        BY <2>2, <3>1 DEF Current
      <4> QED BY <4>1 DEF Holder, End, Inv, GoodSession, Session
    <3>2. CASE ~Expired(cap)
      BY <1>a, <2>1, <3>2 DEF Current
    <3> QED BY <3>1, <3>2
  <2>4. Current.lease # NoLease => Holder' \in {Holder, NoLease}
    BY <1>c, <1>k, <2>1
  <2> QED BY <1>h, <2>1, <2>3, <2>4, Kept
<1>2. CASE Expire
  BY <1>2, <1>c, <1>k, Kept DEF Expire
<1>3. ASSUME NEW P \in SUBSET Keys, BackendReset(P)
      PROVE  [Contract!Next]_(Contract!share)
  <2>1. cap'.lease = NoLease /\ cap'.suppressed = {} /\ device' = {} /\ before' = P
    BY <1>3 DEF BackendReset, EpochReset, End, Inv, GoodSession, Session
  <2>2. Contract!Reset(P)
    BY <1>a, <2>1 DEF Contract!Reset
  <2> QED BY <2>2 DEF Contract!Next
<1>4. ASSUME NEW o \in Owners, StartOwned(o)
      PROVE  [Contract!Next]_(Contract!share)
  <2>0. UNCHANGED <<device, before>>
    BY <1>4 DEF StartOwned
  <2>1. CASE Current.lease = NoLease
    <3>1. cap' = Started(Current, Lease(o))
      BY <1>4, <2>1 DEF StartOwned, OwnedBy
    <3>2. cap'.suppressed = cap.suppressed /\ cap'.lease = Lease(o)
      BY <1>c, <3>1, LeaseFacts DEF Inv
    <3>3. Holder' \in {o, NoLease}
      BY <1>a, <3>2 DEF Lease
    <3>4. Holder = NoLease
      BY <1>h, <2>1
    <3>5. CASE Holder' = o
      <4>1. Contract!Lend(o)
        BY <2>0, <3>2, <3>4, <3>5 DEF Contract!Lend
      <4> QED BY <4>1 DEF Contract!Next
    <3>6. CASE Holder' = NoLease
      BY <2>0, <3>2, <3>6, Kept
    <3> QED BY <3>3, <3>5, <3>6
  <2>2. CASE Current.lease # NoLease /\ OwnedBy(Current, o)
    <3>1. cap' = Renewed(Current)
      BY <1>4, <2>2 DEF StartOwned
    <3> QED BY <2>0, <2>2, <3>1, <1>c, <1>h, <1>a, RenewedOwner, LeaseFacts, Kept DEF Inv
  <2>3. CASE Current.lease # NoLease /\ ~OwnedBy(Current, o)
    <3>1. cap' = Current
      BY <1>4, <2>3 DEF StartOwned
    <3> QED BY <1>c, <1>k, <2>0, <3>1, Kept
  <2> QED BY <2>1, <2>2, <2>3
<1>5. ASSUME NEW o \in Owners, RenewOwned(o)
      PROVE  [Contract!Next]_(Contract!share)
  <2>0. UNCHANGED <<device, before>>
    BY <1>5 DEF RenewOwned
  <2>1. CASE OwnedBy(Current, o)
    <3>1. cap' = Renewed(Current) /\ Current.lease # NoLease
      BY <1>5, <2>1 DEF RenewOwned, OwnedBy
    <3> QED BY <2>0, <3>1, <1>c, <1>h, <1>a, RenewedOwner, LeaseFacts, Kept DEF Inv
  <2>2. CASE ~OwnedBy(Current, o)
    <3>1. cap' = Current
      BY <1>5, <2>2 DEF RenewOwned
    <3> QED BY <1>c, <1>k, <2>0, <3>1, Kept
  <2> QED BY <2>1, <2>2
<1>6. ASSUME NEW o \in Owners, EndOwned(o)
      PROVE  [Contract!Next]_(Contract!share)
  <2>1. PICK p \in {"Cancelled", "Finished"} :
            cap' = IF OwnedBy(Current, o) THEN End(Current, p) ELSE Current
    BY <1>6 DEF EndOwned
  <2>2. cap'.suppressed = cap.suppressed /\ cap'.lease \in {Current.lease, NoLease}
    BY <1>c, <2>1, EndFacts
  <2> QED BY <1>6, <1>k, <2>2, Kept DEF EndOwned
<1>7. ASSUME NEW k \in Keys, Press(k)
      PROVE  [Contract!Next]_(Contract!share)
  <2> DEFINE r == Route(Current, k, 1)
  <2>1. k \notin phys /\ cap' = r.session /\ before' = before
        /\ device' = (IF r.to = "Suppress" THEN device ELSE device \cup {k})
    BY <1>7 DEF Press
  <2>2. k \notin Current.suppressed /\ k \notin device \cup cap.suppressed \cup before
    BY <1>c, <2>1 DEF DebtIsExact, Inv
  <2>3. /\ r.session.lease \in {Current.lease, NoLease}
        /\ r.to = "Suppress" =>
              r.session.suppressed = cap.suppressed \cup {k} /\ Current.lease # NoLease
        /\ r.to # "Suppress" => r.session.suppressed = cap.suppressed
    BY <1>c, <2>2, PressFacts
  <2> HIDE DEF r
  <2>4. Holder' \in {Holder, NoLease}
    BY <1>k, <2>1, <2>3
  <2>5. Contract!Press(k)
    BY <1>h, <2>1, <2>2, <2>3, <2>4 DEF Contract!Press, Contract!Down
  <2> QED BY <2>5 DEF Contract!Next
<1>8. ASSUME NEW k \in Keys, Repeat(k)
      PROVE  [Contract!Next]_(Contract!share)
  <2>1. cap' = Current /\ UNCHANGED <<device, before>>
    BY <1>8, RepeatFacts DEF Repeat
  <2> QED BY <1>c, <1>k, <2>1, Kept
<1>9. ASSUME NEW k \in Keys, Release(k)
      PROVE  [Contract!Next]_(Contract!share)
  <2> DEFINE r == Route(Current, k, 0)
  <2>1. k \in phys /\ cap' = r.session /\ now' = now
        /\ device' = (IF r.to = "Suppress" THEN device ELSE device \ {k})
        /\ before' = (IF r.to = "Suppress" THEN before ELSE before \ {k})
    BY <1>9 DEF Release
  <2>2. /\ r.session.lease = Current.lease
        /\ r.to = "Suppress" <=> k \in cap.suppressed
        /\ r.session.suppressed = cap.suppressed \ {k}
    BY <1>c, ReleaseFacts
  <2> HIDE DEF r
  <2>3. Holder' = Holder
    <3>1. CASE Current.lease = NoLease
      BY <1>a, <1>h, <2>1, <2>2, <3>1
    <3>2. CASE Current.lease # NoLease
      <4>1. cap'.lease = cap.lease /\ ~Expired(cap)
        BY <1>c, <2>1, <2>2, <3>2 DEF Current, End, Inv, GoodSession, Session
      <4>2. ~Expired(cap)'
        BY <2>1, <4>1 DEF Expired
      <4> QED BY <1>c, <1>h, <3>2, <4>1, <4>2 DEF Current, Holder
    <3> QED BY <3>1, <3>2
  <2>4. Contract!Release(k)
    BY <2>1, <2>2, <2>3 DEF Contract!Release, Contract!Down, DebtIsExact, Inv
  <2> QED BY <2>4 DEF Contract!Next
<1>10. CASE UNCHANGED vars
  <2>1. UNCHANGED <<device, before>> /\ cap' = cap /\ now' = now
    BY <1>10 DEF vars
  <2>2. Holder' = Holder
    BY <2>1 DEF Holder, Current, Expired, End
  <2> QED BY <2>1, <2>2, Kept
<1> QED BY <1>1, <1>2, <1>3, <1>4, <1>5, <1>6, <1>7, <1>8, <1>9, <1>10 DEF Next

\* The capture of daemon/capture.rs implements its contract: every operation
\* on the session is a loan, a return, a press or a release of CaptureContract,
\* or changes nothing the contract speaks of; and no lease outlives a capture.
THEOREM CaptureKeepsContract == Spec => LendsTheKeyboard
<1>1. Init => Contract!Init
  BY CaptureAssumption DEF Init, Idle, Contract!Init, Contract!Down, Holder, Current, Expired
<1>2. Inv /\ Inv' /\ [Next]_vars => [Contract!Next]_(Contract!share)
  BY StepRefines
<1> QED BY Invariant, CapturesAreLeased, <1>1, <1>2, PTL DEF Spec, Contract!Spec, LendsTheKeyboard

-----------------------------------------------------------------------------
(* The dialog of a window on top of the capture.                           *)

Events == [kind : {"view"}, active : BOOLEAN]
          \cup [kind : {"state"}, gen : Nat, phase : Phases]
          \cup [kind : {"failed"}, gen : Nat]

Beats == [gen : Nat, at : {"sleep"}]
         \cup [gen : Nat, at : {"called"}, result : {"active", "error"}]

DialogTyped ==
    /\ ui \in {"idle", "start", "cancel", "finish"}
    /\ open \in BOOLEAN /\ active \in BOOLEAN /\ view \in BOOLEAN
    /\ gen \in Nat /\ beats \subseteq Beats /\ queue \in Seq(Events)
    /\ observed # NoSignal =>
         /\ observed.gen \in Nat /\ observed.phase \in Phases /\ observed.local \in BOOLEAN

\* The view state v, when the events of q have been taken, is a: it is the one
\* the last view of q carries.
ViewComes(q, v, a) ==
    \/ v = a /\ \A i \in 1..Len(q) : q[i].kind # "view"
    \/ \E i \in 1..Len(q) :
         /\ q[i].kind = "view" /\ q[i].active = a
         /\ \A j \in 1..Len(q) : j > i => q[j].kind # "view"

\* The UI thread will have the view state of the domain.
ViewFollows == ViewComes(queue, view, active)

\* A heartbeat of the present generation is the only one, and beats for a
\* capture whose dialog is open and that nobody is ending.
BeatsInv ==
    /\ \A b \in beats : b.gen <= gen
    /\ \A a, b \in beats : a.gen = gen /\ b.gen = gen => a = b
    /\ loads <= MaxLoads
    /\ \A b \in beats : b.gen = gen /\ loads = MaxLoads => ui = "idle" /\ open /\ active

DialogInv == loads \in Nat /\ DialogTyped /\ ViewFollows /\ BeatsInv

-----------------------------------------------------------------------------
(* The queue of the UI thread.                                             *)

\* A view that is appended is the one to come.
LEMMA AppendView ==
    ASSUME NEW q \in Seq(Events), NEW v, NEW a \in BOOLEAN
    PROVE  /\ Append(q, ViewEvent(a)) \in Seq(Events)
           /\ ViewComes(Append(q, ViewEvent(a)), v, a)
<1>1. ViewEvent(a) \in Events
  BY DEF ViewEvent, Events
<1> DEFINE r == Append(q, ViewEvent(a))
<1>2. /\ r \in Seq(Events) /\ Len(r) = Len(q) + 1 /\ r[Len(r)] = ViewEvent(a)
      /\ Len(r) \in 1..Len(r)
  BY <1>1
<1> HIDE DEF r
<1> QED BY <1>2 DEF ViewComes, ViewEvent, r

\* Another event that is appended changes nothing.
LEMMA AppendOther ==
    ASSUME NEW q \in Seq(Events), NEW e \in Events, e.kind # "view",
           NEW v, NEW a, ViewComes(q, v, a)
    PROVE  Append(q, e) \in Seq(Events) /\ ViewComes(Append(q, e), v, a)
<1> DEFINE r == Append(q, e)
<1>1. /\ r \in Seq(Events) /\ Len(r) = Len(q) + 1 /\ Len(q) \in Nat /\ r[Len(r)] = e
      /\ \A i \in 1..Len(q) : r[i] = q[i]
  OBVIOUS
<1> HIDE DEF r
<1>2. \A i \in 1..Len(r) : i \in 1..Len(q) \/ i = Len(r)
  BY <1>1
<1>3. 1..Len(q) \subseteq 1..Len(r)
  BY <1>1
<1>4. ViewComes(r, v, a)
  BY <1>1, <1>2, <1>3 DEF ViewComes
<1> QED BY <1>1, <1>4 DEF r

\* So does taking it.
LEMMA TakeOther ==
    ASSUME NEW q \in Seq(Events), q # <<>>, Head(q).kind # "view",
           NEW v, NEW a, ViewComes(q, v, a)
    PROVE  Tail(q) \in Seq(Events) /\ ViewComes(Tail(q), v, a)
<1> DEFINE r == Tail(q)
<1>1. /\ r \in Seq(Events) /\ Len(r) = Len(q) - 1 /\ Len(q) \in Nat /\ Len(q) > 0
      /\ \A i \in 1..Len(r) : r[i] = q[i + 1]
      /\ Head(q) = q[1]
  OBVIOUS
<1> HIDE DEF r
<1>2. CASE v = a /\ \A i \in 1..Len(q) : q[i].kind # "view"
  <2>1. \A i \in 1..Len(r) : i + 1 \in 1..Len(q)
    BY <1>1
  <2> QED BY <1>1, <1>2, <2>1 DEF ViewComes, r
<1>3. CASE \E i \in 1..Len(q) :
             /\ q[i].kind = "view" /\ q[i].active = a
             /\ \A j \in 1..Len(q) : j > i => q[j].kind # "view"
  <2>1. PICK i \in 1..Len(q) :
             /\ q[i].kind = "view" /\ q[i].active = a
             /\ \A j \in 1..Len(q) : j > i => q[j].kind # "view"
    BY <1>3
  <2>2. i # 1 /\ i - 1 \in 1..Len(r) /\ r[i - 1] = q[i]
    BY <1>1, <2>1
  <2>3. \A j \in 1..Len(r) : j > i - 1 => j + 1 \in 1..Len(q) /\ j + 1 > i
    BY <1>1, <2>1
  <2>4. \A j \in 1..Len(r) : j > i - 1 => r[j].kind # "view"
    BY <1>1, <2>1, <2>3
  <2> QED BY <1>1, <2>1, <2>2, <2>4 DEF ViewComes, r
<1> QED BY <1>2, <1>3 DEF ViewComes

\* Taking a view applies it.
LEMMA TakeAView ==
    ASSUME NEW q \in Seq(Events), q # <<>>, Head(q).kind = "view",
           NEW v, NEW a, ViewComes(q, v, a)
    PROVE  /\ Tail(q) \in Seq(Events) /\ ViewComes(Tail(q), Head(q).active, a)
           /\ Head(q).active \in BOOLEAN
<1> DEFINE r == Tail(q)
<1>1. /\ r \in Seq(Events) /\ Len(r) = Len(q) - 1 /\ Len(q) \in Nat /\ Len(q) > 0
      /\ \A i \in 1..Len(r) : r[i] = q[i + 1]
      /\ Head(q) = q[1] /\ Head(q) \in Events
  OBVIOUS
<1> HIDE DEF r
<1>2. PICK i \in 1..Len(q) :
           /\ q[i].kind = "view" /\ q[i].active = a
           /\ \A j \in 1..Len(q) : j > i => q[j].kind # "view"
  BY <1>1 DEF ViewComes
<1>3. \A j \in 1..Len(r) : j > i - 1 => j + 1 \in 1..Len(q) /\ j + 1 > i
  BY <1>1, <1>2
<1>4. \A j \in 1..Len(r) : j > i - 1 => r[j].kind # "view"
  BY <1>1, <1>2, <1>3
<1>5. i = 1 => ViewComes(r, Head(q).active, a)
  BY <1>1, <1>2, <1>4 DEF ViewComes
<1>6. i # 1 => ViewComes(r, Head(q).active, a)
  <2> SUFFICES ASSUME i # 1 PROVE ViewComes(r, Head(q).active, a)
    OBVIOUS
  <2>1. i - 1 \in 1..Len(r) /\ r[i - 1] = q[i]
    BY <1>1, <1>2
  <2> QED BY <1>1, <1>2, <1>4, <2>1 DEF ViewComes
<1>7. Head(q).active \in BOOLEAN
  BY <1>1 DEF Events
<1> QED BY <1>1, <1>5, <1>6, <1>7 DEF r

\* When there is nothing to take the view is what is to come.
LEMMA ViewIsHere ==
    ASSUME NEW v, NEW a, ViewComes(<<>>, v, a)
    PROVE  v = a
BY DEF ViewComes

-----------------------------------------------------------------------------
(* The daemon under the dialog is the capture.                             *)

\* Whatever the window does, the daemon's capture makes one of its own steps or
\* none: what is proved of the capture holds under every dialog.
LEMMA DialogStepIsCaptureStep == [DialogNext]_allVars => [Next]_vars
<1> SUFFICES ASSUME [DialogNext]_allVars PROVE [Next]_vars
  OBVIOUS
<1>w. Window \in Owners
  BY DialogAssumption
<1>1. CASE DaemonStep
  <2>1. ASSUME NEW o \in Owners, OwnerVanishes(o) PROVE EndOwned(o)
    BY <2>1 DEF OwnerVanishes, EndOwned
  <2> QED BY <1>1, <2>1 DEF DaemonStep, Next
<1>2. CASE RowActivated \/ CloseDialog \/ Confirm \/ CloseWindow
  BY <1>2 DEF RowActivated, CloseDialog, Confirm, CloseWindow
<1>3. CASE CallStart
  BY <1>3, <1>w DEF CallStart, Next
<1>4. CASE CallCancel \/ CallFinish
  <2>1. EndOwned(Window)
    BY <1>4 DEF CallCancel, CallFinish, EndOwned
  <2> QED BY <1>w, <2>1 DEF Next
<1>5. CASE TakeEvent
  BY <1>5 DEF TakeEvent
<1>6. CASE \E b \in beats : Beat(b) \/ BeatReturns(b)
  BY <1>6, <1>w DEF Beat, BeatReturns, Next
<1>7. CASE Observe \/ Reconcile \/ LoadEnds
  BY <1>7 DEF Observe, Reconcile, LoadEnds
<1>8. CASE UNCHANGED allVars
  BY <1>8 DEF allVars
<1> QED BY <1>1, <1>2, <1>3, <1>4, <1>5, <1>6, <1>7, <1>8 DEF DialogNext, UiCall

\* The windows and the daemon together implement the capture alone.
THEOREM DialogImplementsCapture == DialogSpec => Spec
<1>1. DialogInit => Init
  BY DEF DialogInit
<1> QED BY <1>1, DialogStepIsCaptureStep, PTL DEF DialogSpec, Spec

-----------------------------------------------------------------------------
(* The heartbeat.                                                          *)

LEMMA DialogInitInv == DialogInit => DialogInv
<1> SUFFICES ASSUME DialogInit PROVE DialogInv
  OBVIOUS
<1>0. <<>> \in Seq(Events) /\ 1..Len(<<>>) = {}
  OBVIOUS
<1>1. DialogTyped
  BY <1>0 DEF DialogInit, DialogTyped
<1>2. ViewFollows
  BY <1>0 DEF DialogInit, ViewFollows, ViewComes
<1>3. BeatsInv /\ loads \in Nat
  BY DialogAssumption DEF DialogInit, BeatsInv
<1> QED BY <1>1, <1>2, <1>3 DEF DialogInv

\* The dialog's own variables keep their types when they are given such values.
LEMMA TypedStays ==
    ASSUME DialogTyped, ui' \in {"idle", "start", "cancel", "finish"},
           open' \in BOOLEAN, active' \in BOOLEAN, view' \in BOOLEAN, gen' \in Nat,
           beats' \subseteq Beats, queue' \in Seq(Events), observed' = observed
    PROVE  DialogTyped'
BY DEF DialogTyped

\* Only a step of the dialog touches the dialog.
LEMMA DialogStutter ==
    ASSUME DialogInv, UNCHANGED dialogVars
    PROVE  DialogInv'
BY DEF DialogInv, DialogTyped, ViewFollows, ViewComes, BeatsInv, dialogVars

\* A generation that is begun anew leaves no heartbeat of the present one.
LEMMA NoBeatOfNext ==
    ASSUME DialogInv, gen' > gen, gen' \in Nat, beats' = beats,
           UNCHANGED loads
    PROVE  BeatsInv'
BY DEF DialogInv, DialogTyped, BeatsInv, Beats

\* As long as no generation begins, a heartbeat keeps its dialog.
LEMMA BeatsStay ==
    ASSUME DialogInv, UNCHANGED <<gen, beats>>, loads' <= loads, loads' \in Nat,
           loads' = MaxLoads => (\A b \in beats : b.gen # gen) \/ UNCHANGED <<ui, open, active>>
    PROVE  BeatsInv'
BY DialogAssumption DEF DialogInv, DialogTyped, BeatsInv

LEMMA DialogNextInv ==
    ASSUME Inv, Inv', DialogInv, [DialogNext]_allVars
    PROVE  DialogInv'
<1>t. /\ DialogTyped /\ ViewFollows /\ BeatsInv
      /\ loads \in Nat /\ gen \in Nat /\ queue \in Seq(Events)
      /\ beats \subseteq Beats /\ active \in BOOLEAN
  BY DEF DialogInv, DialogTyped
<1>p. cap.phase \in Phases /\ cap'.phase \in Phases
  BY DEF Inv, GoodSession, Session
<1>1. CASE DaemonStep
  <2>1. UNCHANGED dialogVars
    BY <1>1 DEF DaemonStep, dialogVars
  <2> QED BY <2>1, DialogStutter
<1>2. CASE RowActivated
  <2>1. /\ gen' = gen + 1 /\ UNCHANGED <<open, view, beats, observed, loads>>
        /\ active' = TRUE /\ ui' = "start" /\ queue' = Append(queue, ViewEvent(TRUE))
    BY <1>2 DEF RowActivated
  <2>2. queue' \in Seq(Events) /\ ViewFollows'
    BY <1>t, <2>1, AppendView DEF ViewFollows
  <2>3. BeatsInv'
    BY <1>t, <2>1, NoBeatOfNext
  <2>4. open \in BOOLEAN /\ view \in BOOLEAN /\ gen' \in Nat
    BY <1>t, <2>1 DEF DialogTyped
  <2>5. DialogTyped'
    BY <1>t, <2>1, <2>2, <2>4, TypedStays
  <2> QED BY <1>t, <2>1, <2>2, <2>3, <2>5 DEF DialogInv
<1>3. CASE CallStart
  <2>1. UNCHANGED <<view, observed, loads>> /\ ui' = "idle"
    BY <1>3 DEF CallStart
  <2>2. CASE /\ gen' = gen + 2
             /\ beats' = beats \cup {[gen |-> gen + 2, at |-> "sleep"]}
             /\ queue' = queue \o (IF active THEN <<>> ELSE <<ViewEvent(TRUE)>>)
                               \o <<StateEvent(gen + 2, cap'.phase)>>
             /\ active' = TRUE /\ open' = TRUE
    <3> DEFINE q == IF active THEN queue ELSE Append(queue, ViewEvent(TRUE))
               e == StateEvent(gen + 2, cap'.phase)
    <3>1. q \in Seq(Events) /\ ViewComes(q, view, TRUE)
      BY <1>t, AppendView DEF ViewFollows
    <3>2. e \in Events /\ e.kind # "view"
      BY <1>t, <1>p DEF StateEvent, Events
    <3>3. queue' = Append(q, e)
      <4>1. ViewEvent(TRUE) \in Events
        BY DEF ViewEvent, Events
      <4> HIDE DEF e
      <4>2. CASE active
        <5>1. queue' = queue \o <<>> \o <<e>> /\ q = queue
          BY <2>2, <4>2 DEF e
        <5>2. queue \o <<>> = queue /\ Append(queue, e) = queue \o <<e>>
          BY <1>t, <3>2, ConcatEmptySeq, AppendIsConcat
        <5> QED BY <5>1, <5>2
      <4>3. CASE ~active
        <5>1. queue' = queue \o <<ViewEvent(TRUE)>> \o <<e>>
              /\ q = Append(queue, ViewEvent(TRUE))
          BY <2>2, <4>3 DEF e
        <5>2. queue \o <<ViewEvent(TRUE)>> = q
          BY <1>t, <4>1, <5>1, AppendIsConcat
        <5>3. Append(q, e) = q \o <<e>>
          BY <3>1, <3>2, AppendIsConcat
        <5> QED BY <5>1, <5>2, <5>3
      <4> QED BY <4>2, <4>3
    <3> HIDE DEF q, e
    <3>4. queue' \in Seq(Events) /\ ViewFollows'
      BY <2>1, <2>2, <3>1, <3>2, <3>3, AppendOther DEF ViewFollows
    <3>5. BeatsInv'
      BY <1>t, <2>1, <2>2 DEF BeatsInv, Beats
    <3>6. beats' \subseteq Beats
      BY <1>t, <2>2 DEF Beats
    <3>7. view \in BOOLEAN /\ gen' \in Nat
      BY <1>t, <2>2 DEF DialogTyped
    <3>8. DialogTyped'
      BY <1>t, <2>1, <2>2, <3>4, <3>6, <3>7, TypedStays
    <3> QED BY <1>t, <2>1, <3>4, <3>5, <3>8 DEF DialogInv
  <2>3. CASE /\ queue' = Append(queue, ViewEvent(FALSE))
             /\ active' = FALSE /\ open' = FALSE /\ UNCHANGED <<gen, beats>>
    <3>1. queue' \in Seq(Events) /\ ViewFollows'
      BY <1>t, <2>1, <2>3, AppendView DEF ViewFollows
    <3>2. loads = MaxLoads => \A b \in beats : b.gen # gen
      BY <1>3, <1>t DEF CallStart, BeatsInv
    <3>3. BeatsInv'
      BY <1>t, <2>1, <2>3, <3>2, BeatsStay
    <3> QED BY <1>t, <2>1, <2>3, <3>1, <3>3 DEF DialogInv, DialogTyped
  <2> QED BY <1>3, <2>2, <2>3 DEF CallStart
<1>4. ASSUME BeginCancel, UNCHANGED <<view, beats, observed, loads>>, open' \in BOOLEAN
      PROVE  DialogInv'
  <2>1. /\ gen' = gen + 1 /\ active' = FALSE /\ ui' = "cancel"
        /\ queue' = IF active THEN Append(queue, ViewEvent(FALSE)) ELSE queue
    BY <1>4 DEF BeginCancel
  <2>2. queue' \in Seq(Events) /\ ViewFollows'
    BY <1>t, <1>4, <2>1, AppendView DEF ViewFollows
  <2>3. BeatsInv'
    BY <1>t, <1>4, <2>1, NoBeatOfNext
  <2>4. view \in BOOLEAN /\ gen' \in Nat
    BY <1>t, <2>1 DEF DialogTyped
  <2>5. DialogTyped'
    BY <1>t, <1>4, <2>1, <2>2, <2>4, TypedStays
  <2> QED BY <1>t, <1>4, <2>2, <2>3, <2>5 DEF DialogInv
<1>5. CASE CloseDialog
  <2>1. CASE view /\ BeginCancel /\ UNCHANGED open
    BY <1>4, <1>5, <1>t, <2>1 DEF CloseDialog, DialogTyped
  <2>2. CASE ~view /\ open' = FALSE /\ UNCHANGED <<ui, gen, active, queue>>
    <3>1. ~active /\ UNCHANGED <<view, beats, observed, loads>>
      BY <1>5, <1>t, <2>2, ViewIsHere DEF CloseDialog, Shown, ViewFollows
    <3>2. loads = MaxLoads => \A b \in beats : b.gen # gen
      BY <1>t, <3>1 DEF BeatsInv
    <3>3. BeatsInv'
      BY <1>t, <2>2, <3>1, <3>2, BeatsStay
    <3> QED BY <1>t, <2>2, <3>1, <3>3 DEF DialogInv, DialogTyped, ViewFollows, ViewComes
  <2> QED BY <1>5, <2>1, <2>2 DEF CloseDialog
<1>6. CASE CallCancel
  <2>1. /\ ui' = "idle" /\ open' = FALSE
        /\ queue' = IF OwnedBy(Current, Window)
                    THEN Append(queue, StateEvent(gen, "Cancelled")) ELSE queue
        /\ UNCHANGED <<active, view, gen, beats, observed, loads>>
    BY <1>6 DEF CallCancel
  <2>2. /\ StateEvent(gen, "Cancelled") \in Events
        /\ StateEvent(gen, "Cancelled").kind # "view"
    BY <1>t DEF StateEvent, Events, Phases
  <2>3. queue' \in Seq(Events) /\ ViewFollows'
    BY <1>t, <2>1, <2>2, AppendOther DEF ViewFollows
  <2>4. loads = MaxLoads => \A b \in beats : b.gen # gen
    BY <1>6, <1>t DEF CallCancel, BeatsInv
  <2>5. BeatsInv'
    BY <1>t, <2>1, <2>4, BeatsStay
  <2> QED BY <1>t, <2>1, <2>3, <2>5 DEF DialogInv, DialogTyped
<1>7. CASE Confirm
  <2>1. gen' = gen + 1 /\ ui' = "finish"
        /\ UNCHANGED <<open, active, view, queue, beats, observed, loads>>
    BY <1>7 DEF Confirm
  <2>2. BeatsInv'
    BY <1>t, <2>1, NoBeatOfNext
  <2> QED BY <1>t, <2>1, <2>2 DEF DialogInv, DialogTyped, ViewFollows, ViewComes
<1>8. CASE CallFinish
  <2> DEFINE e == StateEvent(gen, "Finished")
             q == Append(queue, ViewEvent(FALSE))
  <2>1. /\ ui' = "idle" /\ open' = FALSE /\ active' = FALSE
        /\ queue' = q \o (IF OwnedBy(Current, Window) THEN <<e>> ELSE <<>>)
        /\ UNCHANGED <<view, gen, beats, observed, loads>>
    BY <1>8 DEF CallFinish
  <2>2. e \in Events /\ e.kind # "view"
    BY <1>t DEF StateEvent, Events, Phases
  <2>3. q \in Seq(Events) /\ ViewComes(q, view, FALSE)
    BY <1>t, AppendView
  <2> HIDE DEF e, q
  <2>4. queue' = q \/ queue' = Append(q, e)
    BY <2>1, <2>2, <2>3
  <2>5. queue' \in Seq(Events) /\ ViewFollows'
    BY <2>1, <2>2, <2>3, <2>4, AppendOther DEF ViewFollows
  <2>6. loads = MaxLoads => \A b \in beats : b.gen # gen
    BY <1>8, <1>t DEF CallFinish, BeatsInv
  <2>7. BeatsInv'
    BY <1>t, <2>1, <2>6, BeatsStay
  <2> QED BY <1>t, <2>1, <2>5, <2>7 DEF DialogInv, DialogTyped
<1>9. ASSUME NEW b \in beats, Beat(b)
      PROVE  DialogInv'
  <2>1. UNCHANGED <<ui, open, active, view, gen, queue, observed, loads>>
    BY <1>9 DEF Beat
  <2>2. CASE gen # b.gen /\ beats' = beats \ {b}
    BY <1>t, <2>1, <2>2 DEF DialogInv, DialogTyped, ViewFollows, ViewComes, BeatsInv
  <2>3. CASE gen = b.gen /\ RenewOwned(Window)
    <3> DEFINE n == [gen |-> b.gen, at |-> "called",
                     result |-> IF OwnedBy(cap', Window) THEN "active" ELSE "error"]
    <3>1. beats' = (beats \ {b}) \cup {n}
      BY <1>9, <2>3 DEF Beat
    <3>2. n \in Beats /\ n.gen = b.gen
      BY <1>t, <2>3 DEF Beats
    <3> HIDE DEF n
    <3> QED BY <1>t, <1>9, <2>1, <2>3, <3>1, <3>2
            DEF DialogInv, DialogTyped, ViewFollows, ViewComes, BeatsInv
  <2> QED BY <1>9, <2>2, <2>3 DEF Beat
<1>10. ASSUME NEW b \in beats, BeatReturns(b)
       PROVE  DialogInv'
  <2> DEFINE n == [gen |-> b.gen, at |-> "sleep"]
  <2>1. /\ UNCHANGED <<ui, open, active, view, gen, observed, loads>>
        /\ \/ beats' = beats \ {b}
           \/ gen = b.gen /\ beats' = (beats \ {b}) \cup {n}
        /\ queue' = IF gen = b.gen /\ b.result = "error"
                    THEN Append(queue, FailedEvent(b.gen)) ELSE queue
    BY <1>10 DEF BeatReturns
  <2>2. n \in Beats /\ n.gen = b.gen /\ b.gen \in Nat
    BY <1>t DEF Beats
  <2>3. FailedEvent(b.gen) \in Events /\ FailedEvent(b.gen).kind # "view"
    BY <2>2 DEF FailedEvent, Events
  <2>4. queue' \in Seq(Events) /\ ViewFollows'
    BY <1>t, <2>1, <2>3, AppendOther DEF ViewFollows
  <2> HIDE DEF n
  <2>5. BeatsInv' /\ beats' \subseteq Beats
    BY <1>t, <1>10, <2>1, <2>2 DEF BeatsInv
  <2> QED BY <1>t, <2>1, <2>4, <2>5 DEF DialogInv, DialogTyped
<1>11. CASE Observe
  BY <1>t, <1>11 DEF Observe, DialogInv, DialogTyped, ViewFollows, ViewComes, BeatsInv
<1>12. CASE Reconcile
  <2> DEFINE phase == IF observed.local THEN cap.phase ELSE observed.phase
  <2>1. /\ queue' = IF gen = observed.gen THEN Append(queue, StateEvent(gen, phase))
                    ELSE queue
        /\ observed' = NoSignal
        /\ UNCHANGED <<ui, open, active, view, gen, beats, loads>>
    BY <1>12 DEF Reconcile
  <2>2. phase \in Phases
    BY <1>12, <1>p, <1>t DEF Reconcile, DialogTyped
  <2> HIDE DEF phase
  <2>3. StateEvent(gen, phase) \in Events /\ StateEvent(gen, phase).kind # "view"
    BY <1>t, <2>2 DEF StateEvent, Events
  <2>4. queue' \in Seq(Events) /\ ViewFollows'
    BY <1>t, <2>1, <2>3, AppendOther DEF ViewFollows
  <2> QED BY <1>t, <2>1, <2>4 DEF DialogInv, DialogTyped, BeatsInv
<1>13. CASE LoadEnds
  <2>1. /\ loads > 0 /\ loads' = loads - 1 /\ active' = FALSE
        /\ queue' = Append(queue, ViewEvent(FALSE))
        /\ UNCHANGED <<ui, open, view, gen, beats, observed>>
    BY <1>13 DEF LoadEnds
  <2>2. queue' \in Seq(Events) /\ ViewFollows'
    BY <1>t, <2>1, AppendView DEF ViewFollows
  <2>3. BeatsInv' /\ loads' \in Nat
    BY <1>t, <2>1, DialogAssumption DEF BeatsInv
  <2> QED BY <1>t, <2>1, <2>2, <2>3 DEF DialogInv, DialogTyped
<1>14. CASE TakeEvent
  <2>q. /\ queue # <<>> /\ ui = "idle"
        /\ UNCHANGED <<ui, beats, observed, loads>>
    BY <1>14 DEF TakeEvent
  <2>1. CASE TakeView
    <3>1. /\ view' = Head(queue).active /\ queue' = Tail(queue)
          /\ UNCHANGED <<open, active, gen>>
      BY <2>1 DEF TakeView
    <3>2. queue' \in Seq(Events) /\ view' \in BOOLEAN /\ ViewFollows'
      BY <1>t, <2>q, <2>1, <3>1, TakeAView DEF ViewFollows, TakeView
    <3> QED BY <1>t, <2>q, <3>1, <3>2 DEF DialogInv, DialogTyped, BeatsInv
  <2>2. CASE TakeStale
    <3>1. /\ queue' = Tail(queue) /\ UNCHANGED <<open, active, view, gen>>
      BY <2>2 DEF TakeStale
    <3>2. queue' \in Seq(Events) /\ ViewFollows'
      BY <1>t, <2>q, <2>2, <3>1, TakeOther DEF ViewFollows, TakeStale
    <3> QED BY <1>t, <2>q, <3>1, <3>2 DEF DialogInv, DialogTyped, BeatsInv
  \* The capture is over for the domain.
  <2>3. ASSUME Head(queue).kind # "view", Deactivate, open' \in BOOLEAN, UNCHANGED view
        PROVE  DialogInv'
    <3>1. /\ gen' = gen + 1 /\ active' = FALSE
          /\ queue' = IF active THEN Append(Tail(queue), ViewEvent(FALSE)) ELSE Tail(queue)
      BY <2>3 DEF Deactivate
    <3>2. Tail(queue) \in Seq(Events) /\ ViewComes(Tail(queue), view, active)
      BY <1>t, <2>q, <2>3, TakeOther DEF ViewFollows
    <3>3. queue' \in Seq(Events) /\ ViewFollows'
      BY <1>t, <2>3, <3>1, <3>2, AppendView DEF ViewFollows
    <3>4. BeatsInv'
      BY <1>t, <2>q, <3>1, NoBeatOfNext
    <3>5. view \in BOOLEAN /\ gen' \in Nat
      BY <1>t, <3>1 DEF DialogTyped
    <3>6. DialogTyped'
      BY <1>t, <2>q, <2>3, <3>1, <3>3, <3>5, TypedStays
    <3> QED BY <1>t, <2>q, <3>3, <3>4, <3>6 DEF DialogInv
  <2>4. CASE TakeState
    <3>1. CASE Head(queue).phase \notin {"Waiting", "Candidate"}
      BY <1>t, <2>3, <2>4, <3>1 DEF TakeState, DialogTyped
    <3>2. CASE Head(queue).phase \in {"Waiting", "Candidate"}
      <4>1. /\ Head(queue).kind # "view" /\ queue' = Tail(queue)
            /\ UNCHANGED <<active, view, gen>> /\ open' = open
        BY <1>t, <2>4, <3>2 DEF TakeState, DialogTyped
      <4>2. queue' \in Seq(Events) /\ ViewFollows'
        BY <1>t, <2>q, <4>1, TakeOther DEF ViewFollows
      <4> QED BY <1>t, <2>q, <4>1, <4>2 DEF DialogInv, DialogTyped, BeatsInv
    <3> QED BY <3>1, <3>2
  <2>5. CASE TakeFailure
    BY <2>3, <2>5 DEF TakeFailure
  <2> QED BY <1>14, <2>1, <2>2, <2>4, <2>5 DEF TakeEvent
<1>15. CASE CloseWindow
  <2>1. CASE view /\ BeginCancel
    BY <1>4, <1>15, <1>t, <2>1 DEF CloseWindow, DialogTyped
  <2>2. CASE ~view /\ gen' = gen + 1 /\ active' = FALSE /\ UNCHANGED <<ui, queue>>
    <3>1. UNCHANGED <<open, view, beats, observed, loads>> /\ ~active
      BY <1>15, <1>t, <2>2, ViewIsHere DEF CloseWindow, Shown, ViewFollows
    <3>2. BeatsInv'
      BY <1>t, <2>2, <3>1, NoBeatOfNext
    <3>3. /\ open \in BOOLEAN /\ view \in BOOLEAN /\ gen' \in Nat
          /\ ui \in {"idle", "start", "cancel", "finish"}
      BY <1>t, <2>2 DEF DialogTyped
    <3>4. DialogTyped'
      BY <1>t, <2>2, <3>1, <3>3, TypedStays
    <3>5. ViewFollows'
      BY <1>t, <2>2, <3>1 DEF ViewFollows, ViewComes
    <3> QED BY <1>t, <3>1, <3>2, <3>4, <3>5 DEF DialogInv
  <2> QED BY <1>15, <2>1, <2>2 DEF CloseWindow
<1>16. CASE UNCHANGED allVars
  BY <1>16, DialogStutter DEF allVars, dialogVars
<1> QED
  BY <1>1, <1>2, <1>3, <1>5, <1>6, <1>7, <1>8, <1>9, <1>10, <1>11, <1>12, <1>13, <1>14,
     <1>15, <1>16 DEF DialogNext, UiCall

\* A closed dialog has no heartbeat left, and there is never more than one, for
\* any number of captures and signals and whatever order the UI thread, the
\* heartbeats, the listener and the daemon come in (start_capture_heartbeat,
\* stop_capture_heartbeat, apply_view_state).
THEOREM HeartbeatsHaveDialogs == DialogSpec => []HeartbeatHasDialog
<1>1. DialogInv => HeartbeatHasDialog
  BY DEF DialogInv, BeatsInv, HeartbeatHasDialog
<1>2. DialogSpec => []Inv
  BY DialogImplementsCapture, Invariant, PTL
<1> QED BY <1>1, <1>2, DialogInitInv, DialogNextInv, PTL DEF DialogSpec

\* The keyboard is lent as the contract says under every dialog: the window
\* that captures, the other windows and the monitor of their names only make the
\* steps the capture allows.
THEOREM DialogKeepsContract == DialogSpec => LendsTheKeyboard
BY DialogImplementsCapture, CaptureKeepsContract, PTL

=============================================================================
