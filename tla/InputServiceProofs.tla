------------------------- MODULE InputServiceProofs -------------------------
(***************************************************************************)
(* Proofs about InputService: the ledger against the keys that the desktop *)
(* and the service have as down, and the tracked word against the screen.  *)
(*                                                                         *)
(* A key is owed while the desktop has it down or the service waits for    *)
(* its release.  Owed keys are not always down, because their releases may *)
(* wait in the ledger; what is invariant is that the ledger leads from     *)
(* those that are owed to those that are down (Balanced), through every    *)
(* way in which an event can leave it or come in.  With an empty ledger    *)
(* that is NoStuckKey.                                                     *)
(***************************************************************************)
EXTENDS InputService, SequenceTheorems, TLAPS

Event == [key : Keys, value : 0..2, fence : BOOLEAN]

\* Key k is held from place p of the ledger on: place 0 is what was handled.
HeldAt(owed, led, p, k) ==
    IF p = 0 THEN k \in owed ELSE led[p].key = k /\ led[p].value # 0

ReleasedIn(led, a, b, k) == \E j \in a..b : led[j].key = k /\ led[j].value = 0

\* The ledger leads from the keys that are owed to those that are down: what is
\* held anywhere is down or released later, and what is pressed again was
\* released before.
Balanced(owed, led, down) ==
    /\ \A p \in 0..Len(led), k \in Keys :
          HeldAt(owed, led, p, k) => k \in down \/ ReleasedIn(led, p + 1, Len(led), k)
    /\ \A p \in 0..Len(led), q \in 1..Len(led) :
          p < q /\ led[q].value = 1 /\ HeldAt(owed, led, p, led[q].key)
          => ReleasedIn(led, p + 1, q - 1, led[q].key)

Owed == device \cup Debts

Screens == [current : 0..(MaxWord + 1), previous : 0..(MaxWord + 1)]

\* Only one of the two words of the screen is before the cursor, and a word
\* that outgrew the buffer is not in it.
Shape(w, s) ==
    /\ s.current = 0 \/ s.previous = 0
    /\ w.overflowed => w.length = 0 /\ w.previous = 0

Fits(w, s) == w.length <= s.current /\ w.previous <= s.previous

Pendings == {None} \cup [key : Separators, action : profile.corrections,
                         length : 1..MaxWord, authorized : BOOLEAN]

Sessions == [length : 0..MaxWord, invalidated : BOOLEAN, seen : BOOLEAN, retry : BOOLEAN,
             observed : SUBSET (Keys \cap Modifiers), shortcut : {None, "Alt", "Meta"}]

\* What the parts of the handler hand on to each other, with its types: a
\* correction waits for the release of the separator that is suppressed.
Settled ==
    /\ word \in Words /\ screen \in Screens /\ separator \in (Keys \cap Separators) \cup {None}
    /\ pending \in Pendings /\ latched \in BOOLEAN /\ session \in Sessions
    /\ Shape(word, screen)
    /\ pending # None => separator = pending.key

\* The rest of the types.
Loop ==
    /\ profile \in Profiles
    /\ backend \in {"ready", "waiting", "exited"}
    /\ phys \subseteq Keys /\ device \subseteq Keys
    /\ repeating \in phys \cup {None}
    /\ mods \subseteq Keys \cap Modifiers
    /\ hotkey \in {None, profile.selected.key} /\ selected \in BOOLEAN
    /\ undo \subseteq {ManualKey}
    /\ flow \in {"Idle", "InFlight", "CancelRequested", "DrainingDeferredInput"}
    /\ barrier \in {"none", "armed", "over", "stuck"}
    /\ ledger \in Seq(Event) /\ Len(ledger) <= HardLimit
    /\ reported \in BOOLEAN

\* A capture that began outside a flow is over when one begins.
CaptureInv ==
    /\ count.captures = 0 => cap.suppressed = {} /\ ~Capture!IsActive(cap) /\ ~count.overtaken
    /\ FlowActive /\ Capture!IsActive(cap) => count.overtaken

LedgerInv ==
    /\ ~FlowActive => ledger = <<>>
    /\ \A i \in 1..Len(ledger) : ledger[i].key # ManualKey

\* A key is owed to one hotkey.
HotkeyInv == hotkey \in Keys => hotkey \notin undo

\* The next event of k to be processed is a repeat.
NextRepeats(k) ==
    IF ledger = <<>> THEN repeating = k ELSE ledger[1].key = k /\ ledger[1].value = 2

\* A separator that is held on the desktop has ended its word.
RepeatInv ==
    /\ ledger # <<>> /\ repeating \in Keys \cap Separators =>
          ledger[Len(ledger)].key = repeating /\ ledger[Len(ledger)].value # 0
    /\ \A i \in 2..Len(ledger) :
          ledger[i].value = 2 /\ ledger[i].key \in Separators =>
              ledger[i - 1].key = ledger[i].key /\ ledger[i - 1].value # 0
    /\ \A k \in Separators \cap device :
          NextRepeats(k) => word.length = 0 /\ flow \notin {"InFlight", "CancelRequested"}

DebtInv ==
    /\ Debts \cap device = {}
    /\ cap.suppressed \cap ({hotkey, separator} \cup undo) = {}
    /\ \A i \in 1..Len(ledger) : ledger[i].key \notin cap.suppressed
    /\ FlowActive => ManualKey \notin device

KeyInv ==
    ~count.overtaken /\ ~count.early =>
        Balanced(Owed, ledger, phys) /\ DebtInv /\ RepeatInv

WordInv ==
    /\ count.captures = 0 => device \cap Modifiers \subseteq mods
    /\ count.captures = 0 /\ ~count.missed =>
          /\ Fits(word, screen)
          /\ flow \in {"InFlight", "CancelRequested"} /\ ~session.invalidated =>
                session.length <= screen.current

CapOK ==
    cap \in [phase : Capture!Phases, pressed : SUBSET Capture!CaptureKeys, suppressed : SUBSET Keys,
             lease : {None} \cup [owner : {"settings"}, soft : Int, absolute : Int]]

Counts == [events : Nat, invalidations : Nat, captures : Nat, failures : Nat,
           overtaken : BOOLEAN, early : BOOLEAN, missed : BOOLEAN]

Inv ==
    /\ Loop /\ Settled /\ CapOK /\ count \in Counts
    /\ CaptureInv /\ LedgerInv /\ HotkeyInv /\ KeyInv /\ WordInv

LEMMA InvType ==
    ASSUME Inv
    PROVE  TypeOK
<1>1. Loop /\ Settled
  BY DEF Inv
<1>. QED  BY <1>1 DEF Loop, Settled, TypeOK, Screens, Sessions, Pendings, Event

-----------------------------------------------------------------------------
\* The ledger.

LEMMA EventFields ==
    ASSUME NEW led \in Seq(Event), NEW i \in 1..Len(led)
    PROVE  led[i].key \in Keys /\ led[i].value \in 0..2 /\ led[i].fence \in BOOLEAN
<1>1. led[i] \in Event
  OBVIOUS
<1>. QED  BY <1>1 DEF Event

LEMMA BalancedWhenEmpty ==
    ASSUME NEW owed \in SUBSET Keys, NEW down
    PROVE  Balanced(owed, <<>>, down) <=> owed \subseteq down
<1>1. Len(<<>>) = 0
  OBVIOUS
<1>. QED  BY <1>1 DEF Balanced, HeldAt, ReleasedIn

\* An event is appended that the keyboard can deliver.
LEMMA BalancedAppend ==
    ASSUME NEW owed \in SUBSET Keys, NEW led \in Seq(Event), NEW down \in SUBSET Keys,
           NEW e \in Event, Balanced(owed, led, down), e.value = 1 => e.key \notin down,
           e.value = 2 => e.key \in down
    PROVE  Balanced(owed, Append(led, e), Down(down, e.key, e.value))
<1>. DEFINE n == Len(led)
            more == Append(led, e)
            after == Down(down, e.key, e.value)
<1>1. /\ n \in Nat /\ Len(more) = n + 1 /\ more[n + 1] = e
      /\ \A i \in 1..n : more[i] = led[i]
  OBVIOUS
<1>2. \A a, b \in 0..(n + 1), k \in Keys :
        b <= n /\ ReleasedIn(led, a, b, k) /\ a >= 1 => ReleasedIn(more, a, b, k)
  BY <1>1 DEF ReleasedIn
<1>3. \A p \in 0..n, k \in Keys : HeldAt(owed, more, p, k) <=> HeldAt(owed, led, p, k)
  BY <1>1 DEF HeldAt
<1>4. e.key \in Keys /\ e.value \in 0..2
  BY DEF Event
<1>5. ASSUME NEW p \in 0..(n + 1), NEW k \in Keys, HeldAt(owed, more, p, k)
      PROVE  k \in after \/ ReleasedIn(more, p + 1, n + 1, k)
  <2>1. CASE p = n + 1
    <3>1. k = e.key /\ e.value # 0
      BY <2>1, <1>1, <1>5 DEF HeldAt
    <3>. QED  BY <3>1, <1>4 DEF Down
  <2>2. CASE p # n + 1
    <3>1. k \in down \/ ReleasedIn(led, p + 1, n, k)
      BY <2>2, <1>1, <1>3, <1>5 DEF Balanced
    <3>2. CASE ReleasedIn(led, p + 1, n, k)
      BY <3>2, <1>1 DEF ReleasedIn
    <3>3. CASE k \in down /\ ~(e.key = k /\ e.value = 0)
      BY <3>3, <1>4 DEF Down
    <3>4. CASE e.key = k /\ e.value = 0
      BY <3>4, <2>2, <1>1 DEF ReleasedIn
    <3>. QED  BY <3>1, <3>2, <3>3, <3>4
  <2>. QED  BY <2>1, <2>2
<1>6. ASSUME NEW p \in 0..(n + 1), NEW q \in 1..(n + 1), p < q, more[q].value = 1,
             HeldAt(owed, more, p, more[q].key)
      PROVE  ReleasedIn(more, p + 1, q - 1, more[q].key)
  <2>1. CASE q = n + 1
    <3>1. e.value = 1 /\ e.key \notin down /\ HeldAt(owed, led, p, e.key)
      BY <2>1, <1>1, <1>3, <1>4, <1>6
    <3>2. ReleasedIn(led, p + 1, n, e.key)
      BY <3>1, <2>1, <1>1, <1>4, <1>6 DEF Balanced
    <3>. QED  BY <3>2, <2>1, <1>1 DEF ReleasedIn
  <2>2. CASE q # n + 1
    <3>1. q \in 1..n /\ p \in 0..n /\ more[q] = led[q] /\ led[q].key \in Keys
      BY <2>2, <1>1, <1>6, EventFields
    <3>2. ReleasedIn(led, p + 1, q - 1, led[q].key)
      BY <3>1, <1>1, <1>3, <1>6 DEF Balanced
    <3>. QED  BY <3>1, <3>2, <1>1 DEF ReleasedIn
  <2>. QED  BY <2>1, <2>2
<1>. QED  BY <1>1, <1>5, <1>6 DEF Balanced

\* The head has been handled, and what is owed afterwards follows from it.
LEMMA BalancedTail ==
    ASSUME NEW owed \in SUBSET Keys, NEW led \in Seq(Event), NEW down \in SUBSET Keys,
           NEW after \in SUBSET Keys, Balanced(owed, led, down), led # <<>>,
           after \subseteq owed \cup {led[1].key}, led[1].value = 0 => led[1].key \notin after
    PROVE  Balanced(after, Tail(led), down)
<1>. DEFINE n == Len(led)
            less == Tail(led)
<1>1. /\ n \in Nat \ {0} /\ Len(less) = n - 1
      /\ \A i \in 1..(n - 1) : less[i] = led[i + 1]
  OBVIOUS
<1>2. led[1].key \in Keys /\ led[1].value \in 0..2
  BY <1>1, EventFields
\* What is held in the new ledger was held in the old one.
<1>3. ASSUME NEW p \in 0..(n - 1), NEW k \in Keys, HeldAt(after, less, p, k)
      PROVE  HeldAt(owed, led, p + 1, k) \/ (p = 0 /\ k \in owed /\ ~(led[1].key = k /\ led[1].value = 0))
  BY <1>1, <1>2, <1>3 DEF HeldAt
<1>4. ASSUME NEW p \in 0..(n - 1), NEW k \in Keys, HeldAt(after, less, p, k)
      PROVE  k \in down \/ ReleasedIn(less, p + 1, n - 1, k)
  <2>1. CASE HeldAt(owed, led, p + 1, k)
    <3>1. k \in down \/ ReleasedIn(led, p + 2, n, k)
      BY <2>1, <1>1 DEF Balanced
    <3>2. ASSUME ReleasedIn(led, p + 2, n, k) PROVE ReleasedIn(less, p + 1, n - 1, k)
      <4>1. PICK j \in (p + 2)..n : led[j].key = k /\ led[j].value = 0
        BY <3>2 DEF ReleasedIn
      <4>2. j - 1 \in (p + 1)..(n - 1) /\ less[j - 1] = led[j]
        BY <4>1, <1>1
      <4>. QED  BY <4>1, <4>2 DEF ReleasedIn
    <3>. QED  BY <3>1, <3>2
  <2>2. CASE p = 0 /\ k \in owed /\ ~(led[1].key = k /\ led[1].value = 0)
    <3>1. HeldAt(owed, led, 0, k)
      BY <2>2 DEF HeldAt
    <3>2. k \in down \/ ReleasedIn(led, 1, n, k)
      BY <3>1, <1>1 DEF Balanced
    <3>3. ASSUME ReleasedIn(led, 1, n, k) PROVE ReleasedIn(less, p + 1, n - 1, k)
      <4>1. PICK j \in 1..n : led[j].key = k /\ led[j].value = 0
        BY <3>3 DEF ReleasedIn
      <4>2. j # 1
        BY <4>1, <2>2
      <4>3. j - 1 \in (p + 1)..(n - 1) /\ less[j - 1] = led[j]
        BY <4>1, <4>2, <2>2, <1>1
      <4>. QED  BY <4>1, <4>3 DEF ReleasedIn
    <3>. QED  BY <3>2, <3>3
  <2>. QED  BY <1>3, <1>4, <2>1, <2>2
<1>5. ASSUME NEW p \in 0..(n - 1), NEW q \in 1..(n - 1), p < q, less[q].value = 1,
             HeldAt(after, less, p, less[q].key)
      PROVE  ReleasedIn(less, p + 1, q - 1, less[q].key)
  <2>. DEFINE k == less[q].key
  <2>1. k \in Keys /\ less[q] = led[q + 1] /\ q + 1 \in 1..n
    BY <1>1, EventFields
  <2>2. CASE HeldAt(owed, led, p + 1, k)
    <3>1. ReleasedIn(led, p + 2, q, k)
      BY <2>1, <2>2, <1>1, <1>5 DEF Balanced
    <3>2. PICK j \in (p + 2)..q : led[j].key = k /\ led[j].value = 0
      BY <3>1 DEF ReleasedIn
    <3>3. j - 1 \in (p + 1)..(q - 1) /\ less[j - 1] = led[j]
      BY <3>2, <1>1
    <3>. QED  BY <3>2, <3>3 DEF ReleasedIn
  <2>3. CASE p = 0 /\ k \in owed /\ ~(led[1].key = k /\ led[1].value = 0)
    <3>1. HeldAt(owed, led, 0, k)
      BY <2>3 DEF HeldAt
    <3>2. ReleasedIn(led, 1, q, k)
      BY <3>1, <2>1, <1>1, <1>5 DEF Balanced
    <3>3. PICK j \in 1..q : led[j].key = k /\ led[j].value = 0
      BY <3>2 DEF ReleasedIn
    <3>4. j # 1
      BY <3>3, <2>3
    <3>5. j - 1 \in (p + 1)..(q - 1) /\ less[j - 1] = led[j]
      BY <3>3, <3>4, <2>3, <1>1
    <3>. QED  BY <3>3, <3>5 DEF ReleasedIn
  <2>. QED  BY <1>3, <1>5, <2>1, <2>2, <2>3
<1>. QED  BY <1>1, <1>4, <1>5 DEF Balanced

\* A press at the head is of a key that nobody owes.
LEMMA HeadPressIsNew ==
    ASSUME NEW owed \in SUBSET Keys, NEW led \in Seq(Event), NEW down, led # <<>>,
           Balanced(owed, led, down), led[1].value = 1
    PROVE  led[1].key \notin owed
<1>1. Len(led) \in Nat \ {0} /\ led[1].key \in Keys
  BY EventFields
<1>2. 0 \in 0..Len(led) /\ 1 \in 1..Len(led) /\ ~ReleasedIn(led, 0 + 1, 1 - 1, led[1].key)
  BY <1>1 DEF ReleasedIn
<1>. QED  BY <1>1, <1>2 DEF Balanced, HeldAt

\* A key that has no event in the ledger leaves, or comes.
LEMMA BalancedBeside ==
    ASSUME NEW owed \in SUBSET Keys, NEW led \in Seq(Event), NEW down \in SUBSET Keys,
           NEW after \in SUBSET Keys, NEW now \in SUBSET Keys, NEW k \in Keys,
           Balanced(owed, led, down), \A i \in 1..Len(led) : led[i].key # k,
           after \subseteq owed \cup {k}, k \in after => k \in now, down \subseteq now \cup {k}
    PROVE  Balanced(after, led, now)
<1>1. \A p \in 0..Len(led), x \in Keys :
        HeldAt(after, led, p, x) => (HeldAt(owed, led, p, x) /\ x # k) \/ (p = 0 /\ x = k /\ k \in after)
  BY DEF HeldAt
<1>. QED  BY <1>1, EventFields DEF Balanced

\* Nothing is owed any more that was not.
LEMMA BalancedLess ==
    ASSUME NEW owed \in SUBSET Keys, NEW led \in Seq(Event), NEW down \in SUBSET Keys,
           NEW after \in SUBSET Keys, Balanced(owed, led, down), after \subseteq owed
    PROVE  Balanced(after, led, down)
<1>1. \A p \in 0..Len(led), x \in Keys : HeldAt(after, led, p, x) => HeldAt(owed, led, p, x)
  BY DEF HeldAt
<1>. QED  BY <1>1, EventFields DEF Balanced

\* What is owed and not down has its release in the ledger.
LEMMA OwedIsDown ==
    ASSUME NEW owed \in SUBSET Keys, NEW led \in Seq(Event), NEW down, NEW k \in owed,
           Balanced(owed, led, down), \A i \in 1..Len(led) : led[i].key # k
    PROVE  k \in down
<1>1. Len(led) \in Nat /\ 0 \in 0..Len(led)
  OBVIOUS
<1>. QED  BY <1>1 DEF Balanced, HeldAt, ReleasedIn

-----------------------------------------------------------------------------
\* The capture session.

Leases == {None} \cup [owner : {"settings"}, soft : Int, absolute : Int]

LEMMA CapFields ==
    ASSUME CapOK
    PROVE  /\ cap.phase \in Capture!Phases /\ cap.pressed \in SUBSET Capture!CaptureKeys
           /\ cap.suppressed \in SUBSET Keys /\ cap.lease \in Leases
           /\ cap = [phase |-> cap.phase, pressed |-> cap.pressed,
                     suppressed |-> cap.suppressed, lease |-> cap.lease]
BY DEF CapOK, Leases

LEMMA CapEnd ==
    ASSUME CapOK, NEW phase \in {"Cancelled", "Finished"}, cap' = Capture!End(cap, phase)
    PROVE  CapOK' /\ cap'.suppressed = cap.suppressed /\ ~Capture!IsActive(cap)'
BY DEF CapOK, Capture!End, Capture!IsActive, Capture!Phases

LEMMA CapReset ==
    ASSUME CapOK, cap' = Capture!EpochReset(cap)
    PROVE  CapOK' /\ cap'.suppressed = {} /\ ~Capture!IsActive(cap)'
BY DEF CapOK, Capture!EpochReset, Capture!End, Capture!IsActive, Capture!Phases

LEMMA CapStart ==
    ASSUME CapOK, cap' = Capture!Started(cap, Capture!Lease("settings"))
    PROVE  CapOK' /\ cap'.suppressed = cap.suppressed
<1>. DEFINE lease == Capture!Lease("settings")
<1>1. lease \in [owner : {"settings"}, soft : Int, absolute : Int]
  BY DEF Capture!Lease
<1>2. cap' = [cap EXCEPT !.phase = "Waiting", !.pressed = {}, !.lease = lease]
  BY DEF Capture!Started
<1>. HIDE DEF lease
<1>. QED  BY <1>1, <1>2 DEF CapOK, Capture!Phases

\* Where an event goes, and what becomes of the debts of the capture.
LEMMA CapRoute ==
    ASSUME CapOK, NEW k \in Keys, NEW v \in 0..2, CaptureTakes(k, v),
           cap' = Capture!Route(cap, k, v).session
    PROVE  LET to == Capture!Route(cap, k, v).to IN
           /\ CapOK'
           /\ Capture!IsActive(cap)' => Capture!IsActive(cap)
           /\ \/ /\ k \in cap.suppressed /\ to = "Suppress"
                 /\ cap'.suppressed = IF v = 0 THEN cap.suppressed \ {k} ELSE cap.suppressed
              \/ /\ k \notin cap.suppressed /\ v # 1 /\ Capture!IsActive(cap)
                 /\ to = "ForwardDirect" /\ cap' = cap
              \/ /\ k \notin cap.suppressed /\ v = 1 /\ Capture!IsActive(cap)
                 /\ \/ to = "Suppress" /\ cap'.suppressed = cap.suppressed \cup {k}
                    \/ /\ to = "ForwardDirect" /\ cap'.suppressed = cap.suppressed
                       /\ ~Capture!IsActive(cap)'
<1>. DEFINE to == Capture!Route(cap, k, v).to
<1>1. CASE k \in cap.suppressed
  <2>1. /\ to = "Suppress"
        /\ cap' = IF v = 0
                  THEN [cap EXCEPT !.suppressed = @ \ {k}, !.pressed = @ \ {Capture!CaptureKey(k)}]
                  ELSE cap
    BY <1>1 DEF Capture!Route, Capture!Suppress
  <2>2. CapOK' /\ cap'.phase = cap.phase
        /\ cap'.suppressed = IF v = 0 THEN cap.suppressed \ {k} ELSE cap.suppressed
    BY <2>1 DEF CapOK
  <2>. QED  BY <1>1, <2>1, <2>2 DEF Capture!IsActive
<1>2. CASE k \notin cap.suppressed /\ ~Capture!IsActive(cap)
  <2>1. to = "PassThrough"
    BY <1>2 DEF Capture!Route, Capture!Through
  <2>. QED  BY <2>1 DEF CaptureTakes
<1>3. CASE k \notin cap.suppressed /\ Capture!IsActive(cap) /\ v # 1
  <2>1. to = "ForwardDirect" /\ cap' = cap
    BY <1>3 DEF Capture!Route, Capture!Direct
  <2>. QED  BY <1>3, <2>1 DEF CapOK
<1>4. CASE k \notin cap.suppressed /\ Capture!IsActive(cap) /\ v = 1
  <2>. DEFINE P == cap.pressed \cup {Capture!CaptureKey(k)}
              debt == [cap EXCEPT !.suppressed = @ \cup {k}]
  <2>. debt \in [phase : Capture!Phases, pressed : SUBSET Capture!CaptureKeys,
                 suppressed : SUBSET Keys, lease : Leases]
       /\ debt.suppressed = cap.suppressed \cup {k}
    BY DEF CapOK, Leases
  <2>1. Capture!Route(cap, k, v) = Capture!RoutePress(cap, k)
    BY <1>4 DEF Capture!Route
  <2>2. CASE k = "Esc"
    <3>1. to = "Suppress" /\ cap' = Capture!End(debt, "Cancelled")
      BY <2>1, <2>2 DEF Capture!RoutePress, Capture!Suppress
    <3>. HIDE DEF debt
    <3>2. /\ CapOK' /\ cap'.suppressed = cap.suppressed \cup {k} /\ ~Capture!IsActive(cap)'
      BY <3>1 DEF CapOK, Leases, Capture!End, Capture!IsActive, Capture!Phases
    <3>. QED  BY <1>4, <3>1, <3>2
  <2>3. CASE k # "Esc" /\ (Capture!CaptureKey(k) \notin Capture!CaptureKeys
                           \/ Capture!Evaluate(P) = "Unsupported")
    <3>1. /\ to = "ForwardDirect"
          /\ cap' = Capture!ReplaceState([cap EXCEPT !.pressed = {}], "Unsupported")
      BY <2>1, <2>3 DEF Capture!RoutePress, Capture!Direct
    <3>2. CapOK' /\ cap'.suppressed = cap.suppressed /\ ~Capture!IsActive(cap)'
      BY <3>1 DEF CapOK, Capture!ReplaceState, Capture!IsActive, Capture!Phases
    <3>. QED  BY <1>4, <3>1, <3>2
  <2>4. CASE k # "Esc" /\ Capture!CaptureKey(k) \in Capture!CaptureKeys
             /\ Capture!Evaluate(P) # "Unsupported"
    <3>1. /\ to = "Suppress"
          /\ cap' = Capture!ReplaceState([debt EXCEPT !.pressed = P], Capture!Evaluate(P))
      BY <2>1, <2>4 DEF Capture!RoutePress, Capture!Suppress
    <3>2. Capture!Evaluate(P) \in Capture!Phases
      BY DEF Capture!Evaluate, Capture!Phases
    <3>3. P \in SUBSET Capture!CaptureKeys
      BY <2>4 DEF CapOK
    <3>. DEFINE phase == Capture!Evaluate(P)
    <3>. HIDE DEF P, debt, phase
    <3>4. cap' = [[debt EXCEPT !.pressed = P] EXCEPT
                     !.phase = phase,
                     !.lease = IF phase \in {"Waiting", "Candidate"} THEN @ ELSE None]
      BY <3>1 DEF Capture!ReplaceState, phase
    <3>5. CapOK' /\ cap'.suppressed = cap.suppressed \cup {k}
      BY <3>4, <3>2, <3>3 DEF CapOK, Leases, phase
    <3>. QED  BY <1>4, <3>1, <3>5
  <2>. QED  BY <2>2, <2>3, <2>4
<1>. QED  BY <1>1, <1>2, <1>3, <1>4

-----------------------------------------------------------------------------
\* The tracked word and the text before the cursor.

Plain(m) == m \cap (Ctrl \cup Alt \cup Meta) = {}

LEMMA BoundIsNat == MaxWord \in Nat
BY InputAssumption

LEMMA WordIntro ==
    ASSUME NEW n \in 0..MaxWord, NEW p \in 0..MaxWord, NEW c \in BOOLEAN, NEW o \in BOOLEAN
    PROVE  [length |-> n, previous |-> p, corrected |-> c, overflowed |-> o] \in Words
BY DEF Words

LEMMA NoWordFits ==
    ASSUME NEW s \in Screens
    PROVE  NoWord \in Words /\ NoText \in Screens /\ Fits(NoWord, s)
           /\ (s.current = 0 \/ s.previous = 0 => Shape(NoWord, s))
           /\ Shape(NoWord, NoText)
BY BoundIsNat DEF NoWord, NoText, Words, Screens, Fits, Shape

LEMMA ShownIsScreen ==
    ASSUME NEW s \in Screens, s.current = 0 \/ s.previous = 0, NEW m, NEW k
    PROVE  /\ Shown(s, m, k) \in Screens
           /\ Shown(s, m, k).current = 0 \/ Shown(s, m, k).previous = 0
<1>1. NoText \in Screens /\ NoText.current = 0 /\ NoText.previous = 0
  BY BoundIsNat DEF NoText, Screens
<1>2. AfterSeparator(s, k) \in Screens /\ AfterSeparator(s, k).current = 0
  BY BoundIsNat DEF AfterSeparator, NoText, Screens
<1>3. /\ AfterBackspace(s) \in Screens
      /\ AfterBackspace(s).current = 0 \/ AfterBackspace(s).previous = 0
  BY BoundIsNat DEF AfterBackspace, NoText, Screens
<1>4. [current |-> IF s.current <= MaxWord THEN s.current + 1 ELSE s.current, previous |-> 0]
        \in Screens
  BY BoundIsNat DEF Screens
<1>. QED  BY <1>1, <1>2, <1>3, <1>4 DEF Shown

\* What a key does to the word and to the screen when no modifier but Shift and
\* CapsLock is down on the desktop.
LEMMA CharacterFits ==
    ASSUME NEW w \in Words, NEW s \in Screens, Shape(w, s), NEW m, NEW k \in Characters, Plain(m)
    PROVE  Fits(w, s) => Fits(TypeCharacter(w), Shown(s, m, k))
<1>1. k \notin Modifiers /\ k \notin Separators /\ k # "Backspace"
  BY DEF Characters
<1>2. Shown(s, m, k) = [current |-> IF s.current <= MaxWord THEN s.current + 1 ELSE s.current,
                        previous |-> 0]
  BY <1>1 DEF Shown, Plain
<1>. QED  BY <1>2, BoundIsNat DEF TypeCharacter, NoWord, Words, Screens, Fits, Shape

LEMMA TypeCharacterIsWord ==
    ASSUME NEW w \in Words
    PROVE  /\ TypeCharacter(w) \in Words
           /\ TypeCharacter(w).overflowed
                => TypeCharacter(w).length = 0 /\ TypeCharacter(w).previous = 0
<1>1. CASE w.overflowed \/ w.length >= MaxWord
  <2>1. TypeCharacter(w)
          = [length |-> 0, previous |-> 0, corrected |-> FALSE, overflowed |-> TRUE]
    BY <1>1 DEF TypeCharacter, NoWord
  <2>. QED  BY <2>1, BoundIsNat DEF Words
<1>2. CASE ~(w.overflowed \/ w.length >= MaxWord)
  <2>1. TypeCharacter(w) = [w EXCEPT !.length = @ + 1, !.previous = 0]
    BY <1>2 DEF TypeCharacter
  <2>2. w.length + 1 \in 0..MaxWord /\ 0 \in 0..MaxWord
    BY <1>2, BoundIsNat DEF Words
  <2>. QED  BY <1>2, <2>1, <2>2 DEF Words
<1>. QED  BY <1>1, <1>2

LEMMA EraseCharacterIsWord ==
    ASSUME NEW w \in Words, w.overflowed => w.length = 0 /\ w.previous = 0
    PROVE  /\ EraseCharacter(w) \in Words
           /\ EraseCharacter(w).overflowed
                => EraseCharacter(w).length = 0 /\ EraseCharacter(w).previous = 0
<1>1. CASE w.overflowed
  BY <1>1 DEF EraseCharacter, Words
<1>2. CASE ~w.overflowed /\ w.length > 0
  <2>1. EraseCharacter(w) = [w EXCEPT !.corrected = FALSE, !.length = @ - 1]
    BY <1>2 DEF EraseCharacter
  <2>2. w.length - 1 \in 0..MaxWord
    BY <1>2, BoundIsNat DEF Words
  <2>. QED  BY <1>2, <2>1, <2>2 DEF Words
<1>3. CASE ~w.overflowed /\ ~(w.length > 0)
  <2>1. EraseCharacter(w)
          = [w EXCEPT !.corrected = FALSE, !.length = w.previous, !.previous = 0]
    BY <1>3 DEF EraseCharacter
  <2>2. w.previous \in 0..MaxWord /\ 0 \in 0..MaxWord
    BY BoundIsNat DEF Words
  <2>. QED  BY <1>3, <2>1, <2>2 DEF Words
<1>. QED  BY <1>1, <1>2, <1>3

LEMMA BackspaceFits ==
    ASSUME NEW w \in Words, NEW s \in Screens, Shape(w, s), NEW m, Plain(m)
    PROVE  Fits(w, s) => Fits(EraseCharacter(w), Shown(s, m, "Backspace"))
<1>1. Shown(s, m, "Backspace") = AfterBackspace(s)
  BY DEF Shown, Plain, Modifiers, Ctrl, Alt, Meta, Shift, Separators, Characters
<1>2. AfterBackspace(s) = IF s.current > 0 THEN [current |-> s.current - 1, previous |-> s.previous]
                          ELSE [current |-> s.previous, previous |-> 0]
  BY DEF AfterBackspace, NoText, Screens
<1>3. EraseCharacter(w).length = (IF w.overflowed THEN w.length
                                  ELSE IF w.length > 0 THEN w.length - 1 ELSE w.previous)
  BY BoundIsNat DEF EraseCharacter, Words
<1>4. EraseCharacter(w).previous = (IF w.overflowed \/ w.length > 0 THEN w.previous ELSE 0)
  BY BoundIsNat DEF EraseCharacter, Words
<1>. QED  BY <1>1, <1>2, <1>3, <1>4, BoundIsNat DEF Fits, Shape, Words, Screens

LEMMA BoundaryFits ==
    ASSUME NEW w \in Words, NEW s \in Screens, Shape(w, s), NEW m, NEW k \in Separators
    PROVE  /\ BoundaryWord(w, k) \in Words /\ BoundaryWord(w, k).length = 0
           /\ ~BoundaryWord(w, k).overflowed
           /\ Fits(w, s) /\ (k = "Space" => Plain(m)) => Fits(BoundaryWord(w, k), Shown(s, m, k))
<1>1. CASE k = "Space" /\ ~w.overflowed
  <2>1. BoundaryWord(w, k)
          = [length |-> 0, previous |-> w.length, corrected |-> FALSE, overflowed |-> FALSE]
    BY <1>1 DEF BoundaryWord, Committed, Words
  <2>2. Plain(m) => Shown(s, m, k) = [current |-> 0, previous |-> s.current]
    BY <1>1 DEF Shown, Plain, Modifiers, Ctrl, Alt, Meta, Shift, Separators, Characters,
                AfterSeparator, NoText
  <2>3. BoundaryWord(w, k) \in Words
    BY <2>1, BoundIsNat DEF Words
  <2>. QED  BY <1>1, <2>1, <2>2, <2>3, BoundIsNat DEF Fits, Words, Screens
<1>2. CASE ~(k = "Space" /\ ~w.overflowed)
  <2>1. BoundaryWord(w, k) = NoWord
    BY <1>2 DEF BoundaryWord
  <2>2. Shown(s, m, k) \in Screens
    BY ShownIsScreen DEF Shape
  <2>. QED  BY <2>1, <2>2, NoWordFits DEF NoWord
<1>. QED  BY <1>1, <1>2

LEMMA CommitFits ==
    ASSUME NEW w \in Words, NEW s \in Screens, NEW n \in 0..MaxWord, NEW k \in Separators
    PROVE  /\ CommitWord(w, k, n) \in Words /\ CommitWord(w, k, n).length = 0
           /\ AfterSeparator(s, k) \in Screens
           /\ Shape(CommitWord(w, k, n), AfterSeparator(s, k))
           /\ n <= s.current => Fits(CommitWord(w, k, n), AfterSeparator(s, k))
<1>1. CASE k = "Space"
  <2>1. CommitWord(w, k, n)
          = [length |-> 0, previous |-> n, corrected |-> w.corrected, overflowed |-> FALSE]
    BY <1>1 DEF CommitWord, Committed, Words
  <2>2. AfterSeparator(s, k) = [current |-> 0, previous |-> s.current]
    BY <1>1 DEF AfterSeparator, NoText
  <2>. QED  BY <2>1, <2>2, BoundIsNat DEF Fits, Shape, Words, Screens
<1>2. CASE k # "Space"
  <2>1. CommitWord(w, k, n) = NoWord
    BY <1>2 DEF CommitWord
  <2>2. AfterSeparator(s, k) = [current |-> 0, previous |-> 0]
    BY <1>2 DEF AfterSeparator, NoText
  <2>. QED  BY <2>1, <2>2, BoundIsNat DEF NoWord, Fits, Shape, Words, Screens
<1>. QED  BY <1>1, <1>2

LEMMA RetypedFits ==
    ASSUME NEW s \in Screens, NEW n \in 0..MaxWord
    PROVE  Retyped(s, n) \in Screens /\ n <= Retyped(s, n).current
<1>1. n \in 0..(MaxWord + 1)
  BY BoundIsNat
<1>. QED  BY <1>1, BoundIsNat DEF Retyped, Screens

-----------------------------------------------------------------------------
\* What the parts of the handler hand on to each other.

States == [word : Words, screen : Screens, separator : (Keys \cap Separators) \cup {None},
           pending : Pendings, latched : BOOLEAN, session : Sessions]

\* A correction waits for the release of the separator that is suppressed.
Waits(x) == x.pending # None => x.separator = x.pending.key

\* x is what an event has made of the current state so far.
Handed(x) ==
    /\ x \in States /\ Shape(x.word, x.screen) /\ Waits(x)
    /\ x.separator = separator
    /\ x.word.length \in {0, word.length}
    /\ Fits(word, screen) => Fits(x.word, x.screen)

LEMMA HandedFields ==
    ASSUME NEW x \in States
    PROVE  /\ x.word \in Words /\ x.screen \in Screens /\ x.pending \in Pendings
           /\ x.separator \in (Keys \cap Separators) \cup {None}
           /\ x.latched \in BOOLEAN /\ x.session \in Sessions
BY DEF States

LEMMA StateIntro ==
    ASSUME NEW w \in Words, NEW s \in Screens, NEW d \in (Keys \cap Separators) \cup {None},
           NEW p \in Pendings, NEW l \in BOOLEAN, NEW n \in Sessions
    PROVE  [word |-> w, screen |-> s, separator |-> d, pending |-> p, latched |-> l,
            session |-> n] \in States
BY DEF States

LEMMA CurrentIsHanded ==
    ASSUME TypeOK, Settled
    PROVE  Handed(Current)
<1>1. Current = [word |-> word, screen |-> screen, separator |-> separator,
                 pending |-> pending, latched |-> latched, session |-> session]
  BY DEF Current
<1>2. /\ word \in Words /\ screen \in Screens /\ pending \in Pendings /\ session \in Sessions
      /\ separator \in (Keys \cap Separators) \cup {None} /\ latched \in BOOLEAN
  BY DEF TypeOK, Screens, Pendings, Sessions
<1>3. Current \in States
  BY <1>1, <1>2, StateIntro
<1>4. Shape(word, screen) /\ (pending # None => separator = pending.key)
  BY DEF Settled
<1>. QED  BY <1>1, <1>3, <1>4 DEF Handed, Waits

\* The word is committed with its separator.
LEMMA FinishedFits ==
    ASSUME NEW x \in States, x.pending # None, NEW y \in Finished(x)
    PROVE  /\ y \in States /\ y.separator = x.separator /\ y.pending = None
           /\ y.word.length = 0 /\ Shape(y.word, y.screen)
           /\ Fits(x.word, x.screen) => Fits(y.word, y.screen)
<1>. DEFINE p == x.pending
            Typing(n, s) == [x EXCEPT !.word = CommitWord(@, p.key, n), !.pending = None,
                                      !.screen = AfterSeparator(s, p.key)]
            nw(n) == CommitWord(x.word, p.key, n)
            ns(s) == AfterSeparator(s, p.key)
<1>1. /\ x.word \in Words /\ x.screen \in Screens /\ p.key \in Separators
      /\ p.length \in 0..MaxWord /\ x.word.length \in 0..MaxWord
      /\ x.separator \in (Keys \cap Separators) \cup {None}
      /\ x.latched \in BOOLEAN /\ x.session \in Sessions
  BY HandedFields, BoundIsNat DEF Pendings, Words
<1>2. ASSUME NEW n \in 0..MaxWord, NEW s \in Screens,
             Fits(x.word, x.screen) => n <= s.current, y = Typing(n, s)
      PROVE  /\ y \in States /\ y.separator = x.separator /\ y.pending = None
             /\ y.word.length = 0 /\ Shape(y.word, y.screen)
             /\ Fits(x.word, x.screen) => Fits(y.word, y.screen)
  <2>1. /\ nw(n) \in Words /\ nw(n).length = 0 /\ ns(s) \in Screens /\ Shape(nw(n), ns(s))
        /\ n <= s.current => Fits(nw(n), ns(s))
    BY <1>1, CommitFits
  <2>2. y = [word |-> nw(n), screen |-> ns(s), separator |-> x.separator, pending |-> None,
             latched |-> x.latched, session |-> x.session]
    BY <1>2 DEF States
  <2>3. None \in Pendings
    BY DEF Pendings
  <2>. HIDE DEF nw, ns, Typing
  <2>4. y \in States
    BY <1>1, <2>1, <2>2, <2>3, StateIntro
  <2>. QED  BY <1>2, <2>1, <2>2, <2>4
<1>3. \/ y = Typing(x.word.length, x.screen)
      \/ y = Typing(p.length, Retyped(x.screen, p.length))
  BY DEF Finished
<1>. HIDE DEF Typing
<1>4. CASE y = Typing(x.word.length, x.screen)
  <2>1. Fits(x.word, x.screen) => x.word.length <= x.screen.current
    BY DEF Fits
  <2>. QED  BY <1>1, <1>2, <1>4, <2>1
<1>5. CASE y = Typing(p.length, Retyped(x.screen, p.length))
  <2>1. Retyped(x.screen, p.length) \in Screens /\ p.length <= Retyped(x.screen, p.length).current
    BY <1>1, RetypedFits
  <2>. QED  BY <1>1, <1>2, <1>5, <2>1
<1>. QED  BY <1>3, <1>4, <1>5

LEMMA FinishedEarlyIsHanded ==
    ASSUME NEW x, Handed(x), x.pending = pending, Waits(Current), NEW k, NEW v,
           NEW y \in FinishedEarly(x, k, v)
    PROVE  Handed(y)
<1>1. CASE ~EarlyFinish(k, v)
  BY <1>1 DEF FinishedEarly
<1>2. CASE EarlyFinish(k, v)
  <2>1. pending # None /\ separator = pending.key /\ x.separator = separator
    BY <1>2 DEF EarlyFinish, Waits, Current, Handed
  <2>2. [x EXCEPT !.separator = pending.key] = x
    BY <2>1 DEF Handed, States
  <2>3. y \in Finished(x)
    BY <1>2, <2>2 DEF FinishedEarly
  <2>4. /\ y \in States /\ y.separator = x.separator /\ y.pending = None
        /\ y.word.length = 0 /\ Shape(y.word, y.screen)
        /\ Fits(x.word, x.screen) => Fits(y.word, y.screen)
    BY <2>1, <2>3, FinishedFits DEF Handed
  <2>. QED  BY <2>1, <2>4 DEF Handed, Waits
<1>. QED  BY <1>1, <1>2

LEMMA LayoutShortcutIsHanded ==
    ASSUME NEW x, Handed(x)
    PROVE  Handed(LayoutShortcut(x))
<1>. DEFINE p == Unauthorized(x.pending)
<1>1. /\ x.word \in Words /\ x.screen \in Screens /\ x.pending \in Pendings
      /\ x.separator \in (Keys \cap Separators) \cup {None}
      /\ x.latched \in BOOLEAN /\ x.session \in Sessions
  BY HandedFields DEF Handed
<1>2. p \in Pendings /\ (p # None => x.pending # None /\ p.key = x.pending.key)
  BY <1>1 DEF Unauthorized, Pendings
<1>. DEFINE on == TRUE
<1>3. on \in BOOLEAN
  OBVIOUS
<1>4. LayoutShortcut(x) = [x EXCEPT !.word = NoWord, !.latched = on, !.pending = p]
  BY DEF LayoutShortcut
<1>. HIDE DEF on, p
<1>5. LayoutShortcut(x) = [word |-> NoWord, screen |-> x.screen, separator |-> x.separator,
                           pending |-> p, latched |-> on, session |-> x.session]
  BY <1>4 DEF Handed, States
<1>6. /\ NoWord \in Words /\ Fits(NoWord, x.screen) /\ NoWord.length = 0
      /\ Shape(NoWord, x.screen)
  BY <1>1, NoWordFits DEF NoWord, Handed, Shape
<1>7. LayoutShortcut(x) \in States
  BY <1>1, <1>2, <1>3, <1>5, <1>6, StateIntro
<1>. QED  BY <1>2, <1>5, <1>6, <1>7 DEF Handed, Waits

LEMMA BecomesSettled ==
    ASSUME NEW x \in States, Shape(x.word, x.screen), Waits(x), profile' = profile, Becomes(x)
    PROVE  /\ Settled' /\ separator' = x.separator /\ word' = x.word /\ screen' = x.screen
           /\ session' = x.session
<1>1. /\ x.word \in Words /\ x.screen \in Screens /\ x.pending \in Pendings
      /\ x.separator \in (Keys \cap Separators) \cup {None}
      /\ x.latched \in BOOLEAN /\ x.session \in Sessions
  BY HandedFields
<1>2. Pendings' = Pendings
  BY DEF Pendings
<1>. QED  BY <1>1, <1>2 DEF Becomes, Settled, Waits, Shape, Words, Screens, Sessions

LEMMA SwallowDoes ==
    ASSUME NEW x, Handed(x), profile' = profile, Swallow(x)
    PROVE  /\ Settled' /\ device' = device /\ separator' = separator
           /\ word'.length \in {0, word.length} /\ session' = x.session
           /\ Fits(word, screen) => Fits(word', screen')
<1>1. /\ Settled' /\ separator' = x.separator /\ word' = x.word /\ screen' = x.screen
      /\ session' = x.session
  BY BecomesSettled DEF Swallow, Handed
<1>. QED  BY <1>1 DEF Swallow, Handed, Fits

LEMMA ForwardDoes ==
    ASSUME NEW x \in States, Shape(x.word, x.screen), Waits(x), profile' = profile,
           NEW k, NEW v, Forward(x, k, v)
    PROVE  /\ Settled' /\ device' = Down(device, k, v) /\ separator' = x.separator
           /\ word' = x.word
           /\ screen' = IF v = 0 THEN x.screen ELSE Shown(x.screen, device' \cap Modifiers, k)
<1>. DEFINE s == Shown(x.screen, device' \cap Modifiers, k)
<1>1. /\ x.word \in Words /\ x.screen \in Screens /\ x.pending \in Pendings
      /\ x.separator \in (Keys \cap Separators) \cup {None}
      /\ x.latched \in BOOLEAN /\ x.session \in Sessions
  BY HandedFields
<1>2. CASE v = 0
  <2>1. Becomes(x) /\ device' = Down(device, k, v)
    BY <1>2 DEF Forward
  <2>. QED  BY <1>2, <2>1, BecomesSettled
<1>3. CASE v # 0
  <2>. DEFINE y == [x EXCEPT !.screen = s]
  <2>1. Becomes(y) /\ device' = Down(device, k, v)
    BY <1>3 DEF Forward
  <2>2. s \in Screens /\ (s.current = 0 \/ s.previous = 0)
    BY <1>1, ShownIsScreen DEF Shape
  <2>. HIDE DEF s
  <2>3. /\ y \in States /\ y.word = x.word /\ y.screen = s /\ y.separator = x.separator
        /\ y.pending = x.pending
    BY <2>2 DEF States
  <2>4. Shape(y.word, y.screen) /\ Waits(y)
    BY <2>2, <2>3 DEF Shape, Waits
  <2>. HIDE DEF y
  <2>5. /\ Settled' /\ separator' = y.separator /\ word' = y.word /\ screen' = y.screen
    BY <2>1, <2>3, <2>4, BecomesSettled
  <2>. QED  BY <1>3, <2>1, <2>3, <2>5 DEF s
<1>. QED  BY <1>2, <1>3

\* What a forwarded press or repeat does to the word, and a release.
LEMMA ForwardFits ==
    ASSUME NEW w \in Words, NEW s \in Screens, Shape(w, s), NEW m, NEW n, NEW k \in Keys,
           k \notin Separators
    PROVE  LET t == CASE IsPlain(m, k) -> TypeCharacter(w)
                      [] k = "Backspace" -> EraseCharacter(w)
                      [] k \in Modifiers -> w
                      [] OTHER -> NoWord
           IN  /\ t \in Words /\ Shape(t, Shown(s, n, k))
               /\ Fits(w, s) /\ n \subseteq m /\ (k = "Backspace" => Plain(m))
                    => Fits(t, Shown(s, n, k))
<1>. DEFINE t == CASE IsPlain(m, k) -> TypeCharacter(w)
                   [] k = "Backspace" -> EraseCharacter(w)
                   [] k \in Modifiers -> w
                   [] OTHER -> NoWord
<1>1. Plain(m) /\ n \subseteq m => Plain(n)
  BY DEF Plain
<1>2. Shown(s, n, k) \in Screens /\ (Shown(s, n, k).current = 0 \/ Shown(s, n, k).previous = 0)
  BY ShownIsScreen DEF Shape
<1>3. CASE IsPlain(m, k)
  <2>1. t = TypeCharacter(w) /\ k \in Characters /\ Plain(m)
    BY <1>3 DEF IsPlain, Plain, Characters
  <2>. QED  BY <2>1, <1>1, <1>2, CharacterFits, TypeCharacterIsWord DEF Shape
<1>4. CASE k = "Backspace"
  <2>1. t = EraseCharacter(w)
    BY <1>4 DEF IsPlain, Characters, Modifiers, Alt, Meta, Ctrl, Shift
  <2>2. EraseCharacter(w) \in Words
        /\ (EraseCharacter(w).overflowed
              => EraseCharacter(w).length = 0 /\ EraseCharacter(w).previous = 0)
    BY EraseCharacterIsWord DEF Shape
  <2>. QED  BY <1>1, <1>4, <2>1, <2>2, <1>2, BackspaceFits DEF Shape
<1>5. CASE k \in Modifiers
  <2>1. t = w /\ Shown(s, n, k) = s
    BY <1>5 DEF IsPlain, Characters, Shown, Modifiers, Alt, Meta, Ctrl, Shift, Separators
  <2>. QED  BY <2>1
<1>6. CASE ~IsPlain(m, k) /\ k # "Backspace" /\ k \notin Modifiers
  <2>1. t = NoWord
    BY <1>6
  <2>. QED  BY <2>1, <1>2, NoWordFits DEF Shape
<1>. QED  BY <1>3, <1>4, <1>5, <1>6

-----------------------------------------------------------------------------
\* What the rest of the handler does with an event: it goes to the desktop, or
\* it is kept from it, as the press of a separator is or that of a hotkey.

PassedOn(k, v) ==
    /\ device' = Down(device, k, v) /\ separator' = separator
    /\ v # 0 /\ k \in Separators => word'.length = 0

Kept(k, v) ==
    /\ device' = device /\ v # 0 /\ (v = 1 \/ word.length # 0)
    /\ separator' = separator \/ (separator' = k /\ k \in Separators)

Typing(k, v) ==
    /\ PassedOn(k, v) \/ Kept(k, v)
    /\ hotkey' = HotkeyLeft(k) /\ undo' = UndoLeft(k) /\ selected' = selected /\ flow' = flow

Selecting(k, v) ==
    /\ v = 1 /\ k = profile.selected.key
    /\ device' = device /\ separator' = separator
    /\ hotkey' = k /\ undo' = UndoLeft(k) /\ selected' \in BOOLEAN /\ flow' = flow

Correcting(k, v) ==
    /\ v = 1 /\ k = ManualKey
    /\ device' = device /\ separator' = separator
    /\ hotkey' = HotkeyLeft(k) /\ undo' = undo \cup {k} /\ selected' = selected
    /\ flow' \in {"Idle", "InFlight"}
    /\ flow' = "InFlight" => session'.length = word'.length

Processed(k, v) ==
    /\ Settled' /\ mods' = ModsAfter(k, v) /\ cap' = cap
    /\ Typing(k, v) \/ Selecting(k, v) \/ Correcting(k, v)
    /\ Fits(word, screen) /\ device \cap Modifiers \subseteq mods /\ ~IsUntracked(k, v)
         => Fits(word', screen')

LEMMA ModsFollow ==
    ASSUME NEW k, NEW v, device \cap Modifiers \subseteq mods, device' = Down(device, k, v)
    PROVE  device' \cap Modifiers \subseteq ModsAfter(k, v)
BY DEF ModsAfter, Down

LEMMA WordReplaced ==
    ASSUME NEW x, Handed(x), NEW w \in Words, w.overflowed => w.length = 0 /\ w.previous = 0
    PROVE  LET y == [x EXCEPT !.word = w]
           IN  /\ y \in States /\ y.word = w /\ y.screen = x.screen /\ y.separator = separator
               /\ Shape(y.word, y.screen) /\ Waits(y)
BY DEF Handed, States, Shape, Waits

LEMMA BoundaryDoes ==
    ASSUME TypeOK, NEW x, Handed(x), NEW k \in Keys \cap Separators, NEW v \in {1, 2},
           Proceeds(k, v), profile' = profile, Boundary(x, k, v)
    PROVE  /\ Settled' /\ (PassedOn(k, v) \/ Kept(k, v))
           /\ Fits(word, screen) /\ device \cap Modifiers \subseteq mods /\ ~IsUntracked(k, v)
                => Fits(word', screen')
<1>1. /\ x.word \in Words /\ x.screen \in Screens /\ x.pending \in Pendings
      /\ x.separator \in (Keys \cap Separators) \cup {None}
      /\ x.latched \in BOOLEAN /\ x.session \in Sessions
  BY HandedFields DEF Handed
<1>2. CASE Forward([x EXCEPT !.word = BoundaryWord(@, k)], k, v)
  <2>. DEFINE w == BoundaryWord(x.word, k)
              y == [x EXCEPT !.word = w]
              n == device' \cap Modifiers
  <2>1. /\ w \in Words /\ w.length = 0 /\ ~w.overflowed
        /\ Fits(x.word, x.screen) /\ (k = "Space" => Plain(n)) => Fits(w, Shown(x.screen, n, k))
    BY <1>1, BoundaryFits DEF Handed
  <2>2. Forward(y, k, v)
    BY <1>2
  <2>. HIDE DEF w
  <2>3. /\ y \in States /\ y.word = w /\ y.screen = x.screen /\ y.separator = separator
        /\ Shape(y.word, y.screen) /\ Waits(y)
    BY <2>1, WordReplaced
  <2>. HIDE DEF y
  <2>4. /\ Settled' /\ device' = Down(device, k, v) /\ separator' = separator /\ word' = w
        /\ screen' = Shown(x.screen, n, k)
    BY <2>2, <2>3, ForwardDoes
  <2>5. ASSUME device \cap Modifiers \subseteq mods, ~IsUntracked(k, v), k = "Space"
        PROVE  Plain(n)
    <3>1. n \subseteq ModsAfter(k, v)
      BY <2>4, <2>5, ModsFollow
    <3>2. Plain(ModsAfter(k, v))
      BY <2>5 DEF IsUntracked, Plain
    <3>. QED  BY <3>1, <3>2 DEF Plain
  <2>. QED  BY <2>1, <2>4, <2>5 DEF PassedOn, Handed
<1>3. ASSUME NEW a \in BoundaryActions(x.word, k), Swallow(AwaitRelease(x, k, a))
      PROVE  /\ Settled' /\ Kept(k, v)
             /\ Fits(word, screen) => Fits(word', screen')
  <2>. DEFINE on == TRUE
              p == [key |-> k, action |-> a, length |-> x.word.length, authorized |-> on]
              y == AwaitRelease(x, k, a)
  <2>1. on \in BOOLEAN /\ y = [x EXCEPT !.separator = k, !.pending = p]
    BY DEF AwaitRelease
  <2>2. a \in profile.corrections /\ x.word.length # 0
    BY <1>3 DEF BoundaryActions
  <2>3. x.word.length \in 1..MaxWord
    BY <1>1, <2>2, BoundIsNat DEF Words
  <2>. HIDE DEF on
  <2>4. p \in Pendings /\ p.key = k
    BY <2>1, <2>2, <2>3 DEF Pendings
  <2>. HIDE DEF p
  <2>5. y = [word |-> x.word, screen |-> x.screen, separator |-> k, pending |-> p,
             latched |-> x.latched, session |-> x.session]
    BY <2>1 DEF Handed, States
  <2>. HIDE DEF y
  <2>6. y \in States
    BY <1>1, <2>4, <2>5, StateIntro
  <2>7. Shape(y.word, y.screen) /\ Waits(y) /\ y.separator = k /\ y.word = x.word
        /\ y.screen = x.screen
    BY <2>4, <2>5 DEF Handed, Waits
  <2>8. Becomes(y) /\ device' = device
    BY <1>3 DEF Swallow, y
  <2>9. Settled' /\ separator' = k /\ word' = x.word /\ screen' = x.screen
    BY <2>6, <2>7, <2>8, BecomesSettled
  <2>10. word.length # 0
    BY <2>2 DEF Handed
  <2>. QED  BY <2>8, <2>9, <2>10 DEF Kept, Handed
<1>. QED  BY <1>2, <1>3 DEF Boundary

LEMMA TypeDoes ==
    ASSUME TypeOK, NEW x, Handed(x), NEW k \in Keys \ Separators, NEW v \in {1, 2},
           Proceeds(k, v), profile' = profile, Type(x, k, v, ModsAfter(k, v))
    PROVE  /\ Settled' /\ PassedOn(k, v)
           /\ Fits(word, screen) /\ device \cap Modifiers \subseteq mods /\ ~IsUntracked(k, v)
                => Fits(word', screen')
<1>. DEFINE m == ModsAfter(k, v)
            n == device' \cap Modifiers
            w == CASE IsPlain(m, k) -> TypeCharacter(x.word)
                   [] k = "Backspace" -> EraseCharacter(x.word)
                   [] k \in Modifiers -> x.word
                   [] OTHER -> NoWord
            y == [x EXCEPT !.word = w]
<1>1. x.word \in Words /\ x.screen \in Screens /\ Shape(x.word, x.screen)
  BY HandedFields DEF Handed
<1>2. Forward(y, k, v)
  BY DEF Type
<1>3. /\ w \in Words /\ Shape(w, Shown(x.screen, n, k))
      /\ Fits(x.word, x.screen) /\ n \subseteq m /\ (k = "Backspace" => Plain(m))
           => Fits(w, Shown(x.screen, n, k))
  <2>. HIDE DEF m, n
  <2>. QED  BY <1>1, ForwardFits
<1>. HIDE DEF w
<1>4. /\ y \in States /\ y.word = w /\ y.screen = x.screen /\ y.separator = separator
      /\ Shape(y.word, y.screen) /\ Waits(y)
  BY <1>3, WordReplaced DEF Shape
<1>. HIDE DEF y
<1>5. /\ Settled' /\ device' = Down(device, k, v) /\ separator' = separator /\ word' = w
      /\ screen' = Shown(x.screen, n, k)
  BY <1>2, <1>4, ForwardDoes
<1>6. device \cap Modifiers \subseteq mods => n \subseteq m
  BY <1>5, ModsFollow
<1>7. ~IsUntracked(k, v) /\ k = "Backspace" => Plain(m)
  BY DEF IsUntracked, Plain
<1>. QED  BY <1>3, <1>5, <1>6, <1>7 DEF PassedOn, Handed

LEMMA TypedDoes ==
    ASSUME TypeOK, NEW x, Handed(x), NEW k \in Keys, NEW v \in 0..2, Proceeds(k, v),
           profile' = profile, cap' = cap, mods' = ModsAfter(k, v),
           Typed(x, k, v, ModsAfter(k, v))
    PROVE  Processed(k, v)
<1>1. /\ hotkey' = HotkeyLeft(k) /\ undo' = UndoLeft(k) /\ selected' = selected
      /\ flow' = flow
  BY DEF Typed
<1>2. CASE v = 0 /\ Forward(x, k, v)
  <2>1. /\ Settled' /\ device' = Down(device, k, v) /\ separator' = x.separator
        /\ word' = x.word /\ screen' = x.screen
    BY <1>2, ForwardDoes DEF Handed
  <2>. QED  BY <1>1, <1>2, <2>1 DEF Processed, Typing, PassedOn, Handed, Fits
<1>3. CASE v # 0 /\ k \in Separators /\ Boundary(x, k, v)
  <2>1. /\ Settled' /\ (PassedOn(k, v) \/ Kept(k, v))
        /\ Fits(word, screen) /\ device \cap Modifiers \subseteq mods /\ ~IsUntracked(k, v)
             => Fits(word', screen')
    BY <1>3, BoundaryDoes
  <2>. QED  BY <1>1, <2>1 DEF Processed, Typing
<1>4. CASE v # 0 /\ k \notin Separators /\ Type(x, k, v, ModsAfter(k, v))
  <2>1. /\ Settled' /\ PassedOn(k, v)
        /\ Fits(word, screen) /\ device \cap Modifiers \subseteq mods /\ ~IsUntracked(k, v)
             => Fits(word', screen')
    BY <1>4, TypeDoes
  <2>. QED  BY <1>1, <2>1 DEF Processed, Typing
<1>. QED  BY <1>2, <1>3, <1>4 DEF Typed

LEMMA SelectedTextIsHanded ==
    ASSUME NEW x, Handed(x), NEW y \in SelectedTextSwitched(x)
    PROVE  Handed(y)
<1>1. CASE y = [x EXCEPT !.word = NoWord, !.screen = NoText]
  <2>1. /\ x.word \in Words /\ x.screen \in Screens /\ x.pending \in Pendings
        /\ x.separator \in (Keys \cap Separators) \cup {None}
        /\ x.latched \in BOOLEAN /\ x.session \in Sessions
    BY HandedFields DEF Handed
  <2>2. y = [word |-> NoWord, screen |-> NoText, separator |-> x.separator,
             pending |-> x.pending, latched |-> x.latched, session |-> x.session]
    BY <1>1 DEF Handed, States
  <2>3. /\ NoWord \in Words /\ NoText \in Screens /\ NoWord.length = 0
        /\ Shape(NoWord, NoText) /\ Fits(NoWord, NoText)
    BY <2>1, NoWordFits DEF NoWord
  <2>4. y \in States
    BY <2>1, <2>2, <2>3, StateIntro
  <2>. QED  BY <2>2, <2>3, <2>4 DEF Handed, Waits
<1>. QED  BY <1>1 DEF SelectedTextSwitched

LEMMA BegunIs ==
    ASSUME TypeOK, NEW w \in Words, NEW m \in SUBSET (Keys \cap Modifiers), NEW b \in Begun(w, m)
    PROVE  /\ b.flow \in {"Idle", "InFlight"} /\ b.session \in Sessions
           /\ b.flow = "InFlight" => w.length > 0 /\ b.session.length = w.length
<1>. DEFINE off == FALSE
<1>1. off \in BOOLEAN /\ w.length \in 0..MaxWord /\ 0 \in 0..MaxWord
  BY BoundIsNat DEF Words
<1>2. NoSession = [length |-> 0, invalidated |-> off, seen |-> off, retry |-> off,
                   observed |-> {}, shortcut |-> None]
  BY DEF NoSession
<1>. HIDE DEF off
<1>3. NoSession \in Sessions
  BY <1>1, <1>2 DEF Sessions
<1>4. CASE b = [flow |-> "Idle", session |-> NoSession]
  BY <1>3, <1>4
<1>5. CASE /\ b = [flow |-> "InFlight",
                   session |-> [NoSession EXCEPT !.length = w.length, !.observed = m]]
           /\ Prepared(w)
  <2>1. b.flow = "InFlight" /\ b.session = [NoSession EXCEPT !.length = w.length, !.observed = m]
    BY <1>5
  <2>2. b.session \in Sessions /\ b.session.length = w.length
    BY <1>1, <1>3, <2>1 DEF Sessions
  <2>. QED  BY <1>5, <2>1, <2>2 DEF Prepared
<1>. QED  BY <1>4, <1>5 DEF Begun

LEMMA HotkeyDoes ==
    ASSUME TypeOK, NEW x, Handed(x), NEW k \in Keys, NEW v \in 0..2, Proceeds(k, v),
           profile' = profile, cap' = cap, mods' = ModsAfter(k, v),
           Hotkey(x, k, v, ModsAfter(k, v))
    PROVE  Processed(k, v)
<1>. DEFINE m == ModsAfter(k, v)
<1>0. m \in SUBSET (Keys \cap Modifiers)
  BY DEF ModsAfter, Down, TypeOK
<1>1. CASE /\ HotkeyMatches(profile.selected, m, k, v)
           /\ hotkey' = k /\ selected' = (k # "Pause")
           /\ undo' = UndoLeft(k)
           /\ \E y \in IF k = "Pause" THEN SelectedTextSwitched(x) ELSE {x} : Swallow(y)
           /\ UNCHANGED flow
  <2>1. PICK y \in IF k = "Pause" THEN SelectedTextSwitched(x) ELSE {x} : Swallow(y)
    BY <1>1
  <2>2. Handed(y)
    BY <2>1, SelectedTextIsHanded
  <2>3. /\ Settled' /\ device' = device /\ separator' = separator
        /\ Fits(word, screen) => Fits(word', screen')
    BY <2>1, <2>2, SwallowDoes
  <2>4. v = 1 /\ k = profile.selected.key /\ selected' \in BOOLEAN
    BY <1>1 DEF HotkeyMatches
  <2>. QED  BY <1>1, <2>3, <2>4 DEF Processed, Selecting
<1>2. CASE /\ HotkeyMatches(profile.manual, m, k, v)
           /\ undo' = undo \cup {k} /\ hotkey' = HotkeyLeft(k)
           /\ \E b \in Begun(x.word, m) :
                 flow' = b.flow /\ Swallow([x EXCEPT !.session = b.session])
           /\ UNCHANGED selected
  <2>1. PICK b \in Begun(x.word, m) : flow' = b.flow /\ Swallow([x EXCEPT !.session = b.session])
    BY <1>2
  <2>. DEFINE y == [x EXCEPT !.session = b.session]
  <2>2. x.word \in Words
    BY HandedFields DEF Handed
  <2>3. /\ b.flow \in {"Idle", "InFlight"} /\ b.session \in Sessions
        /\ b.flow = "InFlight" => b.session.length = x.word.length
    <3>. HIDE DEF m
    <3>. QED  BY <1>0, <2>2, BegunIs
  <2>4. Handed(y) /\ y.session = b.session /\ y.word = x.word
    BY <2>3 DEF Handed, States, Waits
  <2>5. Swallow(y)
    BY <2>1
  <2>. HIDE DEF y
  <2>6. /\ Settled' /\ device' = device /\ separator' = separator /\ session' = y.session
        /\ Fits(word, screen) => Fits(word', screen')
    BY <2>4, <2>5, SwallowDoes
  <2>7. word' = x.word
    BY <2>4, <2>5 DEF Swallow, Becomes
  <2>8. v = 1 /\ k = ManualKey
    BY <1>2 DEF HotkeyMatches, ManualKey
  <2>. QED  BY <1>2, <2>1, <2>3, <2>4, <2>6, <2>7, <2>8 DEF Processed, Correcting
<1>. QED  BY <1>1, <1>2 DEF Hotkey

\* A focus switch shortcut on Wayland leaves the window.
LEMMA InvalidatedIsSession ==
    ASSUME NEW f, NEW s \in Sessions
    PROVE  Invalidated(f, s) \in Sessions /\ Invalidated(f, s).length = s.length
           /\ (f # "Idle" => Invalidated(f, s).invalidated)
<1>. DEFINE on == TRUE
<1>1. on \in BOOLEAN
  OBVIOUS
<1>2. Invalidated(f, s) = IF f = "Idle" THEN s ELSE [s EXCEPT !.invalidated = on]
  BY DEF Invalidated
<1>3. f # "Idle" => Invalidated(f, s).invalidated = on
  BY <1>2 DEF Sessions
<1>4. f # "Idle" => Invalidated(f, s).invalidated
  BY <1>3
<1>. HIDE DEF on
<1>. QED  BY <1>1, <1>2, <1>4 DEF Sessions

LEMMA ProcessDoes ==
    ASSUME TypeOK, Settled, profile' = profile,
           NEW k \in Keys, NEW v \in 0..2, Process(k, v)
    PROVE  Processed(k, v)
<1>. DEFINE m == ModsAfter(k, v)
            leaves == LeavesWindow(m, k, v)
            holds == latched /\ ComboHolds(m)
            matches == ComboMatches(m, k, v)
            entered == [Current EXCEPT !.word = IF leaves THEN NoWord ELSE @,
                                       !.screen = IF leaves THEN NoText ELSE @,
                                       !.session = IF leaves THEN Invalidated(flow, @) ELSE @,
                                       !.latched = holds]
            returns == \/ EarlyFinish(k, v) /\ HotkeyMatches(profile.manual, m, k, v)
                       \/ matches /\ holds
            w == IF leaves THEN NoWord ELSE word
            s == IF leaves THEN NoText ELSE screen
            n == IF leaves THEN Invalidated(flow, session) ELSE session
<1>1. /\ Current \in States /\ Handed(Current) /\ Waits(Current)
      /\ word \in Words /\ screen \in Screens /\ session \in Sessions /\ pending \in Pendings
      /\ separator \in (Keys \cap Separators) \cup {None}
  BY CurrentIsHanded, HandedFields DEF Handed, Current
<1>2. /\ w \in Words /\ s \in Screens /\ n \in Sessions
      /\ Shape(w, s) /\ w.length \in {0, word.length}
      /\ Fits(word, screen) => Fits(w, s)
  BY <1>1, NoWordFits, InvalidatedIsSession DEF Handed, Current, NoWord
<1>3. holds \in BOOLEAN
  BY DEF TypeOK
<1>4. /\ Current.word = word /\ Current.screen = screen /\ Current.session = session
      /\ Current.separator = separator /\ Current.pending = pending
  BY DEF Current
<1>5. /\ mods' = m /\ Proceeds(k, v) /\ cap' = cap
      /\ \E x \in FinishedEarly(entered, k, v) :
            LET y == IF matches THEN LayoutShortcut(x) ELSE x
            IN  IF returns
                THEN /\ Swallow(x)
                     /\ hotkey' = HotkeyLeft(k) /\ undo' = UndoLeft(k)
                     /\ UNCHANGED <<selected, flow>>
                ELSE Hotkey(y, k, v, m) \/ Typed(y, k, v, m)
  BY DEF Process
<1>6. returns => v = 1
  BY DEF EarlyFinish, ComboMatches
<1>7. entered = [Current EXCEPT !.word = w, !.screen = s, !.session = n, !.latched = holds]
  BY <1>4
<1>. HIDE DEF w, s, n, entered, holds, leaves
<1>8. Handed(entered) /\ entered.pending = pending
  <2>1. /\ entered \in States /\ entered.word = w /\ entered.screen = s
        /\ entered.separator = separator /\ entered.pending = pending
    BY <1>1, <1>2, <1>3, <1>4, <1>7 DEF States
  <2>. QED  BY <1>1, <1>2, <1>4, <2>1 DEF Handed, Waits
<1>. HIDE DEF matches, returns
<1>9. PICK x \in FinishedEarly(entered, k, v) :
         LET y == IF matches THEN LayoutShortcut(x) ELSE x
         IN  IF returns
             THEN /\ Swallow(x)
                  /\ hotkey' = HotkeyLeft(k) /\ undo' = UndoLeft(k)
                  /\ UNCHANGED <<selected, flow>>
             ELSE Hotkey(y, k, v, m) \/ Typed(y, k, v, m)
  BY <1>5
<1>10. Handed(x)
  BY <1>1, <1>8, FinishedEarlyIsHanded
<1>. DEFINE y == IF matches THEN LayoutShortcut(x) ELSE x
<1>11. Handed(y)
  BY <1>10, LayoutShortcutIsHanded
<1>12. CASE returns
  <2>1. /\ Swallow(x) /\ hotkey' = HotkeyLeft(k) /\ undo' = UndoLeft(k)
        /\ selected' = selected /\ flow' = flow
    BY <1>9, <1>12
  <2>2. /\ Settled' /\ device' = device /\ separator' = separator
        /\ Fits(word, screen) => Fits(word', screen')
    BY <1>10, <2>1, SwallowDoes
  <2>. QED  BY <1>5, <1>6, <1>12, <2>1, <2>2 DEF Processed, Typing, Kept
<1>13. CASE ~returns
  <2>1. Hotkey(y, k, v, m) \/ Typed(y, k, v, m)
    BY <1>9, <1>13
  <2>. HIDE DEF y
  <2>. QED  BY <1>5, <1>11, <2>1, HotkeyDoes, TypedDoes
<1>. QED  BY <1>12, <1>13

\* What is kept from the desktop settles a debt.
KeptBack(k, v) ==
    /\ Settled' /\ device' = device /\ mods' = mods /\ cap' = cap /\ flow' = flow
    /\ Suppresses(k, v)
    /\ hotkey' \in {hotkey, None} /\ separator' \in {separator, None} /\ undo' \subseteq undo
    /\ selected' \in BOOLEAN
    /\ v = 1 => hotkey = k
    /\ v = 0 => k \notin {hotkey', separator'} \cup undo'
    /\ word'.length \in {0, word.length}
    /\ Fits(word, screen) => Fits(word', screen')
    /\ \/ UNCHANGED <<word, screen, session>>
       \/ HotkeySwallows(k, v) /\ selected /\ v # 2
       \/ SeparatorSwallows(k, v) /\ PendingToFinish(k)

LEMMA SwallowCurrent ==
    ASSUME TypeOK, Settled, profile' = profile, Swallow(Current)
    PROVE  /\ Settled' /\ device' = device /\ separator' = separator
           /\ UNCHANGED <<word, screen, session>>
<1>1. Settled' /\ device' = device /\ separator' = separator
  BY CurrentIsHanded, SwallowDoes
<1>. QED  BY <1>1 DEF Swallow, Becomes, Current

LEMMA KeysAreTold ==
    ASSUME TypeOK
    PROVE  /\ profile.manual.key \in Triggers /\ profile.selected.key \in Triggers
           /\ Triggers \cap Separators = {} /\ Triggers \cap Modifiers = {}
           /\ ManualKey \in Triggers /\ ManualKey \notin Separators
<1>1. profile \in Profile
  BY InputAssumption DEF TypeOK
<1>2. profile.manual \in HotkeySpecs /\ profile.selected \in HotkeySpecs
  BY <1>1 DEF Profile
<1>3. Triggers \cap Separators = {} /\ Triggers \cap Modifiers = {}
  BY DEF Triggers, Separators, Modifiers, Alt, Ctrl, Meta, Shift
<1>. QED  BY <1>2, <1>3 DEF HotkeySpecs, ManualKey

LEMMA SuppressedDoes ==
    ASSUME TypeOK, Settled, profile' = profile, HotkeyInv,
           NEW k \in Keys, NEW v \in 0..2, Suppressed(k, v)
    PROVE  KeptBack(k, v)
<1>0. /\ None \notin Keys /\ Triggers \cap Separators = {} /\ undo \subseteq Triggers
      /\ hotkey \in Triggers \cup {None} /\ separator \in Separators \cup {None}
      /\ selected \in BOOLEAN
  BY KeysAreTold, InputAssumption DEF TypeOK
<1>1. CASE SuppressedHotkey(k, v)
  <2>1. /\ HotkeySwallows(k, v) /\ hotkey' = (IF v = 2 THEN hotkey ELSE None)
        /\ selected' = (selected /\ v = 2) /\ UNCHANGED <<mods, undo, cap, flow>>
        /\ \E x \in IF selected /\ v # 2 THEN SelectedTextSwitched(Current) ELSE {Current} :
              Swallow(x)
    BY <1>1 DEF SuppressedHotkey
  <2>2. hotkey = k
    BY <2>1 DEF HotkeySwallows
  <2>3. PICK x \in IF selected /\ v # 2 THEN SelectedTextSwitched(Current) ELSE {Current} :
              Swallow(x)
    BY <2>1
  <2>4. Handed(x)
    BY <2>3, CurrentIsHanded, SelectedTextIsHanded
  <2>5. /\ Settled' /\ device' = device /\ separator' = separator
        /\ word'.length \in {0, word.length}
        /\ Fits(word, screen) => Fits(word', screen')
    BY <2>3, <2>4, SwallowDoes
  <2>6. (selected /\ v # 2) \/ UNCHANGED <<word, screen, session>>
    BY <2>3, SwallowCurrent
  <2>7. Suppresses(k, v) /\ selected' \in BOOLEAN /\ (v = 0 => k \notin undo')
    BY <1>0, <2>1, <2>2 DEF Suppresses, HotkeyInv
  <2>. QED  BY <1>0, <2>1, <2>2, <2>5, <2>6, <2>7 DEF KeptBack
<1>2. CASE SuppressedUndo(k, v)
  <2>1. /\ ~HotkeySwallows(k, v) /\ k \in undo /\ v # 1 /\ undo' = Down(undo, k, v)
        /\ Swallow(Current) /\ UNCHANGED <<mods, hotkey, selected, cap, flow>>
    BY <1>2 DEF SuppressedUndo, UndoSwallows
  <2>2. /\ Settled' /\ device' = device /\ separator' = separator
        /\ UNCHANGED <<word, screen, session>>
    BY <2>1, SwallowCurrent
  <2>3. undo' \subseteq undo /\ (v = 0 => k \notin undo' /\ k # hotkey)
    BY <2>1 DEF Down, HotkeySwallows
  <2>4. Suppresses(k, v)
    BY <2>1 DEF Suppresses, UndoSwallows
  <2>5. k # separator
    BY <1>0, <2>1
  <2>. QED  BY <1>0, <2>1, <2>2, <2>3, <2>4, <2>5 DEF KeptBack, Fits
<1>3. CASE SuppressedSeparator(k, v)
  <2>. DEFINE x == [Current EXCEPT !.separator = None]
  <2>1. /\ ~HotkeySwallows(k, v) /\ ~UndoSwallows(k, v) /\ separator = k /\ v = 0
        /\ IF PendingToFinish(k) THEN \E y \in Finished(x) : Swallow(y) ELSE Swallow(x)
        /\ UNCHANGED <<mods, hotkey, selected, undo, cap, flow>>
    BY <1>3 DEF SuppressedSeparator, SeparatorSwallows
  <2>2. Suppresses(k, v) /\ SeparatorSwallows(k, v)
    BY <2>1 DEF Suppresses, SeparatorSwallows
  <2>3. k # hotkey /\ k \notin undo
    BY <2>1 DEF HotkeySwallows, UndoSwallows
  <2>4. Handed(Current) /\ Current \in States
    BY CurrentIsHanded DEF Handed
  <2>5. x \in States /\ x.separator = None /\ x.word = word /\ x.screen = screen
        /\ x.pending = pending /\ x.session = session
    <3>1. /\ Current.word = word /\ Current.screen = screen /\ Current.session = session
          /\ Current.pending = pending
      BY DEF Current
    <3>. QED  BY <2>4, <3>1 DEF States
  <2>6. Shape(x.word, x.screen)
    BY <2>4, <2>5 DEF Handed, Current
  <2>. HIDE DEF x
  <2>7. CASE PendingToFinish(k)
    <3>1. PICK y \in Finished(x) : Swallow(y)
      BY <2>1, <2>7
    <3>2. x.pending # None
      BY <2>5, <2>7 DEF PendingToFinish
    <3>3. /\ y \in States /\ y.separator = None /\ y.pending = None
          /\ y.word.length = 0 /\ Shape(y.word, y.screen)
          /\ Fits(word, screen) => Fits(y.word, y.screen)
      BY <2>5, <3>2, FinishedFits
    <3>4. /\ Settled' /\ separator' = None /\ word' = y.word /\ screen' = y.screen
          /\ device' = device
      BY <3>1, <3>3, BecomesSettled DEF Waits, Swallow
    <3>. QED  BY <1>0, <2>1, <2>2, <2>3, <2>7, <3>3, <3>4 DEF KeptBack, Fits
  <2>8. CASE ~PendingToFinish(k)
    <3>1. pending = None
      BY <2>1, <2>8 DEF PendingToFinish, Settled
    <3>2. Swallow(x)
      BY <2>1, <2>8
    <3>3. /\ Settled' /\ separator' = None /\ word' = x.word /\ screen' = x.screen
          /\ session' = x.session /\ device' = device
      BY <3>1, <3>2, <2>5, <2>6, BecomesSettled DEF Waits, Swallow
    <3>. QED  BY <1>0, <2>1, <2>2, <2>3, <2>5, <3>3 DEF KeptBack, Fits
  <2>. QED  BY <2>7, <2>8
<1>. QED  BY <1>1, <1>2, <1>3 DEF Suppressed

\* What the capture leaves alone is not its debt.
LEMMA CapPasses ==
    ASSUME CapOK, NEW k \in Keys, NEW v \in 0..2, ~CaptureTakes(k, v)
    PROVE  k \notin cap.suppressed
<1>1. SUFFICES ASSUME k \in cap.suppressed PROVE FALSE
  OBVIOUS
<1>2. Capture!Route(cap, k, v).to = "Suppress"
  BY <1>1 DEF Capture!Route, Capture!Suppress
<1>. QED  BY <1>2 DEF CaptureTakes

-----------------------------------------------------------------------------
\* The steps that handle no event.

LEMMA KeysStay ==
    ASSUME KeyInv, UNCHANGED <<profile, device, hotkey, separator, undo, ledger, phys, repeating>>,
           cap'.suppressed = cap.suppressed, FlowActive' => FlowActive,
           count.overtaken => count'.overtaken, count.early => count'.early,
           word.length = 0 /\ flow \notin {"InFlight", "CancelRequested"}
             => word'.length = 0 /\ flow' \notin {"InFlight", "CancelRequested"}
    PROVE  KeyInv'
<1>1. SUFFICES ASSUME ~count'.overtaken, ~count'.early
               PROVE  Balanced(Owed, ledger, phys)' /\ DebtInv' /\ RepeatInv'
  BY DEF KeyInv
<1>2. Balanced(Owed, ledger, phys) /\ DebtInv /\ RepeatInv
  BY <1>1 DEF KeyInv
<1>3. Debts' = Debts /\ Owed' = Owed /\ ManualKey' = ManualKey
  BY DEF Debts, Owed, ManualKey
<1>4. Balanced(Owed, ledger, phys)'
  BY <1>2, <1>3 DEF Balanced, HeldAt, ReleasedIn
<1>5. DebtInv'
  BY <1>2, <1>3 DEF DebtInv
<1>6. RepeatInv'
  BY <1>2 DEF RepeatInv, NextRepeats
<1>. QED  BY <1>4, <1>5, <1>6

\* The backend is closed, and everything is forgotten.
LEMMA StopsKeeps ==
    ASSUME Inv, profile' = profile, count' \in Counts, count.captures = 0 => ~count'.overtaken,
           count.captures = count'.captures,
           NEW next \in {"waiting", "exited"}, Stops(next)
    PROVE  Inv'
<1>. USE DEF Inv
<1>1. /\ backend' = next /\ phys' = {} /\ repeating' = None /\ device' = {} /\ screen' = NoText
      /\ cap' = Capture!EpochReset(cap)
      /\ ledger' = <<>> /\ reported' = FALSE
      /\ flow' = "Idle" /\ session' = NoSession /\ barrier' = "none"
      /\ word' = NoWord /\ separator' = None /\ pending' = None
      /\ hotkey' = None /\ selected' = FALSE /\ undo' = {} /\ latched' = FALSE
      /\ mods' = {}
  BY DEF Stops, LedgerReconciled, TransientReset
<1>2. CapOK' /\ cap'.suppressed = {} /\ ~Capture!IsActive(cap)'
  BY <1>1, CapReset
<1>3. <<>> \in Seq(Event) /\ Len(<<>>) = 0
  OBVIOUS
<1>4. Loop'
  <2>1. HardLimit \in Nat
    BY InputAssumption
  <2>2. ledger' \in Seq(Event) /\ Len(ledger') <= HardLimit
    <3>1. ledger' = <<>>
      BY <1>1
    <3>2. Len(ledger') = 0
      BY <3>1, <1>3
    <3>. QED  BY <1>3, <2>1, <3>1, <3>2
  <2>3. hotkey' = None /\ selected' \in BOOLEAN /\ reported' \in BOOLEAN
    BY <1>1
  <2>. QED  BY <1>1, <2>2, <2>3 DEF Loop
<1>5. NoSession \in Sessions
  <2>. DEFINE off == FALSE
  <2>1. off \in BOOLEAN /\ 0 \in 0..MaxWord
    BY BoundIsNat
  <2>2. NoSession = [length |-> 0, invalidated |-> off, seen |-> off, retry |-> off,
                     observed |-> {}, shortcut |-> None]
    BY DEF NoSession
  <2>. HIDE DEF off
  <2>. QED  BY <2>1, <2>2 DEF Sessions
<1>6. Settled'
  <2>1. NoText \in Screens
    BY BoundIsNat DEF NoText, Screens
  <2>2. NoWord \in Words /\ Shape(NoWord, NoText)
    BY <2>1, NoWordFits
  <2>3. Pendings' = Pendings /\ None \in Pendings
    BY DEF Pendings
  <2>. QED  BY <1>1, <1>5, <2>1, <2>2, <2>3 DEF Settled, Screens, Words, Sessions, Shape
<1>7. CaptureInv'
  BY <1>1, <1>2 DEF CaptureInv, FlowActive
<1>8. LedgerInv' /\ HotkeyInv'
  BY <1>1, <1>3 DEF LedgerInv, HotkeyInv
<1>9. KeyInv'
  <2>1. Debts' = {} /\ Owed' = {}
    BY <1>1, <1>2, InputAssumption DEF Debts, Owed
  <2>2. Balanced(Owed, ledger, phys)'
    BY <1>1, <1>3, <2>1 DEF Balanced, HeldAt, ReleasedIn
  <2>3. DebtInv' /\ RepeatInv'
    BY <1>1, <1>2, <1>3, <2>1 DEF DebtInv, RepeatInv, FlowActive
  <2>. QED  BY <2>2, <2>3 DEF KeyInv
<1>10. WordInv'
  BY <1>1 DEF WordInv, Fits, NoWord, NoText
<1>. QED  BY <1>2, <1>4, <1>6, <1>7, <1>8, <1>9, <1>10

LEMMA CountFields ==
    ASSUME count \in Counts
    PROVE  /\ count.events \in Nat /\ count.invalidations \in Nat /\ count.captures \in Nat
           /\ count.failures \in Nat /\ count.overtaken \in BOOLEAN /\ count.early \in BOOLEAN
           /\ count.missed \in BOOLEAN
BY DEF Counts

LEMMA FailedKeeps ==
    ASSUME Inv, profile' = profile, Failed
    PROVE  Inv'
<1>1. Stops("exited") /\ count' = count
  BY DEF Failed
<1>. QED  BY <1>1, StopsKeeps DEF Inv, CaptureInv

LEMMA FailKeeps ==
    ASSUME Inv, profile' = profile, Fail
    PROVE  Inv'
<1>1. PICK next \in {"waiting", "exited"} : Stops(next)
  BY DEF Fail
<1>2. /\ count' \in Counts /\ count'.captures = count.captures
      /\ count'.overtaken = count.overtaken
  BY DEF Fail, Inv, Counts
<1>. QED  BY <1>1, <1>2, StopsKeeps DEF Inv, CaptureInv

\* A step that leaves the keys and the ledger alone.
LEMMA QuietStep ==
    ASSUME Inv,
           UNCHANGED <<profile, phys, repeating, device, mods, hotkey, selected, undo, latched,
                       separator, ledger>>,
           backend' \in {"ready", "waiting", "exited"},
           flow' \in {"Idle", "InFlight", "CancelRequested", "DrainingDeferredInput"},
           barrier' \in {"none", "armed", "over", "stuck"}, reported' \in BOOLEAN,
           word' \in Words, screen' \in Screens, Shape(word', screen'), session' \in Sessions,
           pending' \in {pending, Unauthorized(pending)},
           CapOK', cap'.suppressed = cap.suppressed, count' \in Counts, CaptureInv',
           FlowActive' => FlowActive, FlowActive' \/ ledger = <<>>,
           count.overtaken => count'.overtaken, count.early => count'.early,
           count'.captures = 0 => count.captures = 0,
           word.length = 0 /\ flow \notin {"InFlight", "CancelRequested"}
             => word'.length = 0 /\ flow' \notin {"InFlight", "CancelRequested"},
           count'.captures = 0 /\ ~count'.missed =>
               /\ Fits(word', screen')
               /\ flow' \in {"InFlight", "CancelRequested"} /\ ~session'.invalidated =>
                     session'.length <= screen'.current
    PROVE  Inv'
<1>. USE DEF Inv
<1>1. KeyInv'
  BY KeysStay
<1>2. ManualKey' = ManualKey /\ Pendings' = Pendings
  BY DEF ManualKey, Pendings
<1>3. Loop'
  BY <1>2 DEF Loop
<1>4. Settled'
  <2>1. pending \in Pendings /\ (pending # None => separator = pending.key)
    BY DEF Settled
  <2>2. pending' \in Pendings /\ (pending' # None => pending # None /\ pending'.key = pending.key)
    BY <2>1 DEF Unauthorized, Pendings
  <2>. QED  BY <1>2, <2>1, <2>2 DEF Settled, Words, Screens, Sessions, Shape
<1>5. LedgerInv' /\ HotkeyInv'
  BY <1>2 DEF LedgerInv, HotkeyInv
<1>6. WordInv'
  BY DEF WordInv, Fits
<1>. QED  BY <1>1, <1>3, <1>4, <1>5, <1>6

LEMMA FinalizedIsWord ==
    ASSUME NEW n \in 0..MaxWord
    PROVE  /\ Finalized(n) \in Words /\ Finalized(n).length = n /\ Finalized(n).previous = 0
           /\ ~Finalized(n).overflowed
<1>. DEFINE on == TRUE
            off == FALSE
<1>1. on \in BOOLEAN /\ off \in BOOLEAN /\ 0 \in 0..MaxWord /\ ~off
  BY BoundIsNat
<1>2. NoWord = [length |-> 0, previous |-> 0, corrected |-> off, overflowed |-> off]
  BY DEF NoWord
<1>3. Finalized(n) = [NoWord EXCEPT !.length = n, !.corrected = on]
  BY DEF Finalized
<1>. HIDE DEF on, off
<1>4. NoWord \in Words /\ NoWord.previous = 0 /\ NoWord.overflowed = off
  BY <1>1, <1>2 DEF Words
<1>. QED  BY <1>1, <1>3, <1>4 DEF Words

\* Words, screens and sessions of the current state.
LEMMA SettledFields ==
    ASSUME Settled
    PROVE  /\ word \in Words /\ screen \in Screens /\ session \in Sessions
           /\ session.length \in 0..MaxWord /\ Shape(word, screen)
           /\ NoWord \in Words /\ NoWord.length = 0 /\ NoText \in Screens
           /\ Shape(NoWord, screen) /\ Shape(NoWord, NoText)
           /\ Fits(NoWord, screen) /\ Fits(NoWord, NoText)
<1>1. word \in Words /\ screen \in Screens /\ session \in Sessions /\ Shape(word, screen)
  BY DEF Settled
<1>2. NoText \in Screens
  BY BoundIsNat DEF NoText, Screens
<1>. QED  BY <1>1, <1>2, NoWordFits DEF Sessions, Shape, NoWord

LEMMA SucceededKeeps ==
    ASSUME Inv, profile' = profile, Succeeded
    PROVE  Inv'
<1>1. /\ flow \in {"InFlight", "CancelRequested"} /\ backend = "ready"
      /\ flow' = "DrainingDeferredInput" /\ pending' = Unauthorized(pending)
      /\ word' = (IF session.invalidated THEN NoWord ELSE Finalized(session.length))
      /\ UNCHANGED <<backend, phys, repeating, device, mods, separator, hotkey, selected, undo,
                     latched, cap, session, barrier, ledger, reported, screen, count>>
  BY DEF Succeeded, Completes, Ready, input, queue
<1>2. Loop /\ Settled /\ CapOK /\ count \in Counts /\ CaptureInv /\ WordInv
  BY DEF Inv
<1>3. /\ word' \in Words /\ Shape(word', screen) /\ screen \in Screens /\ session \in Sessions
      /\ count.captures = 0 /\ ~count.missed => Fits(word', screen)
  BY <1>1, <1>2, SettledFields, FinalizedIsWord DEF Shape, WordInv, Fits, Screens
<1>4. CaptureInv' /\ CapOK'
  BY <1>1, <1>2 DEF CaptureInv, CapOK, FlowActive
<1>5. barrier \in {"none", "armed", "over", "stuck"} /\ reported \in BOOLEAN
  BY <1>2 DEF Loop
<1>6. FlowActive /\ FlowActive'
  BY <1>1 DEF FlowActive
<1>7. word' \in Words /\ screen' \in Screens /\ Shape(word', screen') /\ session' \in Sessions
      /\ (count'.captures = 0 /\ ~count'.missed => Fits(word', screen'))
  BY <1>1, <1>3
<1>. QED  BY <1>1, <1>2, <1>4, <1>5, <1>6, <1>7, QuietStep

LEMMA CancelledKeeps ==
    ASSUME Inv, profile' = profile, Cancelled
    PROVE  Inv'
<1>1. /\ flow = "CancelRequested" /\ backend = "ready"
      /\ flow' = "DrainingDeferredInput" /\ pending' = Unauthorized(pending)
      /\ word' = NoWord /\ screen' = NoText
      /\ UNCHANGED <<backend, phys, repeating, device, mods, separator, hotkey, selected, undo,
                     latched, cap, session, barrier, ledger, reported, count>>
  BY DEF Cancelled, Completes, Ready, input, queue
<1>2. Loop /\ Settled /\ CapOK /\ count \in Counts /\ CaptureInv
  BY DEF Inv
<1>3. CaptureInv' /\ CapOK'
  BY <1>1, <1>2 DEF CaptureInv, CapOK, FlowActive
<1>4. barrier \in {"none", "armed", "over", "stuck"} /\ reported \in BOOLEAN
  BY <1>2 DEF Loop
<1>5. FlowActive /\ FlowActive'
  BY <1>1 DEF FlowActive
<1>6. word' \in Words /\ screen' \in Screens /\ Shape(word', screen') /\ session' \in Sessions
      /\ Fits(word', screen')
  BY <1>1, <1>2, SettledFields
<1>. QED  BY <1>1, <1>2, <1>3, <1>4, <1>5, <1>6, QuietStep

LEMMA BarrierOverKeeps ==
    ASSUME Inv, profile' = profile, BarrierOver
    PROVE  Inv'
<1>1. /\ barrier' = "over" /\ backend = "ready"
      /\ UNCHANGED <<backend, phys, repeating, device, mods, word, separator, pending, hotkey,
                     selected, undo, latched, cap, flow, session, ledger, reported, screen, count>>
  BY DEF BarrierOver, Ready, input, suppression
<1>2. Loop /\ Settled /\ CapOK /\ count \in Counts /\ CaptureInv /\ WordInv /\ LedgerInv
  BY DEF Inv
<1>3. CaptureInv' /\ CapOK' /\ FlowActive' = FlowActive
  BY <1>1, <1>2 DEF CaptureInv, CapOK, FlowActive
<1>4. /\ reported \in BOOLEAN
      /\ flow \in {"Idle", "InFlight", "CancelRequested", "DrainingDeferredInput"}
  BY <1>2 DEF Loop
<1>5. /\ word' \in Words /\ screen' \in Screens /\ Shape(word', screen') /\ session' \in Sessions
      /\ count'.captures = 0 /\ ~count'.missed =>
            /\ Fits(word', screen')
            /\ flow' \in {"InFlight", "CancelRequested"} /\ ~session'.invalidated =>
                  session'.length <= screen'.current
  BY <1>1, <1>2, SettledFields DEF WordInv
<1>6. FlowActive \/ ledger = <<>>
  BY <1>2 DEF LedgerInv
<1>. QED  BY <1>1, <1>2, <1>3, <1>4, <1>5, <1>6, QuietStep

LEMMA DrainDoneKeeps ==
    ASSUME Inv, profile' = profile, DrainDone
    PROVE  Inv'
<1>1. /\ flow = "DrainingDeferredInput" /\ backend = "ready" /\ ledger = <<>>
      /\ barrier' = "none" /\ reported' = FALSE
      /\ UNCHANGED <<backend, phys, repeating, device, mods, word, separator, pending, hotkey,
                     selected, undo, latched, cap, ledger, screen, count>>
      /\ \E b \in IF session.retry THEN Begun(word, mods)
                  ELSE {[flow |-> "Idle", session |-> NoSession]} :
            flow' = b.flow /\ session' = b.session
  BY DEF DrainDone, Ready, Draining, input, suppression
<1>2. Loop /\ Settled /\ CapOK /\ count \in Counts /\ CaptureInv /\ WordInv /\ TypeOK
  BY InvType DEF Inv
<1>3. PICK b \in IF session.retry THEN Begun(word, mods)
                 ELSE {[flow |-> "Idle", session |-> NoSession]} :
            flow' = b.flow /\ session' = b.session
  BY <1>1
<1>4. b \in Begun(word, mods)
  BY <1>3 DEF Begun
<1>5. mods \in SUBSET (Keys \cap Modifiers) /\ word \in Words
  BY <1>2 DEF Loop, Settled
<1>6. /\ flow' \in {"Idle", "InFlight"} /\ session' \in Sessions
      /\ flow' = "InFlight" => word.length > 0 /\ session'.length = word.length
  BY <1>2, <1>3, <1>4, <1>5, BegunIs
<1>7. CaptureInv' /\ CapOK'
  BY <1>1, <1>2 DEF CaptureInv, CapOK, FlowActive
<1>8. FlowActive
  BY <1>1 DEF FlowActive
<1>9. /\ word' \in Words /\ screen' \in Screens /\ Shape(word', screen')
      /\ count'.captures = 0 /\ ~count'.missed =>
            /\ Fits(word', screen')
            /\ flow' \in {"InFlight", "CancelRequested"} /\ ~session'.invalidated =>
                  session'.length <= screen'.current
  BY <1>1, <1>2, <1>6, SettledFields DEF WordInv, Fits
<1>10. reported' \in BOOLEAN
  BY <1>1
<1>11. word.length = 0 /\ flow \notin {"InFlight", "CancelRequested"}
         => word'.length = 0 /\ flow' \notin {"InFlight", "CancelRequested"}
  BY <1>1, <1>6
<1>. QED  BY <1>1, <1>2, <1>6, <1>7, <1>8, <1>9, <1>10, <1>11, QuietStep

LEMMA InvalidateKeeps ==
    ASSUME Inv, profile' = profile, NEW setup \in BOOLEAN, Invalidate(setup)
    PROVE  Inv'
<1>1. /\ count' = [count EXCEPT !.invalidations = @ + 1]
      /\ flow' = CancelFlow(flow) /\ session' = Invalidated(flow, session)
      /\ word' = NoWord
      /\ screen' = IF setup THEN screen ELSE NoText
      /\ pending' = IF setup THEN Unauthorized(pending) ELSE pending
      /\ backend = "ready"
      /\ UNCHANGED <<backend, phys, repeating, device, mods, separator, hotkey, selected, undo,
                     latched, cap, barrier, ledger, reported>>
  BY DEF Invalidate, Ready, input, queue
<1>2. Loop /\ Settled /\ CapOK /\ count \in Counts /\ CaptureInv /\ WordInv /\ LedgerInv
  BY DEF Inv
<1>3. /\ count' \in Counts /\ count'.captures = count.captures /\ count'.missed = count.missed
      /\ count'.overtaken = count.overtaken /\ count'.early = count.early
  BY <1>1, <1>2 DEF Counts
<1>4. FlowActive' = FlowActive
  BY <1>1 DEF FlowActive, CancelFlow
<1>5. CaptureInv' /\ CapOK'
  BY <1>1, <1>2, <1>3, <1>4 DEF CaptureInv, CapOK
<1>6. /\ flow' \in {"Idle", "InFlight", "CancelRequested", "DrainingDeferredInput"}
      /\ flow \notin {"InFlight", "CancelRequested"} => flow' = flow
      /\ reported \in BOOLEAN /\ barrier \in {"none", "armed", "over", "stuck"}
  BY <1>1, <1>2 DEF Loop, CancelFlow
<1>7. /\ session' \in Sessions
      /\ flow # "Idle" => session'.invalidated
  BY <1>1, <1>2, InvalidatedIsSession DEF Settled
<1>8. /\ word' \in Words /\ screen' \in Screens /\ Shape(word', screen') /\ Fits(word', screen')
      /\ word'.length = 0
  BY <1>1, <1>2, SettledFields
<1>9. FlowActive \/ ledger = <<>>
  BY <1>2 DEF LedgerInv
<1>10. flow' \in {"InFlight", "CancelRequested"} => session'.invalidated
  BY <1>1, <1>7 DEF CancelFlow
<1>. QED  BY <1>1, <1>3, <1>4, <1>5, <1>6, <1>7, <1>8, <1>9, <1>10, QuietStep

LEMMA CaptureKeeps ==
    ASSUME Inv, profile' = profile, CaptureStart \/ CaptureEnd \/ CaptureExpire
    PROVE  Inv'
<1>1. /\ UNCHANGED <<backend, phys, repeating, device, mods, separator, pending, hotkey, selected,
                     undo, latched, flow, session, barrier, ledger, reported, screen>>
      /\ word' \in {word, NoWord}
  BY DEF CaptureStart, CaptureEnd, CaptureExpire, input, suppression, manual
<1>2. Loop /\ Settled /\ CapOK /\ count \in Counts /\ CaptureInv /\ WordInv /\ LedgerInv
  BY DEF Inv
<1>3. FlowActive' = FlowActive
  BY <1>1 DEF FlowActive
<1>4. /\ CapOK' /\ cap'.suppressed = cap.suppressed /\ count' \in Counts /\ CaptureInv'
      /\ count.overtaken => count'.overtaken
      /\ count'.early = count.early /\ count'.missed = count.missed
      /\ count'.captures = 0 => count.captures = 0
  <2>1. CASE CaptureStart
    <3>1. /\ cap' = Capture!Started(cap, Capture!Lease("settings"))
          /\ count' = [count EXCEPT !.captures = @ + 1, !.overtaken = @ \/ FlowActive]
      BY <2>1 DEF CaptureStart
    <3>2. CapOK' /\ cap'.suppressed = cap.suppressed
      BY <1>2, <3>1, CapStart
    <3>. DEFINE over == count.overtaken \/ FlowActive
    <3>3. count.captures + 1 \in Nat \ {0} /\ over \in BOOLEAN
      BY <1>2, CountFields DEF FlowActive
    <3>4. count' = [count EXCEPT !.captures = count.captures + 1, !.overtaken = over]
      BY <3>1
    <3>5. over <=> count.overtaken \/ FlowActive
      OBVIOUS
    <3>. HIDE DEF over
    <3>6. /\ count' \in Counts /\ count'.captures # 0 /\ count'.overtaken = over
          /\ count'.early = count.early /\ count'.missed = count.missed
      BY <1>2, <3>3, <3>4 DEF Counts
    <3>. QED  BY <1>3, <3>2, <3>5, <3>6 DEF CaptureInv
  <2>2. CASE CaptureEnd \/ CaptureExpire
    <3>1. PICK phase \in {"Cancelled", "Finished"} : cap' = Capture!End(cap, phase)
      BY <2>2 DEF CaptureEnd, CaptureExpire
    <3>2. CapOK' /\ cap'.suppressed = cap.suppressed /\ ~Capture!IsActive(cap)'
      BY <1>2, <3>1, CapEnd
    <3>3. count' = count
      BY <2>2 DEF CaptureEnd, CaptureExpire
    <3>. QED  BY <1>2, <3>2, <3>3 DEF CaptureInv
  <2>. QED  BY <2>1, <2>2
<1>5. /\ word' \in Words /\ screen' \in Screens /\ Shape(word', screen') /\ session' \in Sessions
      /\ word.length = 0 => word'.length = 0
      /\ Fits(word, screen) => Fits(word', screen')
  BY <1>1, <1>2, SettledFields
<1>6. /\ backend \in {"ready", "waiting", "exited"} /\ reported \in BOOLEAN
      /\ flow \in {"Idle", "InFlight", "CancelRequested", "DrainingDeferredInput"}
      /\ barrier \in {"none", "armed", "over", "stuck"}
  BY <1>2 DEF Loop
<1>7. FlowActive \/ ledger = <<>>
  BY <1>2 DEF LedgerInv
<1>8. count'.captures = 0 /\ ~count'.missed =>
          /\ Fits(word', screen')
          /\ flow' \in {"InFlight", "CancelRequested"} /\ ~session'.invalidated =>
                session'.length <= screen'.current
  BY <1>1, <1>2, <1>4, <1>5 DEF WordInv
<1>. QED  BY <1>1, <1>3, <1>4, <1>5, <1>6, <1>7, <1>8, QuietStep

LEMMA RecoverKeeps ==
    ASSUME Inv, profile' = profile, Recover
    PROVE  Inv'
<1>1. /\ backend' = "ready"
      /\ UNCHANGED <<phys, repeating, device, mods, word, separator, pending, hotkey, selected,
                     undo, latched, cap, flow, session, barrier, ledger, reported, screen, count>>
  BY DEF Recover, input, suppression, manual
<1>2. Loop /\ Settled /\ CapOK /\ count \in Counts /\ CaptureInv /\ WordInv /\ LedgerInv
  BY DEF Inv
<1>3. CaptureInv' /\ CapOK' /\ FlowActive' = FlowActive
  BY <1>1, <1>2 DEF CaptureInv, CapOK, FlowActive
<1>4. /\ reported \in BOOLEAN /\ barrier \in {"none", "armed", "over", "stuck"}
      /\ flow \in {"Idle", "InFlight", "CancelRequested", "DrainingDeferredInput"}
  BY <1>2 DEF Loop
<1>5. /\ word' \in Words /\ screen' \in Screens /\ Shape(word', screen') /\ session' \in Sessions
      /\ count'.captures = 0 /\ ~count'.missed =>
            /\ Fits(word', screen')
            /\ flow' \in {"InFlight", "CancelRequested"} /\ ~session'.invalidated =>
                  session'.length <= screen'.current
  BY <1>1, <1>2, SettledFields DEF WordInv
<1>6. FlowActive \/ ledger = <<>>
  BY <1>2 DEF LedgerInv
<1>. QED  BY <1>1, <1>2, <1>3, <1>4, <1>5, <1>6, QuietStep

LEMMA StutterKeeps ==
    ASSUME Inv, UNCHANGED vars
    PROVE  Inv'
<1>1. UNCHANGED <<profile, backend, phys, repeating, device, mods, word, separator, pending,
                  hotkey, selected, undo, latched, cap, flow, session, barrier, ledger, reported,
                  screen, count>>
  BY DEF vars, input, suppression, manual
<1>2. Loop /\ Settled /\ CapOK /\ count \in Counts /\ CaptureInv /\ WordInv /\ LedgerInv
  BY DEF Inv
<1>3. CaptureInv' /\ CapOK' /\ FlowActive' = FlowActive
  BY <1>1, <1>2 DEF CaptureInv, CapOK, FlowActive
<1>4. /\ reported \in BOOLEAN /\ barrier \in {"none", "armed", "over", "stuck"}
      /\ flow \in {"Idle", "InFlight", "CancelRequested", "DrainingDeferredInput"}
      /\ backend \in {"ready", "waiting", "exited"}
  BY <1>2 DEF Loop
<1>5. /\ word' \in Words /\ screen' \in Screens /\ Shape(word', screen') /\ session' \in Sessions
      /\ count'.captures = 0 /\ ~count'.missed =>
            /\ Fits(word', screen')
            /\ flow' \in {"InFlight", "CancelRequested"} /\ ~session'.invalidated =>
                  session'.length <= screen'.current
  BY <1>1, <1>2, SettledFields DEF WordInv
<1>6. FlowActive \/ ledger = <<>>
  BY <1>2 DEF LedgerInv
<1>. QED  BY <1>1, <1>2, <1>3, <1>4, <1>5, <1>6, QuietStep

-----------------------------------------------------------------------------
\* The steps that take an event from the keyboard.

Taken(k, v) ==
    /\ Delivered(k, v)
    /\ phys' = Down(phys, k, v)
    /\ repeating' = CASE v = 1 -> k [] v = 0 -> None [] OTHER -> repeating
    /\ UNCHANGED backend

LEMMA DeliveredDoes ==
    ASSUME Inv, NEW k \in Keys, NEW v \in 0..2, Delivered(k, v)
    PROVE  /\ backend = "ready" /\ count' \in Counts /\ count'.captures = count.captures
           /\ count'.overtaken = count.overtaken
           /\ count'.early <=> count.early \/ IsEarly(k, v)
           /\ count'.missed <=> count.missed \/ IsMissed(k, v)
                                  \/ (~FlowActive /\ IsUntracked(k, v))
           /\ v = 1 => k \notin phys
           /\ v = 2 => k \in phys /\ repeating = k
           /\ v = 0 => k \in phys
<1>. DEFINE n == IF v = 0 THEN count.events ELSE count.events + 1
            e == count.early \/ IsEarly(k, v)
            m == count.missed \/ IsMissed(k, v) \/ (~FlowActive /\ IsUntracked(k, v))
<1>1. count \in Counts /\ Loop /\ None \notin Keys
  BY InputAssumption DEF Inv
<1>2. n \in Nat
  BY <1>1, CountFields
<1>3. e \in BOOLEAN
  BY <1>1, CountFields DEF IsEarly
<1>4. m \in BOOLEAN
  BY <1>1, CountFields DEF IsMissed
<1>5. /\ backend = "ready"
      /\ count' = [count EXCEPT !.events = n, !.early = e, !.missed = m]
      /\ v = 1 => k \notin phys
      /\ v = 2 => k = repeating
      /\ v = 0 => k \in phys
  <2>1. count' = [count EXCEPT !.events = n, !.early = e, !.missed = m]
    BY Zenon DEF Delivered
  <2>. QED  BY <2>1 DEF Delivered, Ready
<1>6. v = 2 => k \in phys
  BY <1>1, <1>5 DEF Loop
<1>7. (e <=> count.early \/ IsEarly(k, v))
      /\ (m <=> count.missed \/ IsMissed(k, v) \/ (~FlowActive /\ IsUntracked(k, v)))
  OBVIOUS
<1>. HIDE DEF n, e, m
<1>8. /\ count' \in Counts /\ count'.captures = count.captures
      /\ count'.overtaken = count.overtaken /\ count'.early = e /\ count'.missed = m
  BY <1>1, <1>2, <1>3, <1>4, <1>5 DEF Counts
<1>. QED  BY <1>5, <1>6, <1>7, <1>8

LEMMA TakenDoes ==
    ASSUME Inv, NEW k \in Keys, NEW v \in 0..2, Taken(k, v)
    PROVE  /\ backend' = backend /\ phys' \in SUBSET Keys /\ repeating' \in phys' \cup {None}
           /\ phys' = Down(phys, k, v)
           /\ v = 1 => repeating' = k
           /\ v = 0 => repeating' = None
           /\ v = 2 => repeating' = repeating
           /\ (v # 0 => k \in phys')
<1>1. /\ v = 1 => k \notin phys
      /\ v = 2 => k \in phys /\ repeating = k
      /\ v = 0 => k \in phys
  BY DeliveredDoes DEF Taken
<1>2. Loop
  BY DEF Inv
<1>3. /\ v = 1 => repeating' = k
      /\ v = 0 => repeating' = None
      /\ v = 2 => repeating' = repeating
  BY DEF Taken
<1>. QED  BY <1>1, <1>2, <1>3 DEF Taken, Down, Loop

LEMMA SuppressedKeeps ==
    ASSUME Inv, profile' = profile, NEW k \in Keys, NEW v \in 0..2,
           Taken(k, v), Suppressed(k, v), UNCHANGED queue
    PROVE  Inv'
<1>1. /\ Loop /\ Settled /\ CapOK /\ count \in Counts /\ TypeOK
      /\ CaptureInv /\ LedgerInv /\ HotkeyInv /\ KeyInv /\ WordInv
  BY InvType DEF Inv
<1>2. KeptBack(k, v)
  BY <1>1, SuppressedDoes
<1>3. /\ device' = device /\ mods' = mods /\ cap' = cap /\ flow' = flow
      /\ barrier' = barrier /\ ledger' = ledger /\ reported' = reported
      /\ hotkey' \in {hotkey, None} /\ separator' \in {separator, None} /\ undo' \subseteq undo
      /\ selected' \in BOOLEAN
  BY <1>2 DEF KeptBack, queue
<1>4. /\ backend' = backend /\ phys' \in SUBSET Keys /\ repeating' \in phys' \cup {None}
      /\ phys' = Down(phys, k, v)
      /\ v = 1 => repeating' = k
      /\ v = 0 => repeating' = None
      /\ v = 2 => repeating' = repeating
      /\ v # 0 => k \in phys'
  BY TakenDoes
<1>5. /\ count' \in Counts /\ count'.captures = count.captures
      /\ count'.overtaken = count.overtaken
      /\ count'.early <=> count.early \/ IsEarly(k, v)
      /\ count'.missed <=> count.missed \/ IsMissed(k, v) \/ (~FlowActive /\ IsUntracked(k, v))
  BY DeliveredDoes DEF Taken
<1>6. ManualKey' = ManualKey /\ FlowActive' = FlowActive /\ None \notin Keys
  BY <1>3, InputAssumption DEF ManualKey, FlowActive
<1>7. Loop'
  BY <1>1, <1>3, <1>4, <1>6 DEF Loop
<1>8. Settled' /\ CapOK' /\ CaptureInv'
  BY <1>1, <1>2, <1>3, <1>5, <1>6 DEF KeptBack, CapOK, CaptureInv
<1>9. LedgerInv' /\ HotkeyInv'
  BY <1>1, <1>3, <1>6 DEF LedgerInv, HotkeyInv
<1>10. KeyInv'
  <2>1. SUFFICES ASSUME ~count'.overtaken, ~count'.early
                 PROVE  Balanced(Owed, ledger, phys)' /\ DebtInv' /\ RepeatInv'
    BY DEF KeyInv
  <2>2. Balanced(Owed, ledger, phys) /\ DebtInv /\ RepeatInv /\ ~IsEarly(k, v)
    BY <1>1, <1>5, <2>1 DEF KeyInv
  <2>3. k \in Debts /\ k \in {hotkey, separator} \cup undo
    BY <1>2 DEF KeptBack, Suppresses, HotkeySwallows, UndoSwallows, SeparatorSwallows, Debts
  <2>4. k \notin device /\ k \notin cap.suppressed
    BY <2>2, <2>3 DEF DebtInv
  <2>5. \A i \in 1..Len(ledger) : ledger[i].key # k
    <3>1. CASE ~FlowActive
      <4>1. ledger = <<>> /\ Len(<<>>) = 0
        BY <1>1, <3>1 DEF LedgerInv
      <4>. QED  BY <4>1
    <3>2. CASE FlowActive
      <4>1. DOMAIN ledger = 1..Len(ledger)
        BY <1>1 DEF Loop
      <4>. QED  BY <1>2, <2>2, <3>2, <4>1 DEF IsEarly, KeptBack
    <3>. QED  BY <3>1, <3>2
  <2>6. Debts' \subseteq Debts /\ Owed' \subseteq Owed /\ (v = 0 => k \notin Owed')
    BY <1>2, <1>3, <1>6, <2>4 DEF Debts, Owed, KeptBack
  <2>7. Owed \in SUBSET Keys /\ Owed' \in SUBSET Keys
    BY <1>1, <1>7 DEF Owed, Debts, Loop
  <2>8. Balanced(Owed', ledger, phys')
    <3>1. phys \subseteq phys' \cup {k} /\ (k \in Owed' => k \in phys')
      BY <1>4, <2>6 DEF Down
    <3>2. ledger \in Seq(Event) /\ phys \in SUBSET Keys
      BY <1>1 DEF Loop
    <3>. HIDE DEF Owed
    <3>. QED  BY <1>4, <2>2, <2>5, <2>6, <2>7, <3>1, <3>2, BalancedBeside
  <2>9. Balanced(Owed, ledger, phys)'
    BY <1>3, <2>8
  <2>10. DebtInv'
    BY <1>1, <1>3, <1>6, <2>2, <2>6 DEF DebtInv, Loop, CapOK
  <2>11. RepeatInv'
    <3>1. v = 1 => k \notin Separators
      BY <1>1, <1>2, <1>6, KeysAreTold DEF KeptBack, Loop
    <3>2. word.length = 0 => word'.length = 0
      BY <1>2 DEF KeptBack
    <3>3. repeating' \in Keys \cap Separators => repeating' = repeating
      BY <1>4, <1>6, <3>1
    <3>. QED  BY <1>3, <1>4, <1>6, <2>2, <2>7, <3>2, <3>3, <1>1 DEF RepeatInv, NextRepeats, Loop
  <2>. QED  BY <2>9, <2>10, <2>11
<1>11. WordInv'
  <2>1. count'.captures = 0 => device' \cap Modifiers \subseteq mods'
    BY <1>1, <1>3, <1>5 DEF WordInv
  <2>2. SUFFICES ASSUME count'.captures = 0, ~count'.missed
                 PROVE  /\ Fits(word', screen')
                        /\ flow' \in {"InFlight", "CancelRequested"} /\ ~session'.invalidated =>
                              session'.length <= screen'.current
    BY <2>1 DEF WordInv, Fits
  <2>3. /\ Fits(word, screen) /\ ~IsMissed(k, v)
        /\ flow \in {"InFlight", "CancelRequested"} /\ ~session.invalidated =>
              session.length <= screen.current
    BY <1>1, <1>5, <2>2 DEF WordInv
  <2>4. Fits(word', screen')
    BY <1>2, <2>3 DEF KeptBack
  <2>5. flow \in {"InFlight", "CancelRequested"} => UNCHANGED <<word, screen, session>>
    BY <1>2, <2>3 DEF KeptBack, IsMissed
  <2>. QED  BY <1>3, <2>3, <2>4, <2>5
<1>. QED  BY <1>5, <1>7, <1>8, <1>9, <1>10, <1>11 DEF Inv

\* The ledger and the debts, while no event went round the ledger.
LEMMA KeysOfEvent ==
    ASSUME Inv, ~count.overtaken, ~count.early
    PROVE  /\ Balanced(Owed, ledger, phys) /\ DebtInv /\ RepeatInv
           /\ Owed \in SUBSET Keys /\ phys \in SUBSET Keys /\ ledger \in Seq(Event)
           /\ ledger = <<>> => Owed \subseteq phys
<1>1. /\ Balanced(Owed, ledger, phys) /\ DebtInv /\ RepeatInv /\ Loop
  BY DEF Inv, KeyInv
<1>2. Owed \in SUBSET Keys /\ phys \in SUBSET Keys /\ ledger \in Seq(Event)
  BY <1>1 DEF Owed, Debts, Loop
<1>3. ledger = <<>> => Owed \subseteq phys
  <2>. HIDE DEF Owed
  <2>. QED  BY <1>1, <1>2, BalancedWhenEmpty
<1>. QED  BY <1>1, <1>2, <1>3

LEMMA RouteCaptureKeeps ==
    ASSUME Inv, profile' = profile, NEW k \in Keys, NEW v \in 0..2,
           Taken(k, v), RouteCapture(k, v), UNCHANGED queue
    PROVE  Inv'
<1>. DEFINE r == Capture!Route(cap, k, v)
            ends == Capture!IsActive(cap) /\ ~Capture!IsActive(r.session)
            w == IF ends THEN NoWord ELSE word
            x == [Current EXCEPT !.word = w]
<1>1. /\ Loop /\ Settled /\ CapOK /\ count \in Counts /\ TypeOK
      /\ CaptureInv /\ LedgerInv /\ HotkeyInv /\ KeyInv /\ WordInv
  BY InvType DEF Inv
<1>2. /\ Proceeds(k, v) /\ CaptureTakes(k, v) /\ cap' = r.session
      /\ IF r.to = "ForwardDirect"
         THEN Forward(x, k, v) /\ mods' = ModsAfter(k, v)
         ELSE Swallow(x) /\ UNCHANGED mods
      /\ hotkey' = HotkeyLeft(k) /\ undo' = UndoLeft(k) /\ selected' = selected /\ flow' = flow
      /\ barrier' = barrier /\ ledger' = ledger /\ reported' = reported
  <2>1. x = [Current EXCEPT !.word = IF ends THEN NoWord ELSE @]
    BY DEF Current
  <2>. QED  BY <2>1 DEF RouteCapture, queue
<1>3. /\ CapOK'
      /\ Capture!IsActive(cap)' => Capture!IsActive(cap)
      /\ \/ /\ k \in cap.suppressed /\ r.to = "Suppress"
            /\ cap'.suppressed = IF v = 0 THEN cap.suppressed \ {k} ELSE cap.suppressed
         \/ /\ k \notin cap.suppressed /\ v # 1 /\ Capture!IsActive(cap)
            /\ r.to = "ForwardDirect" /\ cap' = cap
         \/ /\ k \notin cap.suppressed /\ v = 1 /\ Capture!IsActive(cap)
            /\ \/ r.to = "Suppress" /\ cap'.suppressed = cap.suppressed \cup {k}
               \/ /\ r.to = "ForwardDirect" /\ cap'.suppressed = cap.suppressed
                  /\ ~Capture!IsActive(cap)'
  BY <1>1, <1>2, CapRoute
<1>4. w \in Words /\ w.length \in {0, word.length}
      /\ (w.overflowed => w.length = 0 /\ w.previous = 0)
  BY <1>1, SettledFields DEF Shape
<1>5. ends => w.length = 0
  BY <1>1, SettledFields
<1>6. ends <=> Capture!IsActive(cap) /\ ~Capture!IsActive(cap)'
  BY <1>2 DEF Capture!IsActive
<1>. HIDE DEF r, w, ends
<1>7. /\ x \in States /\ x.word = w /\ x.separator = separator
      /\ Shape(x.word, x.screen) /\ Waits(x)
  BY <1>1, <1>4, CurrentIsHanded, WordReplaced
<1>. HIDE DEF x
<1>8. /\ Settled' /\ separator' = separator /\ word' = w
      /\ device' = IF r.to = "ForwardDirect" THEN Down(device, k, v) ELSE device
      /\ mods' \in {mods, ModsAfter(k, v)}
  <2>1. CASE r.to = "ForwardDirect"
    BY <1>2, <1>7, <2>1, ForwardDoes
  <2>2. CASE r.to # "ForwardDirect"
    BY <1>2, <1>7, <2>2, BecomesSettled DEF Swallow
  <2>. QED  BY <2>1, <2>2
<1>9. /\ backend' = backend /\ phys' \in SUBSET Keys /\ repeating' \in phys' \cup {None}
      /\ phys' = Down(phys, k, v)
      /\ v = 1 => repeating' = k
      /\ v = 0 => repeating' = None
      /\ v = 2 => repeating' = repeating
      /\ v # 0 => k \in phys'
  BY TakenDoes
<1>10. /\ count' \in Counts /\ count'.captures = count.captures
       /\ count'.overtaken = count.overtaken
       /\ count'.early <=> count.early \/ IsEarly(k, v)
       /\ v = 1 => k \notin phys
       /\ v = 2 => k \in phys /\ repeating = k
       /\ v = 0 => k \in phys
  BY DeliveredDoes DEF Taken
<1>11. ManualKey' = ManualKey /\ FlowActive' = FlowActive /\ None \notin Keys
  BY <1>2, InputAssumption DEF ManualKey, FlowActive
<1>12. /\ device' \subseteq Keys /\ mods' \subseteq Keys \cap Modifiers
       /\ hotkey' \in {hotkey, None} /\ undo' \subseteq undo /\ k \notin undo' /\ hotkey' # k
  BY <1>1, <1>2, <1>8, <1>11 DEF Down, ModsAfter, HotkeyLeft, UndoLeft, Loop
<1>13. Loop'
  BY <1>1, <1>2, <1>9, <1>11, <1>12 DEF Loop
<1>14. LedgerInv' /\ HotkeyInv'
  BY <1>1, <1>2, <1>11, <1>12 DEF LedgerInv, HotkeyInv
<1>15. CaptureInv' /\ count.captures # 0
  BY <1>1, <1>3, <1>10, <1>11 DEF CaptureInv
<1>16. WordInv'
  BY <1>10, <1>15 DEF WordInv
<1>17. KeyInv'
  <2>1. SUFFICES ASSUME ~count'.overtaken, ~count'.early
                 PROVE  Balanced(Owed, ledger, phys)' /\ DebtInv' /\ RepeatInv'
    BY DEF KeyInv
  <2>2. /\ Balanced(Owed, ledger, phys) /\ DebtInv /\ RepeatInv
        /\ Owed \in SUBSET Keys /\ phys \in SUBSET Keys /\ ledger \in Seq(Event)
        /\ ledger = <<>> => Owed \subseteq phys
    BY <1>10, <2>1, KeysOfEvent
  <2>3. k = separator => v # 0
    BY <1>2 DEF Proceeds, Suppresses, SeparatorSwallows
  \* No event of k waits, and k is up when it is pressed.
  <2>4. \A i \in 1..Len(ledger) : ledger[i].key # k
    <3>1. CASE k \in cap.suppressed
      BY <2>2, <3>1 DEF DebtInv
    <3>2. CASE k \notin cap.suppressed
      <4>1. Capture!IsActive(cap) /\ ~FlowActive
        BY <1>1, <1>3, <1>10, <2>1, <3>2 DEF CaptureInv
      <4>2. ledger = <<>> /\ Len(<<>>) = 0
        BY <1>1, <4>1 DEF LedgerInv
      <4>. QED  BY <4>2
    <3>. QED  BY <3>1, <3>2
  <2>5. k \in Owed => k \in phys
    <3>. HIDE DEF Owed
    <3>. QED  BY <2>2, <2>4, OwedIsDown
  <2>6. v = 1 => k \notin Owed
    BY <1>10, <2>5
  <2>7. Owed' \in SUBSET Keys /\ Owed' \subseteq Owed \cup {k} /\ (v = 0 => k \notin Owed')
    <3>1. Owed' \subseteq Owed \cup {k}
      BY <1>3, <1>8, <1>11, <1>12 DEF Owed, Debts, Down
    <3>2. CASE v = 0
      <4>1. k \notin cap'.suppressed
        BY <1>3, <3>2
      <4>2. k \notin device'
        BY <1>3, <1>8, <2>2, <3>2 DEF Down, DebtInv, Debts
      <4>. QED  BY <1>8, <1>12, <2>3, <3>1, <3>2, <4>1, <4>2, <2>2 DEF Owed, Debts
    <3>. QED  BY <3>1, <3>2, <2>2
  <2>8. Balanced(Owed', ledger, phys')
    <3>1. phys \subseteq phys' \cup {k} /\ (k \in Owed' => k \in phys')
      BY <1>9, <2>7 DEF Down
    <3>. HIDE DEF Owed
    <3>. QED  BY <1>9, <2>2, <2>4, <2>7, <3>1, BalancedBeside
  <2>9. Balanced(Owed, ledger, phys)'
    BY <1>2, <2>8
  <2>10. DebtInv'
    <3>1. Debts' \cap device' = {}
      <4>1. CASE k \in cap.suppressed
        BY <1>3, <1>8, <1>11, <1>12, <2>2, <4>1 DEF Debts, DebtInv
      <4>2. CASE k \notin cap.suppressed /\ v # 1
        BY <1>3, <1>8, <1>11, <1>12, <2>2, <4>2 DEF Debts, DebtInv, Down
      <4>3. CASE k \notin cap.suppressed /\ v = 1
        BY <1>3, <1>8, <1>11, <1>12, <2>2, <2>6, <4>3 DEF Debts, Owed, DebtInv, Down
      <4>. QED  BY <4>1, <4>2, <4>3
    <3>2. cap'.suppressed \cap ({hotkey', separator'} \cup undo') = {}
      BY <1>1, <1>3, <1>8, <1>11, <1>12, <2>2, <2>6 DEF Debts, Owed, DebtInv, CapOK
    <3>3. \A i \in 1..Len(ledger') : ledger'[i].key \notin cap'.suppressed
      BY <1>2, <1>3, <2>2, <2>4 DEF DebtInv
    <3>4. FlowActive' => ManualKey' \notin device'
      <4>1. FlowActive => device' = device
        BY <1>1, <1>3, <1>8, <1>10, <2>1 DEF CaptureInv
      <4>. QED  BY <1>11, <2>2, <4>1 DEF DebtInv
    <3>. QED  BY <3>1, <3>2, <3>3, <3>4 DEF DebtInv
  <2>11. RepeatInv'
    <3>1. word.length = 0 => word'.length = 0
      BY <1>4, <1>8
    <3>2. ledger # <<>> => v # 1
      <4>1. CASE k \in cap.suppressed
        BY <1>10, <2>5, <4>1, <1>1 DEF Owed, Debts, CapOK
      <4>2. CASE k \notin cap.suppressed
        BY <1>1, <1>3, <1>10, <2>1, <4>2 DEF CaptureInv, LedgerInv
      <4>. QED  BY <4>1, <4>2
    <3>3. \A s \in Separators \cap device' :
             NextRepeats(s)' => word'.length = 0 /\ flow' \notin {"InFlight", "CancelRequested"}
      <4>. SUFFICES ASSUME NEW s \in Separators \cap device', NextRepeats(s)'
                    PROVE  word'.length = 0 /\ flow' \notin {"InFlight", "CancelRequested"}
        OBVIOUS
      <4>0. s \in Keys
        BY <1>12
      <4>1. CASE v = 1
        <5>1. s = k /\ ledger = <<>>
          BY <1>2, <1>9, <3>2, <4>1 DEF NextRepeats
        <5>2. k \notin device
          BY <2>6, <4>1 DEF Owed
        <5>3. Capture!IsActive(cap) /\ ~Capture!IsActive(cap)'
          BY <1>3, <1>8, <4>1, <5>1, <5>2
        <5>4. ~FlowActive
          BY <1>1, <1>10, <2>1, <5>3 DEF CaptureInv
        <5>. QED  BY <1>2, <1>5, <1>6, <1>8, <5>3, <5>4 DEF FlowActive
      <4>2. CASE v # 1
        <5>1. s \in device
          BY <1>8, <4>2 DEF Down
        <5>2. NextRepeats(s)
          BY <1>2, <1>9, <1>11, <4>0, <4>2 DEF NextRepeats
        <5>. QED  BY <1>2, <2>2, <3>1, <5>1, <5>2 DEF RepeatInv
      <4>. QED  BY <4>1, <4>2
    <3>4. ledger' # <<>> /\ repeating' \in Keys \cap Separators => repeating' = repeating
      BY <1>2, <1>9, <1>11, <3>2
    <3>. QED  BY <1>2, <2>2, <3>3, <3>4 DEF RepeatInv
  <2>. QED  BY <2>9, <2>10, <2>11
<1>. QED  BY <1>3, <1>8, <1>10, <1>13, <1>14, <1>15, <1>16, <1>17 DEF Inv

LEMMA RetryIsSession ==
    ASSUME NEW s \in Sessions
    PROVE  /\ RequestRetry(s) \in Sessions /\ RequestRetry(s).length = s.length
           /\ RequestRetry(s).invalidated = s.invalidated
<1>. DEFINE t == s.retry \/ s.seen
<1>1. t \in BOOLEAN
  BY DEF Sessions
<1>2. RequestRetry(s) = [s EXCEPT !.retry = t]
  BY DEF RequestRetry
<1>. HIDE DEF t
<1>. QED  BY <1>1, <1>2 DEF Sessions

LEMMA SessionReplaced ==
    ASSUME NEW x, Handed(x), NEW n \in Sessions
    PROVE  LET y == [x EXCEPT !.session = n]
           IN  Handed(y) /\ y.session = n /\ y.word = x.word /\ y.screen = x.screen
BY DEF Handed, States, Waits

LEMMA HotkeyDuringFlowKeeps ==
    ASSUME Inv, profile' = profile, NEW k \in Keys, NEW v \in 0..2,
           Taken(k, v), HotkeyDuringFlow(k, v), UNCHANGED queue
    PROVE  Inv'
<1>. DEFINE n == IF v = 1 THEN RequestRetry(session) ELSE session
            x == [Current EXCEPT !.session = n]
<1>1. /\ Loop /\ Settled /\ CapOK /\ count \in Counts /\ TypeOK
      /\ CaptureInv /\ LedgerInv /\ HotkeyInv /\ KeyInv /\ WordInv
  BY InvType DEF Inv
<1>2. /\ Proceeds(k, v) /\ ~CaptureTakes(k, v) /\ FlowActive /\ k = ManualKey
      /\ undo' = (IF v = 1 THEN undo \cup {k} ELSE undo)
      /\ Swallow(x)
      /\ hotkey' = HotkeyLeft(k) /\ selected' = selected /\ flow' = flow /\ cap' = cap
      /\ mods' = mods
      /\ barrier' = barrier /\ ledger' = ledger /\ reported' = reported
  <2>1. x = [Current EXCEPT !.session = IF v = 1 THEN RequestRetry(@) ELSE @]
    BY DEF Current
  <2>. QED  BY <2>1 DEF HotkeyDuringFlow, queue
<1>3. n \in Sessions /\ n.length = session.length /\ n.invalidated = session.invalidated
  BY <1>1, SettledFields, RetryIsSession
<1>. HIDE DEF n
<1>4. Handed(x) /\ x.session = n /\ x.word = word /\ x.screen = screen
  <2>1. Current.word = word /\ Current.screen = screen
    BY DEF Current
  <2>. QED  BY <1>1, <1>3, <2>1, CurrentIsHanded, SessionReplaced
<1>. HIDE DEF x
<1>5. /\ Settled' /\ separator' = separator /\ word' = word /\ screen' = screen
      /\ device' = device /\ session' = n
  BY <1>2, <1>4, SwallowDoes DEF Swallow, Becomes
<1>6. /\ backend' = backend /\ phys' \in SUBSET Keys /\ repeating' \in phys' \cup {None}
      /\ phys' = Down(phys, k, v)
      /\ v = 1 => repeating' = k
      /\ v = 0 => repeating' = None
      /\ v = 2 => repeating' = repeating
      /\ v # 0 => k \in phys'
  BY TakenDoes
<1>7. /\ count' \in Counts /\ count'.captures = count.captures
      /\ count'.overtaken = count.overtaken
      /\ count'.early <=> count.early \/ IsEarly(k, v)
      /\ count'.missed <=> count.missed \/ IsMissed(k, v) \/ (~FlowActive /\ IsUntracked(k, v))
  BY DeliveredDoes DEF Taken
<1>8. ManualKey' = ManualKey /\ FlowActive' = FlowActive /\ None \notin Keys
  BY <1>2, InputAssumption DEF ManualKey, FlowActive
<1>9. /\ hotkey' \in {hotkey, None} /\ hotkey' # k /\ undo' \subseteq undo \cup {k}
      /\ v # 1 => undo' = undo /\ k \notin undo
      /\ v = 0 => separator # k
  BY <1>2, <1>8 DEF HotkeyLeft, Proceeds, Suppresses, UndoSwallows, SeparatorSwallows
<1>10. Loop'
  BY <1>1, <1>2, <1>5, <1>6, <1>8, <1>9 DEF Loop
<1>11. LedgerInv' /\ HotkeyInv' /\ CapOK' /\ CaptureInv'
  BY <1>1, <1>2, <1>7, <1>8, <1>9 DEF LedgerInv, HotkeyInv, CapOK, CaptureInv
<1>12. WordInv'
  BY <1>1, <1>2, <1>3, <1>5, <1>7 DEF WordInv, Fits
<1>13. KeyInv'
  <2>1. SUFFICES ASSUME ~count'.overtaken, ~count'.early
                 PROVE  Balanced(Owed, ledger, phys)' /\ DebtInv' /\ RepeatInv'
    BY DEF KeyInv
  <2>2. /\ Balanced(Owed, ledger, phys) /\ DebtInv /\ RepeatInv
        /\ Owed \in SUBSET Keys /\ phys \in SUBSET Keys /\ ledger \in Seq(Event)
    BY <1>7, <2>1, KeysOfEvent
  <2>3. /\ \A i \in 1..Len(ledger) : ledger[i].key # k
        /\ k \notin device /\ k \notin cap.suppressed /\ k \notin Separators
    BY <1>1, <1>2, <2>2, CapPasses, KeysAreTold DEF LedgerInv, DebtInv
  <2>4. Owed' \in SUBSET Keys /\ Owed' \subseteq Owed \cup {k} /\ (v = 0 => k \notin Owed')
    <3>1. Owed' \subseteq Owed \cup {k}
      BY <1>2, <1>5, <1>8, <1>9 DEF Owed, Debts
    <3>. QED  BY <1>2, <1>5, <1>9, <2>2, <2>3, <3>1 DEF Owed, Debts
  <2>5. Balanced(Owed', ledger, phys')
    <3>1. phys \subseteq phys' \cup {k} /\ (k \in Owed' => k \in phys')
      BY <1>6, <2>4 DEF Down
    <3>. HIDE DEF Owed
    <3>. QED  BY <1>6, <2>2, <2>3, <2>4, <3>1, BalancedBeside
  <2>6. Balanced(Owed, ledger, phys)'
    BY <1>2, <2>5
  <2>7. DebtInv'
    BY <1>1, <1>2, <1>5, <1>8, <1>9, <2>2, <2>3 DEF DebtInv, Debts, CapOK
  <2>8. RepeatInv'
    <3>1. repeating' \in Keys \cap Separators => repeating' = repeating
      BY <1>6, <1>8, <2>3
    <3>2. \A s \in Separators \cap device : NextRepeats(s)' => NextRepeats(s)
      BY <1>1, <1>2, <1>6, <1>8, <3>1 DEF NextRepeats, Loop
    <3>. QED  BY <1>2, <1>5, <2>2, <3>1, <3>2 DEF RepeatInv
  <2>. QED  BY <2>6, <2>7, <2>8
<1>. QED  BY <1>5, <1>7, <1>10, <1>11, <1>12, <1>13 DEF Inv

LEMMA ObservingIsSession ==
    ASSUME NEW s \in Sessions, NEW k \in Keys, NEW v \in 0..2
    PROVE  /\ Observing(s, k, v) \in Sessions /\ Observing(s, k, v).length = s.length
           /\ Observing(s, k, v).invalidated = s.invalidated
<1>. DEFINE m == Down(s.observed, k, v) \cap Modifiers
            t == s.seen \/ (v = 1 /\ k \notin Modifiers)
            c == IF ShortcutEnds(s, m, k, v) THEN None ELSE ShortcutNow(s, m, k, v)
<1>1. m \in SUBSET (Keys \cap Modifiers)
  BY DEF Sessions, Down
<1>2. t \in BOOLEAN
  BY DEF Sessions
<1>3. c \in {None, "Alt", "Meta"}
  BY DEF Sessions, ShortcutNow
<1>4. Observing(s, k, v) = [s EXCEPT !.seen = t, !.observed = m, !.shortcut = c]
  BY DEF Observing
<1>. HIDE DEF m, t, c
<1>. QED  BY <1>1, <1>2, <1>3, <1>4 DEF Sessions

LEMMA EnqueueKeeps ==
    ASSUME Inv, profile' = profile, NEW k \in Keys, NEW v \in 0..2,
           Taken(k, v), Enqueue(k, v)
    PROVE  Inv'
<1>. DEFINE m == Down(session.observed, k, v) \cap Modifiers
            ends == ShortcutEnds(session, m, k, v)
            full == ~reported /\ Len(ledger) + 1 > SoftLimit
            cancels == LeavesWindow(m, k, v) \/ (full /\ flow = "InFlight")
            seen == Observing(session, k, v)
            e == [key |-> k, value |-> v, fence |-> ends]
            n == IF cancels THEN Invalidated(flow, seen) ELSE seen
            w == IF cancels THEN NoWord ELSE word
            x == [Current EXCEPT !.word = w, !.session = n]
<1>1. /\ Loop /\ Settled /\ CapOK /\ count \in Counts /\ TypeOK
      /\ CaptureInv /\ LedgerInv /\ HotkeyInv /\ KeyInv /\ WordInv
  BY InvType DEF Inv
<1>2. /\ Proceeds(k, v) /\ ~CaptureTakes(k, v) /\ FlowActive /\ k # ManualKey
      /\ Len(ledger) < HardLimit
      /\ ledger' = Append(ledger, e) /\ reported' = (reported \/ full)
      /\ flow' = (IF cancels THEN CancelFlow(flow) ELSE flow)
      /\ Swallow(x)
      /\ hotkey' = HotkeyLeft(k) /\ undo' = UndoLeft(k)
      /\ selected' = selected /\ cap' = cap /\ mods' = mods /\ barrier' = barrier
  <2>1. x = [Current EXCEPT !.word = IF cancels THEN NoWord ELSE @,
                            !.session = IF cancels THEN Invalidated(flow, seen) ELSE seen]
    BY DEF Current
  <2>2. Swallow([Current EXCEPT !.word = IF cancels THEN NoWord ELSE @,
                                !.session = IF cancels THEN Invalidated(flow, seen) ELSE seen])
    BY DEF Enqueue
  <2>3. Swallow(x)
    BY <2>1, <2>2
  <2>. QED  BY <2>3 DEF Enqueue, Enqueues
<1>3. /\ n \in Sessions /\ n.length = session.length
      /\ ~n.invalidated => ~session.invalidated /\ ~cancels
  <2>1. session \in Sessions
    BY <1>1, SettledFields
  <2>2. /\ seen \in Sessions /\ seen.length = session.length
        /\ seen.invalidated = session.invalidated
    BY <2>1, ObservingIsSession
  <2>. HIDE DEF seen
  <2>3. /\ Invalidated(flow, seen) \in Sessions /\ Invalidated(flow, seen).length = seen.length
        /\ Invalidated(flow, seen).invalidated
    BY <1>2, <2>2, InvalidatedIsSession DEF FlowActive
  <2>. HIDE DEF cancels
  <2>. QED  BY <2>2, <2>3
<1>4. ends \in BOOLEAN /\ e \in Event /\ e.key = k /\ e.value = v
  BY DEF ShortcutEnds, Event
<1>5. cancels \in BOOLEAN /\ (reported \/ full) \in BOOLEAN
  BY <1>1 DEF LeavesWindow, Loop
<1>6. /\ w \in Words /\ w.length \in {0, word.length}
      /\ (w.overflowed => w.length = 0 /\ w.previous = 0)
      /\ Fits(word, screen) => Fits(w, screen)
      /\ Shape(w, screen)
      /\ ~cancels => w = word
  BY <1>1, SettledFields DEF Shape
<1>7. flow' \in {flow, CancelFlow(flow)} /\ (~cancels => flow' = flow)
  BY <1>2
<1>. HIDE DEF n, w, e, cancels, full, ends, seen
<1>8. Handed(x) /\ x.word = w /\ x.session = n /\ x.screen = screen
  <2>1. Current \in States /\ Handed(Current)
    BY <1>1, CurrentIsHanded DEF Handed
  <2>2. Current.word = word /\ Current.screen = screen
    BY DEF Current
  <2>3. /\ x \in States /\ x.word = w /\ x.session = n /\ x.screen = screen
        /\ x.separator = Current.separator /\ x.pending = Current.pending
    BY <1>3, <1>6, <2>1, <2>2 DEF States
  <2>. QED  BY <1>6, <2>1, <2>3 DEF Handed, Waits
<1>. HIDE DEF x
<1>9. /\ Settled' /\ separator' = separator /\ word' = w /\ screen' = screen
      /\ device' = device /\ session' = n
  BY <1>2, <1>8, SwallowDoes DEF Swallow, Becomes
<1>10. /\ backend' = backend /\ phys' \in SUBSET Keys /\ repeating' \in phys' \cup {None}
       /\ phys' = Down(phys, k, v)
       /\ v = 1 => repeating' = k
       /\ v = 0 => repeating' = None
       /\ v = 2 => repeating' = repeating
       /\ v # 0 => k \in phys'
  BY TakenDoes
<1>11. /\ count' \in Counts /\ count'.captures = count.captures
       /\ count'.overtaken = count.overtaken
       /\ count'.early <=> count.early \/ IsEarly(k, v)
       /\ count'.missed <=> count.missed \/ IsMissed(k, v) \/ (~FlowActive /\ IsUntracked(k, v))
       /\ v = 1 => k \notin phys
       /\ v = 2 => k \in phys /\ repeating = k
  BY DeliveredDoes DEF Taken
<1>12. /\ ManualKey' = ManualKey /\ FlowActive /\ FlowActive' /\ None \notin Keys
       /\ flow' \in {"Idle", "InFlight", "CancelRequested", "DrainingDeferredInput"}
       /\ flow \notin {"InFlight", "CancelRequested"} => flow' = flow
       /\ flow' \in {"InFlight", "CancelRequested"} => flow \in {"InFlight", "CancelRequested"}
  BY <1>1, <1>2, <1>7, InputAssumption DEF ManualKey, FlowActive, CancelFlow, Loop
<1>13. hotkey' \in {hotkey, None} /\ undo' \subseteq undo
  BY <1>2 DEF HotkeyLeft, UndoLeft
<1>14. /\ ledger \in Seq(Event) /\ Len(ledger) \in Nat /\ Len(ledger') = Len(ledger) + 1
       /\ ledger' \in Seq(Event) /\ ledger'[Len(ledger) + 1] = e /\ ledger' # <<>>
       /\ \A i \in 1..Len(ledger) : ledger'[i] = ledger[i]
  <2>1. ledger \in Seq(Event)
    BY <1>1 DEF Loop
  <2>. QED  BY <1>2, <1>4, <2>1
<1>15. HardLimit \in Nat /\ Len(ledger') <= HardLimit
  BY <1>2, <1>14, InputAssumption
<1>16. Loop'
  <2>1. reported' \in BOOLEAN
    BY <1>2, <1>5
  <2>. QED  BY <1>1, <1>2, <1>9, <1>10, <1>12, <1>13, <1>14, <1>15, <2>1 DEF Loop
<1>17. LedgerInv'
  <2>. SUFFICES ASSUME NEW i \in 1..Len(ledger') PROVE ledger'[i].key # ManualKey'
    BY <1>12 DEF LedgerInv
  <2>1. CASE i = Len(ledger) + 1
    BY <1>2, <1>4, <1>12, <1>14, <2>1
  <2>2. CASE i # Len(ledger) + 1
    BY <1>1, <1>12, <1>14, <2>2 DEF LedgerInv
  <2>. QED  BY <2>1, <2>2
<1>18. HotkeyInv' /\ CapOK' /\ CaptureInv'
  BY <1>1, <1>2, <1>11, <1>12, <1>13 DEF HotkeyInv, CapOK, CaptureInv
<1>19. WordInv'
  <2>1. count'.captures = 0 /\ ~count'.missed => Fits(word', screen')
    BY <1>1, <1>6, <1>9, <1>11 DEF WordInv
  <2>. QED  BY <1>1, <1>2, <1>3, <1>9, <1>11, <1>12, <2>1 DEF WordInv, Fits
<1>20. KeyInv'
  <2>1. SUFFICES ASSUME ~count'.overtaken, ~count'.early
                 PROVE  Balanced(Owed, ledger, phys)' /\ DebtInv' /\ RepeatInv'
    BY DEF KeyInv
  <2>2. /\ Balanced(Owed, ledger, phys) /\ DebtInv /\ RepeatInv
        /\ Owed \in SUBSET Keys /\ phys \in SUBSET Keys
    BY <1>11, <2>1, KeysOfEvent
  <2>3. k \notin cap.suppressed
    BY <1>1, <1>2, CapPasses
  <2>4. Owed' \in SUBSET Keys /\ Owed' \subseteq Owed
    BY <1>2, <1>9, <1>12, <1>13, <2>2 DEF Owed, Debts
  <2>5. Balanced(Owed, ledger', phys')
    <3>. HIDE DEF Owed
    <3>1. Balanced(Owed, Append(ledger, e), Down(phys, e.key, e.value))
      BY <1>4, <1>11, <1>14, <2>2, BalancedAppend
    <3>. QED  BY <1>2, <1>4, <1>10, <3>1
  <2>6. Balanced(Owed, ledger, phys)'
    <3>1. Balanced(Owed', ledger', phys')
      <4>. HIDE DEF Owed
      <4>. QED  BY <1>10, <1>14, <2>2, <2>4, <2>5, BalancedLess
    <3>. QED  BY <3>1
  <2>7. DebtInv'
    <3>1. \A i \in 1..Len(ledger') : ledger'[i].key \notin cap'.suppressed
      BY <1>2, <1>4, <1>14, <2>2, <2>3 DEF DebtInv
    <3>. QED  BY <1>1, <1>2, <1>9, <1>12, <1>13, <2>2, <3>1 DEF DebtInv, Debts, CapOK
  <2>8. RepeatInv'
    <3>1. repeating' \in Keys \cap Separators =>
             ledger'[Len(ledger')].key = repeating' /\ ledger'[Len(ledger')].value # 0
      BY <1>4, <1>10, <1>11, <1>12, <1>14
    <3>2. ASSUME NEW i \in 2..Len(ledger'), ledger'[i].value = 2, ledger'[i].key \in Separators
          PROVE  ledger'[i - 1].key = ledger'[i].key /\ ledger'[i - 1].value # 0
      <4>1. CASE i = Len(ledger) + 1
        <5>1. /\ ledger # <<>> /\ repeating = k /\ k \in Keys \cap Separators
              /\ i - 1 = Len(ledger) /\ i - 1 \in 1..Len(ledger)
          BY <1>4, <1>11, <1>14, <3>2, <4>1
        <5>. QED  BY <1>4, <1>14, <2>2, <4>1, <5>1 DEF RepeatInv
      <4>2. CASE i # Len(ledger) + 1
        <5>1. i \in 2..Len(ledger) /\ i \in 1..Len(ledger) /\ i - 1 \in 1..Len(ledger)
          BY <1>14, <4>2
        <5>. QED  BY <1>14, <2>2, <3>2, <5>1 DEF RepeatInv
      <4>. QED  BY <4>1, <4>2
    <3>3. ASSUME NEW s \in Separators \cap device', NextRepeats(s)'
          PROVE  word'.length = 0 /\ flow' \notin {"InFlight", "CancelRequested"}
      <4>1. ledger'[1].key = s /\ ledger'[1].value = 2
        BY <1>14, <3>3 DEF NextRepeats
      <4>2. NextRepeats(s)
        <5>1. CASE ledger = <<>>
          <6>1. ledger'[1] = e
            BY <1>14, <5>1
          <6>. QED  BY <1>4, <1>11, <4>1, <5>1, <6>1 DEF NextRepeats
        <5>2. CASE ledger # <<>>
          <6>1. ledger'[1] = ledger[1]
            BY <1>14, <5>2
          <6>. QED  BY <4>1, <5>2, <6>1 DEF NextRepeats
        <5>. QED  BY <5>1, <5>2
      <4>3. word.length = 0 /\ flow \notin {"InFlight", "CancelRequested"}
        BY <1>9, <2>2, <3>3, <4>2 DEF RepeatInv
      <4>. QED  BY <1>6, <1>9, <1>12, <4>3
    <3>. QED  BY <3>1, <3>2, <3>3 DEF RepeatInv
  <2>. QED  BY <2>6, <2>7, <2>8
<1>. QED  BY <1>9, <1>11, <1>16, <1>17, <1>18, <1>19, <1>20 DEF Inv

-----------------------------------------------------------------------------
\* The steps that process an event.

LEMMA CapPassesIdle ==
    ASSUME CapOK, NEW k \in Keys, NEW v \in 0..2, ~CaptureTakes(k, v)
    PROVE  ~Capture!IsActive(cap)
<1>. SUFFICES ASSUME Capture!IsActive(cap) PROVE FALSE
  OBVIOUS
<1>1. k \notin cap.suppressed
  BY CapPasses
<1>2. CASE v # 1
  <2>1. Capture!Route(cap, k, v).to = "ForwardDirect"
    BY <1>1, <1>2 DEF Capture!Route, Capture!Direct
  <2>. QED  BY <2>1 DEF CaptureTakes
<1>3. CASE v = 1
  <2>1. Capture!Route(cap, k, v) = Capture!RoutePress(cap, k)
    BY <1>1, <1>3 DEF Capture!Route
  <2>2. Capture!Route(cap, k, v).to \in {"Suppress", "ForwardDirect"}
    BY <2>1 DEF Capture!RoutePress, Capture!Suppress, Capture!Direct
  <2>. QED  BY <2>2 DEF CaptureTakes
<1>. QED  BY <1>2, <1>3

LEMMA ProcessedTypes ==
    ASSUME Inv, profile' = profile, NEW k \in Keys, NEW v \in 0..2, Processed(k, v)
    PROVE  /\ device' \subseteq Keys /\ mods' \subseteq Keys \cap Modifiers
           /\ hotkey' \in {None, profile.selected.key} /\ selected' \in BOOLEAN
           /\ undo' \subseteq {ManualKey} /\ HotkeyInv' /\ CapOK' /\ Settled'
           /\ flow' \in {"Idle", "InFlight", "CancelRequested", "DrainingDeferredInput"}
           /\ device' \in {device, Down(device, k, v)}
           /\ k # ManualKey => flow' = flow
<1>1. Loop /\ HotkeyInv /\ CapOK /\ None \notin Keys
  BY InputAssumption DEF Inv
<1>2. /\ Settled' /\ mods' = ModsAfter(k, v) /\ cap' = cap
      /\ Typing(k, v) \/ Selecting(k, v) \/ Correcting(k, v)
  BY DEF Processed
<1>3. CapOK' /\ mods' \subseteq Keys \cap Modifiers
  BY <1>1, <1>2 DEF CapOK, ModsAfter, Down, Loop
<1>4. CASE Typing(k, v)
  BY <1>1, <1>2, <1>3, <1>4
     DEF Loop, HotkeyInv, Typing, PassedOn, Kept, Down, HotkeyLeft, UndoLeft
<1>5. CASE Selecting(k, v)
  BY <1>1, <1>2, <1>3, <1>5 DEF Loop, HotkeyInv, Selecting, UndoLeft
<1>6. CASE Correcting(k, v)
  BY <1>1, <1>2, <1>3, <1>6 DEF Loop, HotkeyInv, Correcting, HotkeyLeft
<1>. QED  BY <1>2, <1>4, <1>5, <1>6

\* What is owed after an event was processed.
LEMMA ProcessedOwes ==
    ASSUME Inv, profile' = profile, NEW k \in Keys, NEW v \in 0..2,
           Processed(k, v), Proceeds(k, v), k \notin cap.suppressed, DebtInv,
           v = 1 => k \notin Owed,
           v = 2 /\ k \in Separators \cap device => word.length = 0
    PROVE  /\ Owed' \in SUBSET Keys /\ Owed' \subseteq Owed \cup {k} /\ (v = 0 => k \notin Owed')
           /\ Debts' \cap device' = {}
           /\ cap'.suppressed \cap ({hotkey', separator'} \cup undo') = {}
           /\ k \in Separators \cap device' /\ v # 0 => word'.length = 0
<1>1. /\ Loop /\ Settled /\ HotkeyInv /\ CapOK /\ None \notin Keys
      /\ k \notin device \/ k \notin Debts
  BY InputAssumption DEF Inv, DebtInv
<1>2. /\ cap' = cap
      /\ Typing(k, v) \/ Selecting(k, v) \/ Correcting(k, v)
  BY DEF Processed
<1>3. /\ v = 0 => separator # k
      /\ v # 1 => hotkey # k /\ k \notin undo
  BY DEF Proceeds, Suppresses, HotkeySwallows, UndoSwallows, SeparatorSwallows
<1>4. device' \subseteq Keys
  BY ProcessedTypes
<1>5. /\ Debts \cap device = {}
      /\ cap.suppressed \cap ({hotkey, separator} \cup undo) = {}
      /\ cap.suppressed \subseteq Keys
  BY <1>1 DEF DebtInv, CapOK
<1>6. CASE Typing(k, v) /\ PassedOn(k, v)
  <2>1. /\ device' = Down(device, k, v) /\ separator' = separator
        /\ v # 0 /\ k \in Separators => word'.length = 0
        /\ hotkey' = HotkeyLeft(k) /\ undo' = UndoLeft(k)
    BY <1>6 DEF Typing, PassedOn
  <2>2. hotkey' \in {hotkey, None} \ {k} /\ undo' \subseteq undo /\ k \notin undo'
    BY <1>1, <2>1 DEF HotkeyLeft, UndoLeft
  <2>3. Debts' \subseteq Debts
    BY <1>1, <1>2, <2>1, <2>2 DEF Debts
  <2>4. Owed' \subseteq Owed \cup {k}
    BY <2>1, <2>3 DEF Owed, Down
  <2>5. v = 0 => k \notin Owed'
    BY <1>1, <1>2, <1>3, <2>1, <2>2 DEF Owed, Debts, Down
  <2>6. Debts' \cap device' = {}
    BY <1>5, <2>1, <2>3 DEF Owed, Down
  <2>7. cap'.suppressed \cap ({hotkey', separator'} \cup undo') = {}
    BY <1>1, <1>2, <1>5, <2>1, <2>2
  <2>. QED  BY <1>4, <2>1, <2>4, <2>5, <2>6, <2>7 DEF Owed, Debts
<1>7. CASE Typing(k, v) /\ Kept(k, v)
  <2>1. /\ device' = device /\ v # 0 /\ (v = 1 \/ word.length # 0)
        /\ separator' = separator \/ (separator' = k /\ k \in Separators)
        /\ hotkey' = HotkeyLeft(k) /\ undo' = UndoLeft(k)
    BY <1>7 DEF Typing, Kept
  <2>2. hotkey' \in {hotkey, None} \ {k} /\ undo' \subseteq undo /\ k \notin undo'
    BY <1>1, <2>1 DEF HotkeyLeft, UndoLeft
  <2>3. Debts' \subseteq Debts \cup {k}
    BY <1>1, <1>2, <2>1, <2>2 DEF Debts
  <2>4. k \in Separators => k \notin device
    BY <2>1 DEF Owed
  <2>5. k \in Debts' => k \in Debts \/ k \in Separators
    BY <1>2, <2>1, <2>2 DEF Debts
  <2>6. Debts' \cap device' = {}
    BY <1>5, <2>1, <2>3, <2>4, <2>5
  <2>7. cap'.suppressed \cap ({hotkey', separator'} \cup undo') = {}
    BY <1>1, <1>2, <1>5, <2>1, <2>2
  <2>. QED  BY <1>4, <2>1, <2>3, <2>4, <2>6, <2>7 DEF Owed, Debts
<1>8. CASE Selecting(k, v)
  BY <1>1, <1>2, <1>4, <1>5, <1>8 DEF Selecting, Owed, Debts, UndoLeft
<1>9. CASE Correcting(k, v)
  BY <1>1, <1>2, <1>4, <1>5, <1>9 DEF Correcting, Owed, Debts, HotkeyLeft
<1>. QED  BY <1>2, <1>6, <1>7, <1>8, <1>9 DEF Typing

LEMMA ProcessKeeps ==
    ASSUME Inv, profile' = profile, NEW k \in Keys, NEW v \in 0..2,
           Taken(k, v), ~FlowActive, ~CaptureTakes(k, v), Process(k, v), UNCHANGED queue
    PROVE  Inv'
<1>1. /\ Loop /\ Settled /\ CapOK /\ count \in Counts /\ TypeOK
      /\ CaptureInv /\ LedgerInv /\ HotkeyInv /\ KeyInv /\ WordInv
  BY InvType DEF Inv
<1>2. /\ Processed(k, v) /\ Proceeds(k, v) /\ cap' = cap
      /\ barrier' = barrier /\ ledger' = ledger /\ reported' = reported
      /\ Typing(k, v) \/ Selecting(k, v) \/ Correcting(k, v)
  BY <1>1, ProcessDoes DEF Process, queue, Processed
<1>3. /\ device' \subseteq Keys /\ mods' \subseteq Keys \cap Modifiers
      /\ hotkey' \in {None, profile.selected.key} /\ selected' \in BOOLEAN
      /\ undo' \subseteq {ManualKey} /\ HotkeyInv' /\ CapOK' /\ Settled'
      /\ flow' \in {"Idle", "InFlight", "CancelRequested", "DrainingDeferredInput"}
      /\ device' \in {device, Down(device, k, v)}
      /\ k # ManualKey => flow' = flow
  BY <1>2, ProcessedTypes
<1>4. /\ backend' = backend /\ phys' \in SUBSET Keys /\ repeating' \in phys' \cup {None}
      /\ phys' = Down(phys, k, v)
      /\ v = 1 => repeating' = k
      /\ v = 0 => repeating' = None
      /\ v = 2 => repeating' = repeating
      /\ v # 0 => k \in phys'
  BY TakenDoes
<1>5. /\ count' \in Counts /\ count'.captures = count.captures
      /\ count'.overtaken = count.overtaken
      /\ count'.early <=> count.early \/ IsEarly(k, v)
      /\ count'.missed <=> count.missed \/ IsMissed(k, v) \/ (~FlowActive /\ IsUntracked(k, v))
      /\ v = 1 => k \notin phys
      /\ v = 2 => k \in phys /\ repeating = k
  BY DeliveredDoes DEF Taken
<1>6. ManualKey' = ManualKey /\ None \notin Keys /\ ledger = <<>> /\ Len(<<>>) = 0
      /\ flow = "Idle" /\ flow' \in {"Idle", "InFlight"}
  <2>1. Len(<<>>) = 0
    OBVIOUS
  <2>. QED  BY <1>1, <1>2, <2>1, InputAssumption
            DEF ManualKey, LedgerInv, FlowActive, Typing, Selecting, Correcting
<1>7. Loop'
  BY <1>1, <1>2, <1>3, <1>4, <1>6 DEF Loop
<1>8. LedgerInv'
  BY <1>1, <1>2, <1>6 DEF LedgerInv
<1>9. CaptureInv'
  <2>1. ~Capture!IsActive(cap)
    BY <1>1, CapPassesIdle
  <2>2. Capture!IsActive(cap)' <=> Capture!IsActive(cap)
    BY <1>2
  <2>. QED  BY <1>1, <1>2, <1>5, <2>1, <2>2 DEF CaptureInv
<1>10. WordInv'
  <2>2. count'.captures = 0 => device' \cap Modifiers \subseteq mods'
    <3>1. mods \subseteq Modifiers
      BY <1>1 DEF Loop
    <3>. QED  BY <1>1, <1>2, <1>3, <1>5, <3>1 DEF WordInv, Processed, ModsAfter, Down,
                  Typing, PassedOn, Kept, Selecting, Correcting
  <2>3. SUFFICES ASSUME count'.captures = 0, ~count'.missed
                 PROVE  /\ Fits(word', screen')
                        /\ flow' \in {"InFlight", "CancelRequested"} /\ ~session'.invalidated =>
                              session'.length <= screen'.current
    BY <2>2 DEF WordInv, Fits
  <2>4. Fits(word', screen')
    BY <1>1, <1>2, <1>5, <2>3 DEF WordInv, Processed
  <2>5. flow' = "InFlight" => session'.length = word'.length
    BY <1>2, <1>6 DEF Typing, Selecting, Correcting
  <2>. QED  BY <1>6, <2>4, <2>5 DEF Fits
<1>11. KeyInv'
  <2>1. SUFFICES ASSUME ~count'.overtaken, ~count'.early
                 PROVE  Balanced(Owed, ledger, phys)' /\ DebtInv' /\ RepeatInv'
    BY DEF KeyInv
  <2>2. /\ Balanced(Owed, ledger, phys) /\ DebtInv /\ RepeatInv
        /\ Owed \in SUBSET Keys /\ phys \in SUBSET Keys /\ ledger \in Seq(Event)
        /\ Owed \subseteq phys
    BY <1>5, <1>6, <2>1, KeysOfEvent
  <2>3. /\ v = 1 => k \notin Owed
        /\ k \notin cap.suppressed
        /\ v = 2 /\ k \in Separators \cap device => word.length = 0
    BY <1>1, <1>5, <1>6, <2>2, CapPasses DEF RepeatInv, NextRepeats
  <2>4. /\ Owed' \in SUBSET Keys /\ Owed' \subseteq Owed \cup {k} /\ (v = 0 => k \notin Owed')
        /\ Debts' \cap device' = {}
        /\ cap'.suppressed \cap ({hotkey', separator'} \cup undo') = {}
        /\ k \in Separators \cap device' /\ v # 0 => word'.length = 0
    <3>. HIDE DEF Owed
    <3>. QED  BY <1>2, <2>2, <2>3, ProcessedOwes
  <2>5. Balanced(Owed, ledger, phys)'
    <3>1. Owed' \subseteq phys'
      BY <1>4, <2>2, <2>4 DEF Down
    <3>2. Balanced(Owed', <<>>, phys')
      <4>. HIDE DEF Owed
      <4>. QED  BY <2>4, <3>1, BalancedWhenEmpty
    <3>3. ledger' = <<>>
      BY <1>2, <1>6
    <3>. QED  BY <3>2, <3>3
  <2>6. DebtInv'
    <3>1. FlowActive' => ManualKey' \notin device'
      <4>1. FlowActive' => Correcting(k, v)
        BY <1>2, <1>6 DEF FlowActive, Typing, Selecting
      <4>. QED  BY <1>6, <2>3, <4>1 DEF Correcting, Owed
    <3>. QED  BY <1>2, <1>6, <2>4, <3>1 DEF DebtInv
  <2>7. RepeatInv'
    <3>1. ASSUME NEW s \in Separators \cap device', NextRepeats(s)'
          PROVE  word'.length = 0 /\ flow' \notin {"InFlight", "CancelRequested"}
      <4>1. repeating' = s /\ s \in Keys
        BY <1>2, <1>3, <1>6, <3>1 DEF NextRepeats
      <4>2. s = k /\ v # 0
        BY <1>4, <1>5, <1>6, <4>1
      <4>3. flow' = flow
        BY <1>1, <1>3, <3>1, <4>2, KeysAreTold
      <4>. QED  BY <1>6, <2>4, <3>1, <4>2, <4>3
    <3>. QED  BY <1>2, <1>6, <3>1 DEF RepeatInv
  <2>. QED  BY <2>5, <2>6, <2>7
<1>. QED  BY <1>3, <1>5, <1>7, <1>8, <1>9, <1>10, <1>11 DEF Inv

\* What handling the head of the ledger does, whether it is kept from the
\* desktop or processed.
LEMMA HeadTypes ==
    ASSUME Inv, profile' = profile, NEW k \in Keys, NEW v \in 0..2, k # ManualKey,
           Suppressed(k, v) \/ Process(k, v)
    PROVE  /\ device' \subseteq Keys /\ mods' \subseteq Keys \cap Modifiers
           /\ hotkey' \in {None, profile.selected.key} /\ selected' \in BOOLEAN
           /\ undo' \subseteq {ManualKey} /\ HotkeyInv' /\ CapOK' /\ Settled'
           /\ flow' = flow /\ cap' = cap
           /\ device \cap Modifiers \subseteq mods => device' \cap Modifiers \subseteq mods'
           /\ Fits(word, screen) /\ device \cap Modifiers \subseteq mods /\ ~IsUntracked(k, v)
                => Fits(word', screen')
<1>1. Loop /\ Settled /\ TypeOK /\ HotkeyInv /\ CapOK /\ None \notin Keys
  BY InvType, InputAssumption DEF Inv
<1>2. CASE Suppressed(k, v)
  <2>1. KeptBack(k, v)
    BY <1>1, <1>2, SuppressedDoes
  <2>2. /\ Settled' /\ device' = device /\ mods' = mods /\ cap' = cap /\ flow' = flow
        /\ hotkey' \in {hotkey, None} /\ undo' \subseteq undo /\ selected' \in BOOLEAN
        /\ Fits(word, screen) => Fits(word', screen')
    BY <2>1 DEF KeptBack
  <2>. QED  BY <1>1, <2>2 DEF Loop, HotkeyInv, CapOK
<1>3. CASE Process(k, v)
  <2>1. Processed(k, v)
    BY <1>1, <1>3, ProcessDoes
  <2>2. /\ device' \subseteq Keys /\ mods' \subseteq Keys \cap Modifiers
        /\ hotkey' \in {None, profile.selected.key} /\ selected' \in BOOLEAN
        /\ undo' \subseteq {ManualKey} /\ HotkeyInv' /\ CapOK' /\ Settled'
        /\ flow' = flow
    BY <2>1, ProcessedTypes
  <2>3. device \cap Modifiers \subseteq mods => device' \cap Modifiers \subseteq mods'
    <3>1. mods \subseteq Modifiers
      BY <1>1 DEF Loop
    <3>. QED  BY <2>1, <3>1 DEF Processed, ModsAfter, Down, Typing, PassedOn, Kept, Selecting,
                                Correcting
  <2>. QED  BY <2>1, <2>2, <2>3 DEF Processed
<1>. QED  BY <1>2, <1>3

LEMMA HeadOwes ==
    ASSUME Inv, profile' = profile, NEW k \in Keys, NEW v \in 0..2,
           Suppressed(k, v) \/ Process(k, v), k \notin cap.suppressed, DebtInv,
           v = 1 => k \notin Owed,
           v = 2 /\ k \in Separators \cap device => word.length = 0
    PROVE  /\ Owed' \in SUBSET Keys /\ Owed' \subseteq Owed \cup {k} /\ (v = 0 => k \notin Owed')
           /\ Debts' \cap device' = {}
           /\ cap'.suppressed \cap ({hotkey', separator'} \cup undo') = {}
           /\ k \in Separators \cap device' /\ v # 0 => word'.length = 0
<1>1. Loop /\ Settled /\ TypeOK /\ HotkeyInv /\ CapOK /\ None \notin Keys
  BY InvType, InputAssumption DEF Inv
<1>2. CASE Suppressed(k, v)
  <2>1. KeptBack(k, v)
    BY <1>1, <1>2, SuppressedDoes
  <2>2. /\ device' = device /\ cap' = cap
        /\ hotkey' \in {hotkey, None} /\ separator' \in {separator, None} /\ undo' \subseteq undo
        /\ v = 0 => k \notin {hotkey', separator'} \cup undo'
    BY <2>1 DEF KeptBack
  <2>3. k \in Debts
    BY <2>1 DEF KeptBack, Suppresses, HotkeySwallows, UndoSwallows, SeparatorSwallows, Debts
  <2>4. Debts \cap device = {} /\ cap.suppressed \cap ({hotkey, separator} \cup undo) = {}
    BY DEF DebtInv
  <2>5. Debts' \subseteq Debts
    BY <1>1, <2>2 DEF Debts
  <2>6. device \subseteq Keys /\ Debts \subseteq Keys /\ cap.suppressed \subseteq Keys
    BY <1>1 DEF Loop, Debts, CapOK
  <2>7. v = 0 => k \notin Owed'
    BY <2>2, <2>3, <2>4 DEF Owed, Debts
  <2>8. cap'.suppressed \cap ({hotkey', separator'} \cup undo') = {}
    BY <1>1, <2>2, <2>4, <2>6
  <2>. QED  BY <2>2, <2>3, <2>4, <2>5, <2>6, <2>7, <2>8 DEF Owed
<1>3. CASE Process(k, v)
  <2>1. Processed(k, v) /\ Proceeds(k, v)
    BY <1>1, <1>3, ProcessDoes DEF Process
  <2>. HIDE DEF Owed
  <2>. QED  BY <2>1, ProcessedOwes
<1>. QED  BY <1>2, <1>3

LEMMA DrainOneKeeps ==
    ASSUME Inv, profile' = profile, DrainOne
    PROVE  Inv'
<1>. DEFINE e == Head(ledger)
            k == e.key
            v == e.value
            m == count.missed \/ IsUntracked(k, v)
<1>1. /\ Loop /\ Settled /\ CapOK /\ count \in Counts /\ TypeOK
      /\ CaptureInv /\ LedgerInv /\ HotkeyInv /\ KeyInv /\ WordInv /\ None \notin Keys
  BY InvType, InputAssumption DEF Inv
<1>2. /\ backend = "ready" /\ flow = "DrainingDeferredInput" /\ ledger # <<>>
      /\ Suppressed(k, v) \/ Process(k, v)
      /\ barrier' = BarrierAfter(e)
      /\ ledger' = Tail(ledger)
      /\ UNCHANGED <<backend, phys, repeating, reported>>
  BY DEF DrainOne, Ready, Draining, input, AcknowledgeHead
<1>3. count' = [count EXCEPT !.missed = m]
  BY Zenon DEF DrainOne
<1>4. /\ ledger \in Seq(Event) /\ Len(ledger) \in Nat \ {0} /\ e = ledger[1]
      /\ Tail(ledger) \in Seq(Event) /\ Len(Tail(ledger)) = Len(ledger) - 1
      /\ \A i \in 1..(Len(ledger) - 1) : Tail(ledger)[i] = ledger[i + 1]
  <2>1. ledger \in Seq(Event)
    BY <1>1 DEF Loop
  <2>. QED  BY <1>2, <2>1
<1>5. k \in Keys /\ v \in 0..2 /\ e.fence \in BOOLEAN /\ k # ManualKey
  BY <1>1, <1>4, EventFields DEF LedgerInv
<1>6. /\ count' \in Counts /\ count'.captures = count.captures
      /\ count'.overtaken = count.overtaken /\ count'.early = count.early
      /\ count'.missed <=> count.missed \/ IsUntracked(k, v)
  <2>1. m \in BOOLEAN /\ (m <=> count.missed \/ IsUntracked(k, v))
    BY <1>1, CountFields DEF IsUntracked
  <2>. HIDE DEF m
  <2>. QED  BY <1>1, <1>3, <2>1 DEF Counts
<1>7. BarrierAfter(e) \in {"none", "armed", "over", "stuck"}
  BY <1>1, <1>5 DEF BarrierAfter, FrontBarrier, Loop
<1>. HIDE DEF k, v, e, m
<1>8. /\ device' \subseteq Keys /\ mods' \subseteq Keys \cap Modifiers
      /\ hotkey' \in {None, profile.selected.key} /\ selected' \in BOOLEAN
      /\ undo' \subseteq {ManualKey} /\ HotkeyInv' /\ CapOK' /\ Settled'
      /\ flow' = flow /\ cap' = cap
      /\ device \cap Modifiers \subseteq mods => device' \cap Modifiers \subseteq mods'
      /\ Fits(word, screen) /\ device \cap Modifiers \subseteq mods /\ ~IsUntracked(k, v)
           => Fits(word', screen')
  BY <1>2, <1>5, HeadTypes
<1>9. ManualKey' = ManualKey /\ FlowActive /\ FlowActive'
      /\ flow' \notin {"InFlight", "CancelRequested"}
  BY <1>2, <1>8 DEF ManualKey, FlowActive
<1>10. Loop'
  <2>1. Len(ledger') <= HardLimit
    BY <1>1, <1>2, <1>4, InputAssumption DEF Loop
  <2>. QED  BY <1>1, <1>2, <1>4, <1>7, <1>8, <1>9, <2>1 DEF Loop
<1>11. LedgerInv' /\ CaptureInv'
  <2>1. \A i \in 1..Len(ledger') : ledger'[i].key # ManualKey
    BY <1>1, <1>2, <1>4 DEF LedgerInv
  <2>. QED  BY <1>1, <1>6, <1>8, <1>9, <2>1 DEF LedgerInv, CaptureInv
<1>12. WordInv'
  BY <1>1, <1>6, <1>8, <1>9 DEF WordInv, Fits
<1>13. KeyInv'
  <2>1. SUFFICES ASSUME ~count'.overtaken, ~count'.early
                 PROVE  Balanced(Owed, ledger, phys)' /\ DebtInv' /\ RepeatInv'
    BY DEF KeyInv
  <2>2. /\ Balanced(Owed, ledger, phys) /\ DebtInv /\ RepeatInv
        /\ Owed \in SUBSET Keys /\ phys \in SUBSET Keys
    BY <1>6, <2>1, KeysOfEvent
  <2>3. v = 1 => k \notin Owed
    <3>. HIDE DEF Owed
    <3>. QED  BY <1>2, <1>4, <2>2, HeadPressIsNew DEF k, v
  <2>4. k \notin cap.suppressed
    BY <1>4, <2>2 DEF DebtInv, k
  <2>5. v = 2 /\ k \in Separators \cap device => word.length = 0
    BY <1>2, <1>4, <2>2 DEF RepeatInv, NextRepeats, k, v
  <2>6. /\ Owed' \in SUBSET Keys /\ Owed' \subseteq Owed \cup {k} /\ (v = 0 => k \notin Owed')
        /\ Debts' \cap device' = {}
        /\ cap'.suppressed \cap ({hotkey', separator'} \cup undo') = {}
        /\ k \in Separators \cap device' /\ v # 0 => word'.length = 0
    <3>. HIDE DEF Owed
    <3>. QED  BY <1>2, <1>5, <2>2, <2>3, <2>4, <2>5, HeadOwes
  <2>7. Balanced(Owed, ledger, phys)'
    <3>1. Balanced(Owed', Tail(ledger), phys)
      <4>1. Owed' \subseteq Owed \cup {ledger[1].key}
            /\ (ledger[1].value = 0 => ledger[1].key \notin Owed')
        BY <1>4, <2>6 DEF k, v
      <4>. HIDE DEF Owed
      <4>. QED  BY <1>2, <1>4, <2>2, <2>6, <4>1, BalancedTail
    <3>. QED  BY <1>2, <3>1
  <2>8. DebtInv'
    <3>1. \A i \in 1..Len(ledger') : ledger'[i].key \notin cap'.suppressed
      BY <1>2, <1>4, <1>8, <2>2 DEF DebtInv
    <3>2. ManualKey' \notin device'
      <4>1. ManualKey \notin device
        BY <1>9, <2>2 DEF DebtInv
      <4>2. device' \subseteq device \cup {k}
        <5>1. CASE Suppressed(k, v)
          BY <5>1, <1>1, <1>5, SuppressedDoes DEF KeptBack
        <5>2. CASE Process(k, v)
          <6>1. Processed(k, v)
            BY <1>1, <1>5, <5>2, ProcessDoes
          <6>2. device' \in {device, Down(device, k, v)}
            BY <1>5, <6>1, ProcessedTypes
          <6>. QED  BY <6>2 DEF Down
        <5>. QED  BY <1>2, <5>1, <5>2
      <4>. QED  BY <1>5, <1>9, <4>1, <4>2
    <3>. QED  BY <2>6, <3>1, <3>2 DEF DebtInv
  <2>9. RepeatInv'
    <3>1. ledger' # <<>> /\ repeating' \in Keys \cap Separators =>
             ledger'[Len(ledger')].key = repeating' /\ ledger'[Len(ledger')].value # 0
      <4>. SUFFICES ASSUME ledger' # <<>>, repeating' \in Keys \cap Separators
                    PROVE  ledger'[Len(ledger')].key = repeating'
                           /\ ledger'[Len(ledger')].value # 0
        OBVIOUS
      <4>1. Len(ledger') \in 1..(Len(ledger) - 1) /\ ledger'[Len(ledger')] = ledger[Len(ledger)]
        BY <1>2, <1>4
      <4>. QED  BY <1>2, <2>2, <4>1 DEF RepeatInv
    <3>2. ASSUME NEW i \in 2..Len(ledger'), ledger'[i].value = 2, ledger'[i].key \in Separators
          PROVE  ledger'[i - 1].key = ledger'[i].key /\ ledger'[i - 1].value # 0
      <4>1. /\ i + 1 \in 2..Len(ledger) /\ ledger'[i] = ledger[i + 1]
            /\ ledger'[i - 1] = ledger[(i + 1) - 1]
        BY <1>2, <1>4
      <4>. QED  BY <2>2, <3>2, <4>1 DEF RepeatInv
    <3>3. ASSUME NEW s \in Separators \cap device', NextRepeats(s)'
          PROVE  word'.length = 0 /\ flow' \notin {"InFlight", "CancelRequested"}
      <4>1. s \in Keys
        BY <1>8
      <4>2. s = k /\ v # 0
        <5>1. CASE ledger' = <<>>
          <6>0. repeating = s
            BY <1>2, <3>3, <5>1 DEF NextRepeats
          <6>1. repeating = s /\ Len(ledger) = 1
            <7>1. Len(ledger') = 0
              BY <5>1
            <7>. QED  BY <1>2, <1>4, <6>0, <7>1
          <6>. QED  BY <1>2, <1>4, <2>2, <4>1, <6>1 DEF RepeatInv, k, v
        <5>2. CASE ledger' # <<>>
          <6>1. ledger'[1].key = s /\ ledger'[1].value = 2
            BY <3>3, <5>2 DEF NextRepeats
          <6>2. 2 \in 2..Len(ledger) /\ ledger'[1] = ledger[2] /\ 2 - 1 = 1
            BY <1>2, <1>4, <5>2
          <6>3. ledger[2].key = s /\ ledger[2].value = 2 /\ s \in Separators
            BY <6>1, <6>2
          <6>4. ledger[2 - 1].key = ledger[2].key /\ ledger[2 - 1].value # 0
            BY <2>2, <6>2, <6>3 DEF RepeatInv
          <6>. QED  BY <1>4, <6>2, <6>3, <6>4 DEF k, v
        <5>. QED  BY <5>1, <5>2
      <4>. QED  BY <1>9, <2>6, <3>3, <4>2
    <3>. QED  BY <3>1, <3>2, <3>3 DEF RepeatInv
  <2>. QED  BY <2>7, <2>8, <2>9
<1>. QED  BY <1>6, <1>8, <1>10, <1>11, <1>12, <1>13 DEF Inv

LEMMA OverflowKeeps ==
    ASSUME Inv, profile' = profile, NEW k \in Keys, NEW v \in 0..2, Overflow(k, v)
    PROVE  Inv'
<1>1. Delivered(k, v) /\ Stops("exited")
  BY DEF Overflow
<1>2. /\ count' \in Counts /\ count'.captures = count.captures
      /\ count'.overtaken = count.overtaken
  BY <1>1, DeliveredDoes
<1>. QED  BY <1>1, <1>2, StopsKeeps DEF Inv, CaptureInv

LEMMA HandledKeeps ==
    ASSUME Inv, profile' = profile, NEW k \in Keys, NEW v \in 0..2, Handled(k, v)
    PROVE  Inv'
<1>1. Taken(k, v)
  BY DEF Handled, Taken
<1>2. \/ Suppressed(k, v) /\ UNCHANGED queue
      \/ RouteCapture(k, v) /\ UNCHANGED queue
      \/ HotkeyDuringFlow(k, v) /\ UNCHANGED queue
      \/ ~FlowActive /\ ~CaptureTakes(k, v) /\ Process(k, v) /\ UNCHANGED queue
      \/ Enqueue(k, v)
  BY DEF Handled
<1>. QED  BY <1>1, <1>2, SuppressedKeeps, RouteCaptureKeeps, HotkeyDuringFlowKeeps,
             ProcessKeeps, EnqueueKeeps

-----------------------------------------------------------------------------

LEMMA Initially == Init => Inv
<1>. SUFFICES ASSUME Init PROVE Inv
  OBVIOUS
<1>1. /\ profile \in Profiles /\ backend = "ready"
      /\ phys = {} /\ repeating = None /\ device = {} /\ mods = {}
      /\ word = NoWord /\ screen = NoText
      /\ separator = None /\ pending = None
      /\ hotkey = None /\ selected = FALSE /\ undo = {} /\ latched = FALSE
      /\ cap = Capture!Idle
      /\ flow = "Idle" /\ session = NoSession /\ barrier = "none"
      /\ ledger = <<>> /\ reported = FALSE
      /\ count = [events |-> 0, invalidations |-> 0, captures |-> 0, failures |-> 0,
                  overtaken |-> FALSE, early |-> FALSE, missed |-> FALSE]
  BY DEF Init
<1>. DEFINE off == FALSE
<1>2. off \in BOOLEAN /\ ~off /\ 0 \in 0..MaxWord /\ HardLimit \in Nat /\ None \notin Keys
  BY BoundIsNat, InputAssumption
<1>3. <<>> \in Seq(Event) /\ Len(<<>>) = 0
  OBVIOUS
<1>4. NoSession = [length |-> 0, invalidated |-> off, seen |-> off, retry |-> off,
                   observed |-> {}, shortcut |-> None]
  BY DEF NoSession
<1>5. count = [events |-> 0, invalidations |-> 0, captures |-> 0, failures |-> 0,
               overtaken |-> off, early |-> off, missed |-> off]
  BY <1>1
<1>6. selected \in BOOLEAN /\ latched \in BOOLEAN /\ reported \in BOOLEAN
  BY <1>1
<1>. HIDE DEF off
<1>7. NoSession \in Sessions
  BY <1>2, <1>4 DEF Sessions
<1>8. count \in Counts /\ ~count.overtaken
  BY <1>2, <1>5 DEF Counts
<1>9. Loop
  <2>1. ledger \in Seq(Event) /\ Len(ledger) <= HardLimit
    <3>1. Len(ledger) = 0
      BY <1>1, <1>3
    <3>. QED  BY <1>1, <1>2, <1>3, <3>1
  <2>. QED  BY <1>1, <1>6, <2>1 DEF Loop
<1>10. Settled
  <2>1. NoText \in Screens
    BY BoundIsNat DEF NoText, Screens
  <2>2. NoWord \in Words /\ Shape(NoWord, NoText)
    BY <2>1, NoWordFits
  <2>. QED  BY <1>1, <1>6, <1>7, <2>1, <2>2 DEF Settled, Pendings
<1>11. CapOK /\ cap.suppressed = {} /\ ~Capture!IsActive(cap)
  BY <1>1 DEF CapOK, Capture!Idle, Capture!IsActive, Capture!Phases
<1>12. LedgerInv /\ HotkeyInv /\ CaptureInv
  BY <1>1, <1>2, <1>3, <1>8, <1>11 DEF LedgerInv, HotkeyInv, CaptureInv, FlowActive
<1>13. KeyInv
  <2>1. Debts = {} /\ Owed = {}
    BY <1>1, <1>2, <1>11 DEF Debts, Owed
  <2>2. Balanced(Owed, ledger, phys)
    BY <1>1, <1>3, <2>1 DEF Balanced, HeldAt, ReleasedIn
  <2>3. DebtInv /\ RepeatInv
    BY <1>1, <1>3, <1>11, <2>1 DEF DebtInv, RepeatInv, FlowActive
  <2>. QED  BY <2>2, <2>3 DEF KeyInv
<1>14. WordInv
  BY <1>1 DEF WordInv, Fits, NoWord, NoText
<1>. QED  BY <1>8, <1>9, <1>10, <1>11, <1>12, <1>13, <1>14 DEF Inv

LEMMA StepKeeps == Inv /\ [Next]_vars => Inv'
<1>. SUFFICES ASSUME Inv, [Next]_vars PROVE Inv'
  OBVIOUS
<1>1. ASSUME NEW k \in Keys, Step(Press(k)) \/ Step(Repeat(k)) \/ Step(Release(k)) PROVE Inv'
  <2>1. profile' = profile /\ \E v \in 0..2 : Handled(k, v)
    BY <1>1 DEF Step, Press, Repeat, Release
  <2>. QED  BY <2>1, HandledKeeps
<1>2. ASSUME NEW k \in Keys, NEW v \in 0..2, Step(Overflow(k, v)) PROVE Inv'
  BY <1>2, OverflowKeeps DEF Step
<1>3. CASE Step(Succeeded) \/ Step(Cancelled) \/ Step(Failed)
  BY <1>3, SucceededKeeps, CancelledKeeps, FailedKeeps DEF Step
<1>4. CASE Step(DrainOne) \/ Step(BarrierOver) \/ Step(DrainDone)
  BY <1>4, DrainOneKeeps, BarrierOverKeeps, DrainDoneKeeps DEF Step
<1>5. ASSUME NEW setup \in BOOLEAN, Step(Invalidate(setup)) PROVE Inv'
  BY <1>5, InvalidateKeeps DEF Step
<1>6. CASE Step(CaptureStart) \/ Step(CaptureEnd) \/ Step(CaptureExpire)
  BY <1>6, CaptureKeeps DEF Step
<1>7. CASE Step(Fail) \/ Step(Recover)
  BY <1>7, FailKeeps, RecoverKeeps DEF Step
<1>8. CASE UNCHANGED vars
  BY <1>8, StutterKeeps
<1>. QED  BY <1>1, <1>2, <1>3, <1>4, <1>5, <1>6, <1>7, <1>8 DEF Next

\* Whatever the events and their order, the ledger leads from the keys that the
\* desktop and the service have as down to those that are down, nothing is owed
\* twice, a separator that is held has ended its word, and what is tracked of the
\* word is on the screen (handle_key_event, drain_one_deferred_input_event).
THEOREM Invariance == Spec => []Inv
<1>. QED  BY Initially, StepKeeps, PTL DEF Spec

\* Every variable has its type: the ledger never grows past its hard limit, a
\* hotkey owes the release of its own key only, and the key that repeats is down.
THEOREM TypeCorrectness == Spec => []TypeOK
<1>1. Inv => TypeOK
  BY InvType
<1>. QED  BY <1>1, Invariance, PTL

\* At rest no key is left down on the desktop that is up on the keyboard, and
\* every press that was kept from the desktop is of a key that is still held,
\* however the flow, the hotkeys, separators and captures came in between
\* (handle_key_event, DeferredInputLedger).
THEOREM NoStuckKeys == Spec => []NoStuckKey
<1>1. ASSUME Inv PROVE NoStuckKey
  <2>. SUFFICES ASSUME AtRest, ~count.overtaken, ~count.early
                PROVE  device \subseteq phys /\ Debts \subseteq phys \ device
    BY DEF NoStuckKey
  <2>1. ledger = <<>>
    BY <1>1 DEF Inv, LedgerInv, AtRest, FlowActive
  <2>2. DebtInv /\ Owed \subseteq phys
    BY <1>1, <2>1, KeysOfEvent
  <2>. QED  BY <2>2 DEF Owed, DebtInv
<1>. QED  BY <1>1, Invariance, PTL

\* What a correction would erase is before the cursor, however the word was
\* typed, committed, corrected and restored
\* (apply_word_tracking_event_and_forward).
THEOREM WordsAreOnScreen == Spec => []WordIsOnScreen
<1>1. Inv => WordIsOnScreen
  BY DEF Inv, WordInv, WordIsOnScreen, Fits
<1>. QED  BY <1>1, Invariance, PTL

\* While a flow is active nothing reaches the desktop but the head of the
\* ledger (enqueue_deferred_physical_input_event).
THEOREM LedgerOrder == Spec => NothingOvertakesTheLedger
<1>1. ASSUME Inv, [Next]_vars, flow # "Idle", ~count.overtaken, Ready', device' # device
      PROVE  /\ Draining /\ ledger # <<>> /\ ledger' = Tail(ledger)
             /\ device' = Down(device, Head(ledger).key, Head(ledger).value)
  <2>0. FlowActive /\ Loop /\ Settled /\ TypeOK /\ HotkeyInv /\ CapOK /\ ~Capture!IsActive(cap)
    BY <1>1, InvType DEF FlowActive, Inv, CaptureInv
  <2>1. ASSUME NEW k \in Keys, NEW v \in 0..2, Handled(k, v), profile' = profile
        PROVE  device' = device
    <3>1. CASE Suppressed(k, v)
      BY <2>0, <2>1, <3>1, SuppressedDoes DEF KeptBack
    <3>2. CASE RouteCapture(k, v)
      <4>1. CaptureTakes(k, v) /\ cap' = Capture!Route(cap, k, v).session
        BY <3>2 DEF RouteCapture
      <4>2. Capture!Route(cap, k, v).to = "Suppress"
        BY <2>0, <4>1, CapRoute
      <4>. QED  BY <3>2, <4>2 DEF RouteCapture, Swallow
    <3>3. CASE HotkeyDuringFlow(k, v)
      BY <3>3 DEF HotkeyDuringFlow, Swallow
    <3>4. CASE Enqueue(k, v)
      BY <3>4 DEF Enqueue, Swallow
    <3>. QED  BY <2>0, <2>1, <3>1, <3>2, <3>3, <3>4 DEF Handled
  <2>2. ASSUME NEW k \in Keys, Step(Press(k)) \/ Step(Repeat(k)) \/ Step(Release(k))
        PROVE  device' = device
    <3>1. profile' = profile /\ \E v \in 0..2 : Handled(k, v)
      BY <2>2 DEF Step, Press, Repeat, Release
    <3>. QED  BY <2>1, <3>1
  <2>3. ASSUME NEW k \in Keys, NEW v \in 0..2, Step(Overflow(k, v)) PROVE ~Ready'
    BY <2>3 DEF Step, Overflow, Stops, Ready
  <2>4. Step(Failed) => ~Ready'
    BY DEF Step, Failed, Stops, Ready
  <2>5. Step(Fail) => ~Ready'
    BY DEF Step, Fail, Stops, Ready
  <2>6. ASSUME \/ Step(Succeeded) \/ Step(Cancelled) \/ Step(BarrierOver) \/ Step(DrainDone)
               \/ \E setup \in BOOLEAN : Step(Invalidate(setup))
               \/ Step(CaptureStart) \/ Step(CaptureEnd) \/ Step(CaptureExpire)
               \/ Step(Recover) \/ UNCHANGED vars
        PROVE  device' = device
    BY <2>6 DEF Step, Succeeded, Cancelled, BarrierOver, DrainDone, Invalidate, CaptureStart,
                CaptureEnd, CaptureExpire, Recover, vars
  <2>7. Step(DrainOne)
    BY <1>1, <2>2, <2>3, <2>4, <2>5, <2>6 DEF Next
  <2>. DEFINE k == Head(ledger).key
              v == Head(ledger).value
  <2>8. /\ profile' = profile /\ Draining /\ ledger # <<>> /\ ledger' = Tail(ledger)
        /\ Suppressed(k, v) \/ Process(k, v)
    BY <2>7 DEF Step, DrainOne, AcknowledgeHead
  <2>9. k \in Keys /\ v \in 0..2
    <3>1. ledger \in Seq(Event) /\ Head(ledger) = ledger[1] /\ 1 \in 1..Len(ledger)
      BY <2>0, <2>8 DEF Loop
    <3>. QED  BY <3>1, EventFields
  <2>. HIDE DEF k, v
  <2>10. CASE Suppressed(k, v)
    BY <1>1, <2>0, <2>8, <2>9, <2>10, SuppressedDoes DEF KeptBack
  <2>11. CASE Process(k, v)
    <3>1. Processed(k, v)
      BY <2>0, <2>8, <2>9, <2>11, ProcessDoes
    <3>2. device' \in {device, Down(device, k, v)}
      BY <1>1, <2>8, <2>9, <3>1, ProcessedTypes
    <3>. QED  BY <1>1, <2>8, <3>2 DEF k, v
  <2>. QED  BY <2>8, <2>10, <2>11
<1>2. Inv /\ [Next]_vars =>
        [flow # "Idle" /\ ~count.overtaken /\ Ready' /\ device' # device =>
            Draining /\ ledger # <<>> /\ ledger' = Tail(ledger)
            /\ device' = Down(device, Head(ledger).key, Head(ledger).value)]_vars
  BY <1>1
<1>. QED  BY <1>2, Invariance, PTL DEF Spec, NothingOvertakesTheLedger
=============================================================================
