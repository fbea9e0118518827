------------------------- MODULE XtestGuardianProofs -------------------------
(***************************************************************************)
(* Proofs about XtestGuardian, for every set of keys, every script and any *)
(* number of operations, losses and failed requests.                       *)
(*                                                                         *)
(* The argument: of request and answer only one is on its way at any time, *)
(* and it belongs to the call the writer waits for or to none.  So what    *)
(* the guardian did for an answered request still holds when the answer is *)
(* acted upon, and the mirror covers what the guardian owes a release for. *)
(***************************************************************************)
EXTENDS XtestGuardian, TLAPS

-----------------------------------------------------------------------------
(* Types.  Of the writer's records only what the argument needs: a plan    *)
(* that ran out of tokens is found by the guards.                          *)

Tracks == [token : Token, op : Nat,
           state : {"Prepared", "Attempting", "PossiblyDown", "PhysicalDebt"}]
Emergency == [state : {"Unarmed", "Armed", "Pending", "Running", "Finished"},
              mirrored : Seq(Token), todo : Seq(Token),
              proof : {"none", "Reconciled", "Unreconciled"}]

DaemonTyped ==
    /\ failed \in BOOLEAN /\ stopping \in BOOLEAN /\ alive \in BOOLEAN
    /\ broker \in {"idle", "exchange", "ended"}
    /\ emergency \in Emergency
    /\ prepared \subseteq Token /\ pendingMutation \in Pending \cup {None}
    /\ call \in Request \cup {None} /\ cmd \in Request \cup {None}
    /\ reply \in Response \cup {None}

Fields == {"pc", "ret", "op", "kind", "steps", "frozen", "typed", "plan", "debts",
           "todo", "restores", "ledger", "up", "mode", "bad", "outcome"}
Record(n) ==
    /\ n = [x \in Fields |-> n[x]]
    /\ n.op \in Nat /\ n.steps \in Seq([key : Keys, release : BOOLEAN])
    /\ n.ledger \in [Modifiers -> Token \cup {None}]

WriterTyped == Record(w) /\ (~failed => w.debts \in Seq(Token))

GuardianTyped ==
    /\ guardian \in {"start", "hello", "ready", "accepted", "reply", "finish",
                     "exited", "killed"}
    /\ confirmation \in BOOLEAN
    /\ request \in Request \cup {None} /\ response \in Response \cup {None}
    /\ tokens \subseteq Tracks /\ cleanup \subseteq Tracks
    /\ nextToken \in Nat /\ pendingSync \in Pending \cup {None}
    /\ toGuardian = <<>> \/ toGuardian = <<Head(toGuardian)>>
    /\ toDaemon = <<>> \/ toDaemon = <<Head(toDaemon)>>
    /\ toGuardian # <<>> => Head(toGuardian) \in Request
    /\ toDaemon # <<>> => Head(toDaemon) \in Response

-----------------------------------------------------------------------------
(* One thing at a time is on its way.                                      *)

\* The guardian has a request that it did not answer yet.
GuardianBusy ==
    guardian \in {"accepted", "reply"} \/ (guardian = "finish" /\ response # None)
Quiet == toGuardian = <<>> /\ toDaemon = <<>> /\ ~GuardianBusy

OneAtATime ==
    /\ toGuardian # <<>> => toDaemon = <<>> /\ ~GuardianBusy
    /\ toDaemon # <<>> => ~GuardianBusy
    /\ broker = "idle" => Quiet
    /\ reply # None /\ reply # Failure => Quiet

\* What is on its way belongs to the command of the exchange, and the command
\* and the answer to the call the writer waits for.
InStep ==
    /\ broker = "exchange" =>
         /\ cmd # None
         /\ toGuardian # <<>> => Head(toGuardian) = cmd
         /\ GuardianBusy => request = cmd
    /\ call # None => IF reply = None THEN cmd = call ELSE cmd = None
    /\ call = None => reply = None /\ (cmd = None \/ stopping)
    /\ reply # None /\ reply # Failure => ResponseMatches(call, reply)

GuardianInStep ==
    /\ guardian \in {"start", "hello", "ready", "accepted"} => response = None
    /\ guardian = "reply" => response # None
    /\ GuardianBusy => request # None
    /\ guardian = "finish" /\ response # None => request.kind = "CancelAndDrain"
    /\ toDaemon # <<>> /\ Head(toDaemon).kind = "Drained" => guardian = "exited"
    /\ reply # None /\ reply.kind = "Drained" => guardian = "exited"

-----------------------------------------------------------------------------
(* What a request asks for is right as long as it is on its way.           *)

Touches(r) == r.kind \in {"ExecuteDown", "KeyUp"}
Covering == emergency.state \in {"Armed", "Pending", "Running"}

Sound(r) ==
    /\ r.kind = "ExecuteDown" =>
         emergency.state # "Unarmed" /\ (Covering => r.token \in Mirrored)
    /\ r.kind = "ReleaseCommitted" => r.token.key \notin xdown

RequestsAreSound ==
    /\ broker = "idle" /\ cmd # None => Sound(cmd)
    /\ toGuardian # <<>> => Sound(Head(toGuardian))
    /\ toGuardian # <<>> /\ Touches(Head(toGuardian)) => pendingMutation = None
    /\ call # None /\ Touches(call) => pendingMutation = None
    /\ call # None /\ call.kind = "Synchronize" => pendingMutation # None

\* What the guardian did for a request holds until the answer is acted upon.
Pended(r) == [token |-> r.token, up |-> r.kind = "KeyUp"]
Done(r) ==
    /\ Touches(r) => pendingSync \in {None, Pended(r)}
    /\ r.kind = "Synchronize" /\ pendingMutation # None /\ pendingMutation.up =>
         Tracked(pendingMutation.token) = {}
    /\ r.kind = "ReleaseCommitted" => Tracked(r.token) = {}

AnswersAreTrue ==
    /\ guardian = "reply" /\ response.kind # "Fatal" => Done(request)
    /\ broker = "exchange" /\ toDaemon # <<>> /\ Head(toDaemon).kind # "Fatal" => Done(cmd)
    /\ reply # None /\ reply # Failure => Done(call)

\* The guardian goes on to serve requests.
Serving ==
    \/ guardian \in {"start", "hello", "ready"}
    \/ guardian = "accepted" /\ request.kind # "CancelAndDrain"
    \/ guardian = "reply" /\ response.kind \notin {"Fatal", "Drained"}

\* A confirmed release is of a key that is up.
GuardianIsRight ==
    /\ guardian = "accepted" =>
         /\ Touches(request) => pendingSync = Pended(request)
         /\ request.kind = "ExecuteDown" => \E t \in Owed : t.token = request.token
         /\ request.kind = "Synchronize" =>
              pendingSync # None /\ pendingSync.token = request.token
         /\ request.kind = "ReleaseCommitted" => Tracked(request.token) = {}
    /\ pendingSync # None /\ pendingSync.up /\ confirmation =>
         pendingSync.token.key \notin xdown
    /\ Serving /\ pendingSync = None => ~confirmation
    /\ pendingMutation # None /\ pendingSync # None => pendingSync = pendingMutation

-----------------------------------------------------------------------------
(* The keys.                                                               *)

KeysAreOwed == \A k \in xdown : \E t \in Owed : t.token.key = k

MirrorCovers ==
    /\ Covering => \A t \in Owed : t.token \in Mirrored
    /\ emergency.state = "Unarmed" => Owed = {}

\* When the guardian was killed the emergency release has the keys.
EmergencyCovers ==
    /\ guardian = "killed" => alive
    /\ guardian = "killed" /\ emergency.proof # "Unreconciled" =>
         /\ emergency.state = "Running" =>
              \A k \in xdown : \E u \in Elements(emergency.todo) : u.key = k
         /\ emergency.state = "Finished" => xdown = {}
    /\ emergency.proof = "Unreconciled" => emergency.state \in {"Running", "Finished"}
    /\ failed => emergency.state \notin {"Unarmed", "Armed"}
    /\ ~failed => \/ emergency.state \in {"Unarmed", "Armed"}
                  \/ emergency.state = "Finished" /\ guardian = "exited"

Outside ==
    /\ DaemonTyped /\ GuardianTyped
    /\ OneAtATime /\ InStep /\ GuardianInStep
    /\ RequestsAreSound /\ AnswersAreTrue /\ GuardianIsRight
    /\ KeysAreOwed /\ MirrorCovers /\ EmergencyCovers

\* The session's ledger has the tokens under their own keys.
LedgerOf(n) == \A m \in Modifiers : n.ledger[m] # None => n.ledger[m].key = m

\* The debt that is about to be adopted is the modifier's that is restored.
Adopting(n) == n.pc \in {"restored", "adopt", "adopted"}
LastDebt(n) ==
    n.debts \in Seq(Token) /\ n.debts # <<>> /\ n.debts[Len(n.debts)].key = Head(n.restores)

LedgerIsRight ==
    /\ LedgerOf(w)
    /\ Adopting(w) /\ w.ret # "err" => LastDebt(w)
    /\ call # None => w.ret # "err"
    /\ call # None /\ call.kind = "PrepareKey" => w.steps # <<>>
    /\ w.pc \in {"hello", "arm"} =>
         /\ call # None => call.kind = "Hello"
         /\ ~failed => emergency.state = "Unarmed"

Inv == Outside /\ WriterTyped /\ LedgerIsRight

-----------------------------------------------------------------------------
(* The daemon's failure gate and mirror.                                   *)

\* What every step of the daemon does to the emergency release but the ones
\* that arm it, run it or forget a token.
Calm ==
    /\ emergency' \in Emergency /\ failed' \in BOOLEAN
    /\ Covering' <=> Covering
    /\ Mirrored \subseteq Mirrored'
    /\ emergency'.state = "Unarmed" => emergency.state = "Unarmed"
    /\ emergency'.state = "Finished" => emergency.state \in {"Finished", "Unarmed"}
    /\ emergency'.state = "Running" =>
         emergency.state = "Running" /\ emergency'.todo = emergency.todo
    /\ emergency.state \in {"Running", "Finished"} => emergency'.state = emergency.state
    /\ emergency'.proof = "Unreconciled" <=> emergency.proof = "Unreconciled"
    /\ failed' => emergency'.state \notin {"Unarmed", "Armed"}
    /\ ~failed' => ~failed /\ emergency'.state = emergency.state

\* Nothing happens to the gate, or it closes.
LEMMA StaysCalm ==
    ASSUME DaemonTyped, EmergencyCovers, UNCHANGED <<failed, emergency>>
    PROVE  Calm
BY DEF DaemonTyped, EmergencyCovers, Calm, Covering, Mirrored, Elements

LEMMA FailIsCalm ==
    ASSUME DaemonTyped, EmergencyCovers, Fail
    PROVE  Calm /\ failed' /\ stopping' /\ emergency'.mirrored = emergency.mirrored
<1>1. CASE failed
  BY <1>1 DEF DaemonTyped, EmergencyCovers, Fail, Calm, Covering, Mirrored, Elements
<1>2. CASE ~failed
  <2>1. emergency' = MarkGuardianFailed BY <1>2 DEF Fail
  <2>2. CASE emergency.state = "Armed"
    BY <1>2, <2>1, <2>2
    DEF DaemonTyped, Emergency, EmergencyCovers, Fail, Calm, Covering, Mirrored, Elements,
        MarkGuardianFailed
  <2>3. CASE emergency.state = "Unarmed"
    <3>1. emergency' = [emergency EXCEPT !.state = "Finished", !.proof = "Reconciled"]
      BY <2>1, <2>3 DEF MarkGuardianFailed
    <3>2. /\ emergency'.state = "Finished" /\ emergency'.proof = "Reconciled"
          /\ emergency'.mirrored = emergency.mirrored /\ emergency'.todo = emergency.todo
      BY <3>1 DEF DaemonTyped, Emergency
    <3>3. emergency' \in Emergency BY <3>1 DEF DaemonTyped, Emergency
    <3> QED BY <1>2, <2>3, <3>2, <3>3
            DEF DaemonTyped, EmergencyCovers, Fail, Calm, Covering, Mirrored, Elements
  <2>4. CASE emergency.state \notin {"Armed", "Unarmed"}
    BY <1>2, <2>1, <2>4
    DEF DaemonTyped, Emergency, EmergencyCovers, Fail, Calm, Covering, Mirrored, Elements,
        MarkGuardianFailed
  <2> QED BY <2>2, <2>3, <2>4
<1> QED BY <1>1, <1>2 DEF DaemonTyped

\* A token enters the mirror.
LEMMA MirroringIsCalm ==
    ASSUME DaemonTyped, EmergencyCovers, NEW t \in Token, emergency.state = "Armed",
           emergency' = [emergency EXCEPT !.mirrored = Append(@, t)], failed' = failed
    PROVE  Calm /\ t \in Mirrored'
<1>1. emergency.mirrored \in Seq(Token) BY DEF DaemonTyped, Emergency
<1>2. /\ emergency'.mirrored = Append(emergency.mirrored, t)
      /\ emergency'.state = "Armed" /\ emergency'.todo = emergency.todo
      /\ emergency'.proof = emergency.proof
      /\ emergency' \in Emergency
  <2>1. Append(emergency.mirrored, t) \in Seq(Token) BY <1>1
  <2> QED BY <2>1 DEF DaemonTyped, Emergency
<1>3. Elements(emergency.mirrored) \subseteq Elements(Append(emergency.mirrored, t))
      /\ t \in Elements(Append(emergency.mirrored, t))
  <2> DEFINE s == emergency.mirrored
  <2>1. Len(Append(s, t)) = Len(s) + 1 /\ Len(s) \in Nat BY <1>1
  <2>2. Append(s, t)[Len(s) + 1] = t BY <1>1
  <2>3. \A i \in 1..Len(s) : Append(s, t)[i] = s[i] BY <1>1
  <2> QED BY <2>1, <2>2, <2>3 DEF Elements
<1> QED BY <1>2, <1>3 DEF DaemonTyped, EmergencyCovers, Calm, Covering, Mirrored

\* The keys stay owed and covered by a calm step of the daemon.
LEMMA CalmKeepsKeys ==
    ASSUME KeysAreOwed, MirrorCovers, EmergencyCovers, Calm,
           tokens' = tokens, guardian' = guardian, xdown' \subseteq xdown,
           guardian = "killed" => alive' = alive
    PROVE  KeysAreOwed' /\ MirrorCovers' /\ EmergencyCovers'
<1>1. Owed' = Owed BY DEF Owed
<1>2. KeysAreOwed' BY <1>1 DEF KeysAreOwed
<1>3. MirrorCovers' BY <1>1 DEF MirrorCovers, Calm
<1>4. EmergencyCovers'
  <2>1. emergency.state = "Unarmed" => xdown = {}
    BY DEF MirrorCovers, KeysAreOwed
  <2> QED BY <2>1 DEF EmergencyCovers, Calm
<1> QED BY <1>2, <1>3, <1>4

\* So does what a request on its way relies on.
LEMMA CalmKeepsSound ==
    ASSUME NEW r, Sound(r), Calm, xdown' \subseteq xdown
    PROVE  /\ r.kind = "ExecuteDown" =>
                 emergency'.state # "Unarmed" /\ (Covering' => r.token \in Mirrored')
           /\ r.kind = "ReleaseCommitted" => r.token.key \notin xdown'
BY DEF Sound, Calm

-----------------------------------------------------------------------------
(* What a turn of the writer may do to the rest.                           *)

\* A request is queued for the broker.
Queued(r) ==
    /\ r \in Request /\ ~stopping /\ cmd' = r /\ call' = r
    /\ failed' = failed /\ stopping' = stopping
    /\ Touches(r) => pendingMutation = None
    /\ r.kind = "Synchronize" => pendingMutation # None
    /\ r.kind = "ReleaseCommitted" => r.token.key \notin xdown'
    /\ r.kind = "ExecuteDown" => emergency'.state = "Armed" /\ r.token \in Mirrored'

Effect ==
    /\ call = None
    /\ UNCHANGED <<broker, reply, alive, wireVars, guardianVars, pendingMutation>>
    /\ xdown' \subseteq xdown /\ prepared' \subseteq Token
    /\ Calm
    /\ stopping' \in BOOLEAN /\ (stopping => stopping')
    /\ UNCHANGED <<cmd, call>> \/ \E r \in Request : Queued(r)

\* A turn of the writer leaves them as they should be.
LEMMA EffectKeeps ==
    ASSUME Outside, Effect
    PROVE  Outside'
<1> USE DEF Outside
<1>1. UNCHANGED guardianVars /\ UNCHANGED wireVars BY DEF Effect
<1>2. guardian' = guardian /\ request' = request /\ response' = response
      /\ tokens' = tokens /\ pendingSync' = pendingSync /\ confirmation' = confirmation
      /\ cleanup' = cleanup /\ nextToken' = nextToken
      /\ toGuardian' = toGuardian /\ toDaemon' = toDaemon
      /\ broker' = broker /\ reply' = reply /\ alive' = alive
      /\ pendingMutation' = pendingMutation
  BY <1>1 DEF Effect, guardianVars, wireVars
<1>3. call = None /\ reply = None /\ (cmd = None \/ stopping) BY DEF Effect, InStep
<1>4. DaemonTyped'
  <2>1. call' \in Request \cup {None} /\ cmd' \in Request \cup {None}
    BY DEF Effect, Queued, DaemonTyped
  <2> QED BY <1>2, <2>1 DEF Effect, Calm, DaemonTyped
<1>5. GuardianTyped' BY <1>2 DEF GuardianTyped
<1>6. OneAtATime' BY <1>2 DEF OneAtATime, Quiet, GuardianBusy
<1>7. GuardianInStep' BY <1>2 DEF GuardianInStep, GuardianBusy
<1>8. InStep'
  <2>1. CASE UNCHANGED <<cmd, call>>
    BY <1>2, <1>3, <2>1 DEF InStep, GuardianBusy, Effect
  <2>2. ASSUME NEW r \in Request, Queued(r) PROVE InStep'
    <3>1. broker # "exchange" BY <1>3, <2>2 DEF InStep, Queued
    <3>2. r # None BY NoneAssumption
    <3> QED BY <1>2, <1>3, <2>2, <3>1 DEF InStep, GuardianBusy, Queued
  <2> QED BY <2>1, <2>2 DEF Effect
<1>9. RequestsAreSound'
  <2>1. \A r : Sound(r) => Sound(r)'
    BY CalmKeepsSound DEF Sound, Effect
  <2>2. CASE UNCHANGED <<cmd, call>>
    BY <1>2, <2>1, <2>2 DEF RequestsAreSound
  <2>3. ASSUME NEW r \in Request, Queued(r) PROVE RequestsAreSound'
    <3>1. Sound(r)' BY <2>3 DEF Queued, Sound
    <3> QED BY <1>2, <2>1, <2>3, <3>1 DEF RequestsAreSound, Queued
  <2> QED BY <2>2, <2>3 DEF Effect
<1>10. AnswersAreTrue'
  <2>1. \A r : Done(r)' <=> Done(r) BY <1>2 DEF Done, Tracked
  <2>2. CASE UNCHANGED <<cmd, call>>
    BY <1>2, <2>1, <2>2 DEF AnswersAreTrue
  <2>3. ASSUME NEW r \in Request, Queued(r) PROVE AnswersAreTrue'
    <3>1. broker # "exchange" BY <1>3, <2>3 DEF InStep, Queued
    <3> QED BY <1>2, <1>3, <2>1, <3>1 DEF AnswersAreTrue
  <2> QED BY <2>2, <2>3 DEF Effect
<1>11. GuardianIsRight'
  BY <1>2 DEF GuardianIsRight, Serving, Tracked, Owed, Effect
<1>12. KeysAreOwed' /\ MirrorCovers' /\ EmergencyCovers'
  BY <1>2, CalmKeepsKeys DEF Effect
<1> QED BY <1>4, <1>5, <1>6, <1>7, <1>8, <1>9, <1>10, <1>11, <1>12

-----------------------------------------------------------------------------
(* How a turn of the writer ends.                                          *)

Turn ==
    /\ call = None
    /\ UNCHANGED <<broker, reply, alive, wireVars, guardianVars>>
    /\ xdown' \subseteq xdown

\* What the record must be that a turn goes on with.
Fits(n) ==
    /\ Record(n) /\ LedgerOf(n)
    /\ ~failed => n.debts \in Seq(Token)
    /\ Adopting(n) => LastDebt(n)
    /\ n.pc \notin {"hello", "arm"}

LEMMA ReturnIsSet ==
    ASSUME NEW n, Record(n), LedgerOf(n), NEW x, w' = [n EXCEPT !.ret = x]
    PROVE  /\ Record(w)' /\ LedgerOf(w)'
           /\ w'.ret = x /\ w'.pc = n.pc /\ w'.debts = n.debts
           /\ w'.restores = n.restores /\ w'.steps = n.steps
BY DEF Record, Fields, LedgerOf

LEMMA Continues ==
    ASSUME Inv, Turn, NEW n, Fits(n), NEW x, w' = [n EXCEPT !.ret = x], Healthy,
           UNCHANGED <<cmd, call, pendingMutation>>, prepared' \subseteq prepared
    PROVE  Inv'
<1>1. Calm BY StaysCalm DEF Inv, Outside, Healthy
<1>2. Effect BY <1>1 DEF Inv, Outside, DaemonTyped, Healthy, Effect, Turn
<1>3. Outside' BY <1>2, EffectKeeps DEF Inv
<1>4. WriterTyped' /\ LedgerIsRight'
  BY ReturnIsSet
  DEF Fits, Turn, Healthy, WriterTyped, LedgerIsRight, Adopting, LastDebt
<1> QED BY <1>3, <1>4 DEF Inv

LEMMA Fails ==
    ASSUME Inv, Turn, NEW n, Record(n), LedgerOf(n), n.pc \notin {"hello", "arm"},
           FailProtocol(n)
    PROVE  Inv'
<1>1. Calm /\ failed' /\ stopping' BY FailIsCalm DEF Inv, Outside, FailProtocol
<1>2. Effect
  BY <1>1 DEF Inv, Outside, DaemonTyped, FailProtocol, Fail, Effect, Turn
<1>3. Outside' BY <1>2, EffectKeeps DEF Inv
<1>4. WriterTyped' /\ LedgerIsRight'
  BY <1>1, ReturnIsSet DEF FailProtocol, Turn, WriterTyped, LedgerIsRight, Adopting
<1> QED BY <1>3, <1>4 DEF Inv

LEMMA Submits ==
    ASSUME Inv, Turn, NEW n, Fits(n), NEW r \in Request, Submit(r, n), Calm,
           UNCHANGED <<failed, stopping, pendingMutation>>, prepared' \subseteq Token,
           Touches(r) => pendingMutation = None,
           r.kind = "Synchronize" => pendingMutation # None,
           r.kind = "ReleaseCommitted" => r.token.key \notin xdown',
           r.kind = "ExecuteDown" => emergency'.state = "Armed" /\ r.token \in Mirrored',
           r.kind = "PrepareKey" => n.steps # <<>>
    PROVE  Inv'
<1> DEFINE go == (accepting \/ r.kind = "Hello") /\ ~stopping
<1>1. CASE go
  <2>1. cmd' = r /\ call' = r /\ w' = [n EXCEPT !.ret = "none"] BY <1>1 DEF Submit
  <2>2. Queued(r) BY <1>1, <2>1 DEF Queued
  <2>3. Effect BY <2>2 DEF Inv, Outside, DaemonTyped, Effect, Turn
  <2>4. Outside' BY <2>3, EffectKeeps DEF Inv
  <2>5. WriterTyped' /\ LedgerIsRight'
    BY <2>1, ReturnIsSet
    DEF Fits, WriterTyped, LedgerIsRight, Adopting, LastDebt
  <2> QED BY <2>4, <2>5 DEF Inv
<1>2. CASE ~go
  <2>1. UNCHANGED <<cmd, call>> /\ w' = [n EXCEPT !.ret = "err"] BY <1>2 DEF Submit
  <2>2. Effect BY <2>1 DEF Inv, Outside, DaemonTyped, Effect, Turn
  <2>3. Outside' BY <2>2, EffectKeeps DEF Inv
  <2>4. WriterTyped' /\ LedgerIsRight'
    BY <2>1, ReturnIsSet
    DEF Fits, Turn, WriterTyped, LedgerIsRight, Adopting, LastDebt
  <2> QED BY <2>3, <2>4 DEF Inv
<1> QED BY <1>1, <1>2

-----------------------------------------------------------------------------
(* The client's calls.                                                     *)

LEMMA MirroredIsTyped ==
    ASSUME DaemonTyped
    PROVE  Mirrored \subseteq Token
<1>1. emergency.mirrored \in Seq(Token) BY DEF DaemonTyped, Emergency
<1> QED BY <1>1 DEF Mirrored, Elements

LEMMA ExecutesDown ==
    ASSUME Inv, Turn, NEW t, NEW n, Record(n), LedgerOf(n), n.pc \notin {"hello", "arm"},
           ~failed /\ t \in prepared => Fits(n), ExecuteDown(t, n)
    PROVE  Inv'
<1>1. CASE pendingMutation # None \/ t \notin prepared \/ ~MayInsertPossible(t)
  BY <1>1, Fails DEF ExecuteDown
<1>2. CASE ~(pendingMutation # None \/ t \notin prepared \/ ~MayInsertPossible(t))
  <2> DEFINE r == Req("ExecuteDown", t, t.key)
  <2>1. /\ prepared' = prepared \ {t}
        /\ emergency' = [emergency EXCEPT !.mirrored = Append(@, t)]
        /\ Submit(r, n) /\ UNCHANGED <<failed, accepting, stopping, pendingMutation>>
    BY <1>2 DEF ExecuteDown
  <2>2. t \in Token BY <1>2 DEF Inv, Outside, DaemonTyped
  <2>3. emergency.state = "Armed" BY <1>2 DEF MayInsertPossible
  <2>4. Calm /\ t \in Mirrored'
    BY <2>1, <2>2, <2>3, MirroringIsCalm DEF Inv, Outside
  <2>5. emergency'.state = "Armed"
    BY <2>1, <2>3 DEF Inv, Outside, DaemonTyped, Emergency
  <2>6. Fits(n) BY <1>2, <2>3 DEF Inv, Outside, EmergencyCovers
  <2>7. r \in Request /\ r.kind = "ExecuteDown" /\ r.token = t
    BY <2>2 DEF Req, Request, Kinds, Token, Inv, WriterTyped, Record, Fields
  <2>8. prepared' \subseteq Token BY <2>1 DEF Inv, Outside, DaemonTyped
  <2> HIDE DEF r
  <2> QED BY <1>2, <2>1, <2>4, <2>5, <2>6, <2>7, <2>8, Submits
<1> QED BY <1>1, <1>2

LEMMA KeysUp ==
    ASSUME Inv, Turn, NEW t, NEW n, Fits(n), KeyUp(t, n)
    PROVE  Inv'
<1> DEFINE refused == pendingMutation # None \/ ~(ContainsPossible(t) \/ t \in prepared)
<1>1. CASE refused BY <1>1, Fails DEF KeyUp, Fits
<1>2. CASE ~refused
  <2> DEFINE r == Req("KeyUp", t, t.key)
  <2>1. /\ prepared' = prepared \ {t} /\ Submit(r, n) /\ Healthy /\ UNCHANGED pendingMutation
    BY <1>2 DEF KeyUp
  <2>2. t \in Token
    BY <1>2, MirroredIsTyped DEF Inv, Outside, DaemonTyped, ContainsPossible
  <2>3. Calm BY <2>1, StaysCalm DEF Inv, Outside, Healthy
  <2>4. r \in Request /\ r.kind = "KeyUp"
    BY <2>2 DEF Req, Request, Kinds, Token, Inv, WriterTyped, Record, Fields
  <2>5. prepared' \subseteq Token BY <2>1 DEF Inv, Outside, DaemonTyped
  <2> HIDE DEF r
  <2> QED BY <1>2, <2>1, <2>3, <2>4, <2>5, Submits DEF Healthy
<1> QED BY <1>1, <1>2

LEMMA Synchronizes ==
    ASSUME Inv, Turn, NEW n, Fits(n), Synchronize(n)
    PROVE  Inv'
<1>1. CASE pendingMutation = None BY <1>1, Continues DEF Synchronize
<1>2. CASE pendingMutation # None
  <2> DEFINE r == Req("Synchronize", pendingMutation.token, None)
  <2>1. Submit(r, n) /\ Healthy /\ UNCHANGED <<prepared, pendingMutation>>
    BY <1>2 DEF Synchronize
  <2>2. pendingMutation.token \in Token
    BY <1>2 DEF Inv, Outside, DaemonTyped, Pending
  <2>3. Calm BY <2>1, StaysCalm DEF Inv, Outside, Healthy
  <2>4. r \in Request /\ r.kind = "Synchronize"
    BY <2>2 DEF Req, Request, Kinds, Token, Inv, WriterTyped, Record, Fields
  <2>5. prepared' \subseteq Token BY <2>1 DEF Inv, Outside, DaemonTyped
  <2> HIDE DEF r
  <2> QED BY <1>2, <2>1, <2>3, <2>4, <2>5, Submits DEF Healthy, Touches
<1> QED BY <1>1, <1>2

LEMMA CallsMirrored ==
    ASSUME Inv, Turn, NEW kind \in {"Transfer", "ReleaseCommitted"}, NEW t, NEW n, Fits(n),
           kind = "ReleaseCommitted" => t.key \notin xdown', MirroredCall(kind, t, n)
    PROVE  Inv'
<1>1. CASE pendingMutation # None \/ ~ContainsPossible(t)
  BY <1>1, Fails DEF MirroredCall, Fits
<1>2. CASE ~(pendingMutation # None \/ ~ContainsPossible(t))
  <2> DEFINE r == Req(kind, t, t.key)
  <2>1. Submit(r, n) /\ Healthy /\ UNCHANGED <<prepared, pendingMutation>>
    BY <1>2 DEF MirroredCall
  <2>2. t \in Token
    BY <1>2, MirroredIsTyped DEF Inv, Outside, DaemonTyped, ContainsPossible
  <2>3. Calm BY <2>1, StaysCalm DEF Inv, Outside, Healthy
  <2>4. r \in Request /\ r.kind = kind /\ r.token = t
    BY <2>2 DEF Req, Request, Kinds, Token, Inv, WriterTyped, Record, Fields
  <2>5. prepared' \subseteq Token BY <2>1 DEF Inv, Outside, DaemonTyped
  <2> HIDE DEF r
  <2> QED BY <1>2, <2>1, <2>3, <2>4, <2>5, Submits DEF Healthy, Touches
<1> QED BY <1>1, <1>2

LEMMA Stops ==
    ASSUME Inv, Turn, NEW result, StopWriter(result)
    PROVE  Inv'
<1>1. Calm BY StaysCalm DEF Inv, Outside, StopWriter
<1>2. Effect BY <1>1 DEF Inv, Outside, DaemonTyped, StopWriter, Effect, Turn
<1>3. Outside' BY <1>2, EffectKeeps DEF Inv
<1>4. WriterTyped' /\ LedgerIsRight'
  BY DEF Inv, StopWriter, Turn, WriterTyped, Record, Fields, LedgerIsRight, LedgerOf, Adopting
<1> QED BY <1>3, <1>4 DEF Inv

-----------------------------------------------------------------------------
(* The turns of the writer.                                                *)

LEMMA WriterHasTurn ==
    ASSUME Inv, WriterTurn
    PROVE  /\ Turn /\ Record(w) /\ LedgerOf(w) /\ w.ledger \in [Modifiers -> Token \cup {None}]
           /\ (~failed => w.debts \in Seq(Token))
           /\ w.ret # "err" /\ Adopting(w) => LastDebt(w)
BY DEF Inv, WriterTurn, Turn, WriterTyped, Record, Fields, LedgerIsRight

LEMMA ConnectIsRight == Inv /\ Connect => Inv'
<1> SUFFICES ASSUME Inv, Connect PROVE Inv' OBVIOUS
<1> DEFINE r == Req("Hello", None, None)
<1>1. Turn /\ Record(w) /\ LedgerOf(w) BY WriterHasTurn DEF Connect
<1>2. Submit(r, w) /\ Healthy /\ UNCHANGED <<prepared, pendingMutation>> BY DEF Connect
<1>3. r \in Request /\ r.kind = "Hello" BY <1>1 DEF Req, Request, Kinds, Record, Fields
<1>4. Calm BY <1>2, StaysCalm DEF Inv, Outside, Healthy
<1> HIDE DEF r
<1>5. Effect
  <2>1. CASE UNCHANGED <<cmd, call>>
    BY <1>1, <1>2, <1>4, <2>1 DEF Inv, Outside, DaemonTyped, Effect, Turn, Healthy
  <2>2. CASE ~stopping /\ cmd' = r /\ call' = r
    BY <1>1, <1>2, <1>3, <1>4, <2>2
    DEF Inv, Outside, DaemonTyped, Effect, Turn, Healthy, Queued, Touches
  <2> QED BY <1>2, <2>1, <2>2 DEF Submit
<1>6. Outside' BY <1>5, EffectKeeps DEF Inv
<1>7. /\ Record(w)' /\ LedgerOf(w)' /\ w'.pc = w.pc /\ w'.debts = w.debts
      /\ w'.steps = w.steps
  BY <1>1, <1>2, ReturnIsSet DEF Submit
<1>8. w.pc = "hello" /\ call = None BY <1>1 DEF Connect, Turn
<1>9. UNCHANGED call \/ (call' = r /\ w'.ret = "none")
  BY <1>1, <1>2 DEF Submit, Record, Fields
<1>10. WriterTyped' /\ LedgerIsRight'
  BY <1>2, <1>3, <1>7, <1>8, <1>9
  DEF Inv, WriterTyped, LedgerIsRight, Adopting, Healthy
<1> QED BY <1>6, <1>10 DEF Inv

LEMMA VerifyServerIsRight == Inv /\ VerifyServer => Inv'
<1> SUFFICES ASSUME Inv, VerifyServer PROVE Inv' OBVIOUS
<1> USE DEF VerifyServer
<1>1. Calm BY StaysCalm DEF Inv, Outside, brokerVars
<1>2. xdown' = xdown BY DEF ReadEpochMarker, XRequest
<1>3. Effect
  BY <1>1, <1>2 DEF Inv, Outside, DaemonTyped, Effect, brokerVars, clientVars
<1>4. Outside' BY <1>3, EffectKeeps DEF Inv
<1>5. PICK x : w' = [w EXCEPT !.pc = "arm", !.ret = x] OBVIOUS
<1>6. WriterTyped' /\ LedgerIsRight'
  BY <1>5 DEF Inv, WriterTyped, Record, Fields, LedgerIsRight, LedgerOf, Adopting, brokerVars, clientVars
<1> QED BY <1>4, <1>6 DEF Inv

LEMMA ShutdownIsRight == Inv /\ Shutdown => Inv'
BY WriterHasTurn, Stops DEF Shutdown

\* Fitting records: what a turn writes into the operation.
LEMMA PrepareIsRight == Inv /\ Prepare => Inv'
<1> SUFFICES ASSUME Inv, Prepare PROVE Inv' OBVIOUS
<1>1. WriterTurn /\ w.pc = "prepare" BY DEF Prepare
<1>2. /\ Turn /\ Record(w) /\ LedgerOf(w)
      /\ ~failed => w.debts \in Seq(Token)
  BY <1>1, WriterHasTurn
<1>3. ASSUME NEW result, StopWriter(result) PROVE Inv' BY <1>2, <1>3, Stops
<1>4. ASSUME Continue([w EXCEPT !.pc = "activate"]) PROVE Inv'
  <2> DEFINE n == [w EXCEPT !.pc = "activate"]
  <2>1. Fits(n) BY <1>1, <1>2 DEF Fits, Record, Fields, LedgerOf, Adopting
  <2> QED BY <1>2, <1>4, <2>1, Continues DEF Continue
<1>5. ASSUME Continue([w EXCEPT !.pc = "idle", !.outcome = "cancelled"]) PROVE Inv'
  <2> DEFINE n == [w EXCEPT !.pc = "idle", !.outcome = "cancelled"]
  <2>1. Fits(n) BY <1>1, <1>2 DEF Fits, Record, Fields, LedgerOf, Adopting
  <2> QED BY <1>2, <1>5, <2>1, Continues DEF Continue
<1>6. ASSUME w.steps # <<>>, NEW x,
             Continue([w EXCEPT !.steps = Tail(@), !.plan = Append(@, x)])
      PROVE  Inv'
  <2> DEFINE n == [w EXCEPT !.steps = Tail(@), !.plan = Append(@, x)]
  <2>1. Tail(w.steps) \in Seq([key : Keys, release : BOOLEAN]) BY <1>2, <1>6 DEF Record
  <2>2. Fits(n) BY <1>1, <1>2, <2>1 DEF Fits, Record, Fields, LedgerOf, Adopting
  <2> QED BY <1>2, <1>6, <2>2, Continues DEF Continue
<1>7. Fits(w) BY <1>1, <1>2 DEF Fits, Adopting
<1>8. ASSUME FailProtocol(w) PROVE Inv' BY <1>2, <1>7, <1>8, Fails DEF Fits
<1>9. ASSUME w.steps # <<>>, Submit(Req("PrepareKey", None, Head(w.steps).key), w), Healthy,
             UNCHANGED <<prepared, pendingMutation>>
      PROVE  Inv'
  <2> DEFINE r == Req("PrepareKey", None, Head(w.steps).key)
  <2> DEFINE S == [key : Keys, release : BOOLEAN]
  <2>1. w.steps \in Seq(S) /\ w.steps # <<>> BY <1>2, <1>9 DEF Record
  <2> HIDE DEF S
  <2>2. Head(w.steps) \in S BY <2>1
  <2>3. Head(w.steps).key \in Keys BY <2>2 DEF S
  <2>4. r \in Request /\ r.kind = "PrepareKey"
    BY <1>2, <2>3 DEF Req, Request, Kinds, Record, Fields
  <2>5. Calm BY <1>9, StaysCalm DEF Inv, Outside, Healthy
  <2>6. prepared' \subseteq Token BY <1>9 DEF Inv, Outside, DaemonTyped
  <2>7. Submit(r, w) BY <1>9
  <2> HIDE DEF r
  <2> QED BY <1>2, <1>7, <1>9, <2>4, <2>5, <2>6, <2>7, Submits DEF Healthy, Touches
<1> QED BY <1>3, <1>4, <1>5, <1>6, <1>8, <1>9 DEF Prepare

\* An operation is given up, or finished with the restoring of its modifiers.
LEMMA FinishIsRight ==
    ASSUME Inv, WriterTurn, w.pc \notin {"hello", "arm"}, NEW mode, Finish(mode)
    PROVE  Inv'
<1> DEFINE n == [w EXCEPT !.mode = mode,
                          !.pc = IF mode = "hard" THEN "cleanup" ELSE "restore",
                          !.todo = Reverse(w.debts)]
<1>1. /\ Turn /\ Record(w) /\ LedgerOf(w) /\ (~failed => w.debts \in Seq(Token))
  BY WriterHasTurn
<1>2. Fits(n) BY <1>1 DEF Fits, Record, Fields, LedgerOf, Adopting
<1> QED BY <1>1, <1>2, Continues DEF Finish, Continue

LEMMA AbandonIsRight ==
    ASSUME Inv, WriterTurn, w.pc \notin {"hello", "arm"}, Abandon
    PROVE  Inv'
BY FinishIsRight DEF Abandon

\* A turn that only moves the operation on.
LEMMA MovesOn ==
    ASSUME Inv, WriterTurn, w.pc \notin {"hello", "arm"},
           NEW pc \in {"release", "type", "settled", "unpress", "proof", "cleanedSync"}
    PROVE  Fits([w EXCEPT !.pc = pc])
<1>1. /\ Record(w) /\ LedgerOf(w) /\ (~failed => w.debts \in Seq(Token)) BY WriterHasTurn
<1> QED BY <1>1 DEF Fits, Record, Fields, LedgerOf, Adopting

LEMMA ActivateIsRight == Inv /\ Activate => Inv'
<1> SUFFICES ASSUME Inv, Activate PROVE Inv' OBVIOUS
<1>1. WriterTurn /\ w.pc = "activate" BY DEF Activate
<1>2. Turn BY <1>1, WriterHasTurn
<1>3. Fits([w EXCEPT !.pc = "release"]) BY <1>1, MovesOn
<1>4. CASE Continue([w EXCEPT !.pc = "release"]) BY <1>2, <1>3, <1>4, Continues DEF Continue
<1>5. CASE Abandon \/ Finish("hard") BY <1>1, <1>5, AbandonIsRight, FinishIsRight
<1> QED BY <1>4, <1>5 DEF Activate

LEMMA ReleaseIsRight == Inv /\ Release => Inv'
<1> SUFFICES ASSUME Inv, Release PROVE Inv' OBVIOUS
<1>1. WriterTurn /\ w.pc = "release" BY DEF Release
<1>2. /\ Turn /\ Record(w) /\ LedgerOf(w) /\ (~failed => w.debts \in Seq(Token))
  BY <1>1, WriterHasTurn
<1>3. Fits([w EXCEPT !.pc = "type"]) BY <1>1, MovesOn
<1>4. CASE Abandon BY <1>1, <1>4, AbandonIsRight
<1>5. CASE Continue([w EXCEPT !.pc = "type"]) BY <1>2, <1>3, <1>5, Continues DEF Continue
<1>6. ASSUME NEW t, NEW f, NEW r, NEW p,
             KeyUp(t, [w EXCEPT !.pc = "released", !.frozen = f, !.restores = r, !.plan = p])
      PROVE  Inv'
  <2> DEFINE n == [w EXCEPT !.pc = "released", !.frozen = f, !.restores = r, !.plan = p]
  <2>1. Fits(n) BY <1>2 DEF Fits, Record, Fields, LedgerOf, Adopting
  <2> QED BY <1>2, <1>6, <2>1, KeysUp
<1> QED BY <1>4, <1>5, <1>6 DEF Release

LEMMA ReleasedIsRight == Inv /\ Released => Inv'
<1> SUFFICES ASSUME Inv, Released PROVE Inv' OBVIOUS
<1>1. WriterTurn /\ w.pc = "released" BY DEF Released
<1>2. Turn /\ Fits([w EXCEPT !.pc = "release"]) BY <1>1, WriterHasTurn, MovesOn
<1>3. CASE Abandon BY <1>1, <1>3, AbandonIsRight
<1>4. CASE Synchronize([w EXCEPT !.pc = "release"]) BY <1>2, <1>4, Synchronizes
<1> QED BY <1>3, <1>4 DEF Released

LEMMA PressIsRight == Inv /\ Press => Inv'
<1> SUFFICES ASSUME Inv, Press PROVE Inv' OBVIOUS
<1>1. WriterTurn /\ w.pc = "type" BY DEF Press
<1>2. /\ Turn /\ Record(w) /\ LedgerOf(w) /\ (~failed => w.debts \in Seq(Token))
  BY <1>1, WriterHasTurn
<1>3. CASE Abandon \/ Finish("success") BY <1>1, <1>3, AbandonIsRight, FinishIsRight
<1>4. ASSUME NEW t, NEW p,
             ExecuteDown(t, [w EXCEPT !.pc = "pressed", !.plan = p, !.debts = Append(@, t)])
      PROVE  Inv'
  <2> DEFINE n == [w EXCEPT !.pc = "pressed", !.plan = p, !.debts = Append(@, t)]
  <2>1. Record(n) /\ LedgerOf(n) /\ n.pc = "pressed" /\ n.debts = Append(w.debts, t)
    BY <1>2 DEF Record, Fields, LedgerOf
  <2>2. ASSUME ~failed, t \in prepared PROVE n.debts \in Seq(Token)
    <3>1. t \in Token /\ w.debts \in Seq(Token)
      BY <1>2, <2>2 DEF Inv, Outside, DaemonTyped
    <3> QED BY <2>1, <3>1
  <2>3. ~failed /\ t \in prepared => Fits(n) BY <2>1, <2>2 DEF Fits, Adopting
  <2> QED BY <1>2, <1>4, <2>1, <2>3, ExecutesDown
<1> QED BY <1>3, <1>4 DEF Press

LEMMA PressedIsRight == Inv /\ Pressed => Inv'
<1> SUFFICES ASSUME Inv, Pressed PROVE Inv' OBVIOUS
<1>1. WriterTurn /\ w.pc = "pressed" BY DEF Pressed
<1>2. Turn /\ Fits([w EXCEPT !.pc = "settled"]) BY <1>1, WriterHasTurn, MovesOn
<1>3. CASE Abandon BY <1>1, <1>3, AbandonIsRight
<1>4. CASE Synchronize([w EXCEPT !.pc = "settled"]) BY <1>2, <1>4, Synchronizes
<1> QED BY <1>3, <1>4 DEF Pressed

LEMMA SettledIsRight == Inv /\ Settled => Inv'
<1> SUFFICES ASSUME Inv, Settled PROVE Inv' OBVIOUS
<1>1. WriterTurn /\ w.pc = "settled" BY DEF Settled
<1>2. Turn /\ Fits([w EXCEPT !.pc = "unpress"]) BY <1>1, WriterHasTurn, MovesOn
<1>3. CASE Abandon BY <1>1, <1>3, AbandonIsRight
<1>4. CASE Continue([w EXCEPT !.pc = "unpress"]) BY <1>2, <1>4, Continues DEF Continue
<1> QED BY <1>3, <1>4 DEF Settled

LEMMA UnpressIsRight == Inv /\ Unpress => Inv'
<1> SUFFICES ASSUME Inv, Unpress PROVE Inv' OBVIOUS
<1>1. WriterTurn /\ w.pc = "unpress" BY DEF Unpress
<1>2. /\ Turn /\ Record(w) /\ LedgerOf(w) /\ (~failed => w.debts \in Seq(Token))
  BY <1>1, WriterHasTurn
<1>3. Fits([w EXCEPT !.pc = "unpressed"]) BY <1>2 DEF Fits, Record, Fields, LedgerOf, Adopting
<1> QED BY <1>2, <1>3, KeysUp DEF Unpress

LEMMA UnpressedIsRight == Inv /\ Unpressed => Inv'
<1> SUFFICES ASSUME Inv, Unpressed PROVE Inv' OBVIOUS
<1>1. WriterTurn /\ w.pc = "unpressed" BY DEF Unpressed
<1>2. /\ Turn /\ Record(w) /\ LedgerOf(w) /\ (~failed => w.debts \in Seq(Token))
  BY <1>1, WriterHasTurn
<1> DEFINE n == [w EXCEPT !.pc = "acknowledge", !.up = w.ret = "ok"]
<1>3. Fits(n) BY <1>2 DEF Fits, Record, Fields, LedgerOf, Adopting
<1> QED BY <1>2, <1>3, Synchronizes DEF Unpressed

LEMMA AllButLast ==
    ASSUME NEW S, NEW s \in Seq(S)
    PROVE  SubSeq(s, 1, Len(s) - 1) \in Seq(S)
OBVIOUS

LEMMA WithoutIsTyped ==
    ASSUME NEW S, NEW s \in Seq(S), NEW t
    PROVE  Without(s, t) \in Seq(S)
<1> DEFINE i == CHOOSE i \in 1..Len(s) : s[i] = t
           n == Len(s) - 1
           f == [j \in 1..n |-> IF j < i THEN s[j] ELSE s[j + 1]]
<1>1. Len(s) \in Nat /\ \A j \in 1..Len(s) : s[j] \in S OBVIOUS
<1>2. Without(s, t) = f BY DEF Without
<1>3. CASE Len(s) = 0
  <2>1. f = <<>> BY <1>3
  <2> QED BY <1>2, <2>1
<1>4. CASE Len(s) # 0
  <2>1. n \in Nat BY <1>1, <1>4
  <2>2. \A j \in 1..n : j \in 1..Len(s) /\ j + 1 \in 1..Len(s) BY <1>1
  <2>3. \A j \in 1..n : (IF j < i THEN s[j] ELSE s[j + 1]) \in S
    <3> HIDE DEF i
    <3> QED BY <1>1, <2>2
  <2> QED BY <1>2, <2>1, <2>3
<1> QED BY <1>3, <1>4

LEMMA AcknowledgeIsRight == Inv /\ Acknowledge => Inv'
<1> SUFFICES ASSUME Inv, Acknowledge PROVE Inv' OBVIOUS
<1>1. WriterTurn /\ w.pc = "acknowledge" BY DEF Acknowledge
<1>2. /\ Turn /\ Record(w) /\ LedgerOf(w) /\ (~failed => w.debts \in Seq(Token))
  BY <1>1, WriterHasTurn
<1> DEFINE done == w.up /\ w.ret = "ok"
           n == [w EXCEPT !.debts = IF done THEN SubSeq(@, 1, Len(@) - 1) ELSE @,
                          !.typed = Tail(@),
                          !.pc = IF done THEN "type" ELSE "unreleased"]
<1>3. /\ Record(n) /\ LedgerOf(n) /\ n.pc \in {"type", "unreleased"}
      /\ n.debts = IF done THEN SubSeq(w.debts, 1, Len(w.debts) - 1) ELSE w.debts
  BY <1>2 DEF Record, Fields, LedgerOf
<1>4. ~failed => n.debts \in Seq(Token) BY <1>2, <1>3, AllButLast
<1>5. Fits(n) BY <1>3, <1>4 DEF Fits, Adopting
<1> QED BY <1>2, <1>5, Continues DEF Acknowledge, Continue

LEMMA UnreleasedIsRight == Inv /\ Unreleased => Inv'
BY FinishIsRight DEF Unreleased

LEMMA BadFits ==
    ASSUME Inv, WriterTurn, w.pc \notin {"hello", "arm"}
    PROVE  Fits(Bad)
<1>1. Record(w) /\ LedgerOf(w) /\ (~failed => w.debts \in Seq(Token)) BY WriterHasTurn
<1> QED BY <1>1 DEF Bad, Fits, Record, Fields, LedgerOf, Adopting

LEMMA BadIsRight ==
    ASSUME Inv, WriterTurn, w.pc \notin {"hello", "arm"}, Continue(Bad) \/ FailProtocol(Bad)
    PROVE  Inv'
<1>1. Fits(Bad) /\ Turn BY BadFits, WriterHasTurn
<1>2. CASE Continue(Bad) BY <1>1, <1>2, Continues DEF Continue
<1>3. CASE FailProtocol(Bad) BY <1>1, <1>3, Fails DEF Fits
<1> QED BY <1>2, <1>3

LEMMA RestoreIsRight == Inv /\ Restore => Inv'
<1> SUFFICES ASSUME Inv, Restore PROVE Inv' OBVIOUS
<1>1. WriterTurn /\ w.pc = "restore" BY DEF Restore
<1>2. /\ Turn /\ Record(w) /\ LedgerOf(w) /\ (~failed => w.debts \in Seq(Token))
  BY <1>1, WriterHasTurn
<1>3. CASE Continue(Bad) \/ FailProtocol(Bad) BY <1>1, <1>3, BadIsRight
<1>4. ASSUME Continue([w EXCEPT !.pc = "cleanup", !.todo = Reverse(w.debts)]) PROVE Inv'
  <2> DEFINE n == [w EXCEPT !.pc = "cleanup", !.todo = Reverse(w.debts)]
  <2>1. Fits(n) BY <1>2 DEF Fits, Record, Fields, LedgerOf, Adopting
  <2> QED BY <1>2, <1>4, <2>1, Continues DEF Continue
<1>5. ASSUME NEW t, t.key = Head(w.restores), NEW p,
             ExecuteDown(t, [w EXCEPT !.pc = "restored", !.plan = p, !.debts = Append(@, t)])
      PROVE  Inv'
  <2> DEFINE n == [w EXCEPT !.pc = "restored", !.plan = p, !.debts = Append(@, t)]
  <2>1. /\ Record(n) /\ LedgerOf(n) /\ n.pc = "restored" /\ n.debts = Append(w.debts, t)
        /\ n.restores = w.restores
    BY <1>2 DEF Record, Fields, LedgerOf
  <2>2. ASSUME ~failed, t \in prepared
        PROVE  n.debts \in Seq(Token) /\ n.debts # <<>> /\ n.debts[Len(n.debts)] = t
    <3>1. t \in Token /\ w.debts \in Seq(Token)
      BY <1>2, <2>2 DEF Inv, Outside, DaemonTyped
    <3> QED BY <2>1, <3>1
  <2>3. ~failed /\ t \in prepared => Fits(n)
    BY <1>5, <2>1, <2>2 DEF Fits, LastDebt
  <2> QED BY <1>2, <1>5, <2>1, <2>3, ExecutesDown
<1> QED BY <1>3, <1>4, <1>5 DEF Restore

LEMMA RestoredIsRight == Inv /\ Restored => Inv'
<1> SUFFICES ASSUME Inv, Restored PROVE Inv' OBVIOUS
<1>1. WriterTurn /\ w.pc = "restored" BY DEF Restored
<1>2. /\ Turn /\ Record(w) /\ LedgerOf(w) /\ (~failed => w.debts \in Seq(Token))
      /\ w.ret # "err" => LastDebt(w)
  BY <1>1, WriterHasTurn DEF Adopting
<1>3. CASE Continue(Bad) BY <1>1, <1>3, BadIsRight
<1>4. ASSUME w.ret # "err", Synchronize([w EXCEPT !.pc = "adopt"]) PROVE Inv'
  <2> DEFINE n == [w EXCEPT !.pc = "adopt"]
  <2>1. Fits(n) BY <1>2, <1>4 DEF Fits, Record, Fields, LedgerOf, LastDebt
  <2> QED BY <1>2, <1>4, <2>1, Synchronizes
<1> QED BY <1>3, <1>4 DEF Restored

LEMMA AdoptIsRight == Inv /\ Adopt => Inv'
<1> SUFFICES ASSUME Inv, Adopt PROVE Inv' OBVIOUS
<1>1. WriterTurn /\ w.pc = "adopt" BY DEF Adopt
<1>2. /\ Turn /\ Record(w) /\ LedgerOf(w) /\ (~failed => w.debts \in Seq(Token))
      /\ w.ret # "err" => LastDebt(w)
  BY <1>1, WriterHasTurn DEF Adopting
<1>3. CASE Continue(Bad) BY <1>1, <1>3, BadIsRight
<1>4. ASSUME w.ret # "err", NEW t, MirroredCall("Transfer", t, [w EXCEPT !.pc = "adopted"])
      PROVE  Inv'
  <2> DEFINE n == [w EXCEPT !.pc = "adopted"]
  <2>1. Fits(n) BY <1>2, <1>4 DEF Fits, Record, Fields, LedgerOf, LastDebt
  <2> QED BY <1>2, <1>4, <2>1, CallsMirrored
<1> QED BY <1>3, <1>4 DEF Adopt

LEMMA AdoptedIsRight == Inv /\ Adopted => Inv'
<1> SUFFICES ASSUME Inv, Adopted PROVE Inv' OBVIOUS
<1>1. WriterTurn /\ w.pc = "adopted" BY DEF Adopted
<1>2. /\ Turn /\ Record(w) /\ LedgerOf(w)
      /\ w.ret # "err" => LastDebt(w)
  BY <1>1, WriterHasTurn DEF Adopting
<1>3. CASE Continue(Bad) BY <1>1, <1>3, BadIsRight
<1>4. CASE w.ret # "err"
  <2> DEFINE last == w.debts[Len(w.debts)]
             n == [w EXCEPT !.pc = "restore", !.restores = Tail(@),
                            !.debts = SubSeq(@, 1, Len(@) - 1),
                            !.ledger[Head(w.restores)] = last]
  <2>1. last \in Token /\ last.key = Head(w.restores) BY <1>2, <1>4 DEF LastDebt
  <2>2. SubSeq(w.debts, 1, Len(w.debts) - 1) \in Seq(Token)
    BY <1>2, <1>4, AllButLast DEF LastDebt
  <2> HIDE DEF last
  <2>3. /\ n.ledger = [w.ledger EXCEPT ![Head(w.restores)] = last]
        /\ n = [x \in Fields |-> n[x]] /\ n.op = w.op /\ n.steps = w.steps
        /\ n.pc = "restore" /\ n.debts = SubSeq(w.debts, 1, Len(w.debts) - 1)
    BY <1>2 DEF Record, Fields
  <2>4. n.ledger \in [Modifiers -> Token \cup {None}] /\ LedgerOf(n)
    <3> HIDE DEF n
    <3>1. w.ledger \in [Modifiers -> Token \cup {None}] BY <1>2 DEF Record
    <3>2. n.ledger \in [Modifiers -> Token \cup {None}] BY <2>1, <2>3, <3>1
    <3>3. \A m \in Modifiers :
            n.ledger[m] = IF m = Head(w.restores) THEN last ELSE w.ledger[m]
      BY <2>3, <3>1
    <3> QED BY <1>2, <2>1, <3>2, <3>3 DEF LedgerOf
  <2>5. Fits(n) BY <1>2, <2>2, <2>3, <2>4 DEF Fits, Record, Adopting
  <2>6. Continue(n) BY <1>4 DEF Adopted, last
  <2> QED BY <1>2, <2>5, <2>6, Continues DEF Continue
<1> QED BY <1>3, <1>4 DEF Adopted

LEMMA CleanupIsRight == Inv /\ Cleanup => Inv'
<1> SUFFICES ASSUME Inv, Cleanup PROVE Inv' OBVIOUS
<1>1. WriterTurn /\ w.pc = "cleanup" BY DEF Cleanup
<1>2. /\ Turn /\ Record(w) /\ LedgerOf(w) /\ (~failed => w.debts \in Seq(Token))
  BY <1>1, WriterHasTurn
<1>3. CASE Synchronize([w EXCEPT !.pc = "proof"])
  BY <1>1, <1>2, <1>3, MovesOn, Synchronizes
<1>4. CASE KeyUp(Head(w.todo), [w EXCEPT !.pc = "cleaned"])
  <2>1. Fits([w EXCEPT !.pc = "cleaned"])
    BY <1>2 DEF Fits, Record, Fields, LedgerOf, Adopting
  <2> QED BY <1>2, <1>4, <2>1, KeysUp
<1> QED BY <1>3, <1>4 DEF Cleanup

LEMMA CleanedIsRight == Inv /\ Cleaned => Inv'
<1> SUFFICES ASSUME Inv, Cleaned PROVE Inv' OBVIOUS
<1>1. WriterTurn /\ w.pc = "cleaned" BY DEF Cleaned
<1>2. /\ Turn /\ Record(w) /\ LedgerOf(w) /\ (~failed => w.debts \in Seq(Token))
  BY <1>1, WriterHasTurn
<1> DEFINE n == [w EXCEPT !.pc = "cleanedSync", !.up = w.ret = "ok"]
<1>3. Fits(n) BY <1>2 DEF Fits, Record, Fields, LedgerOf, Adopting
<1> QED BY <1>2, <1>3, Synchronizes DEF Cleaned

LEMMA CleanedSyncIsRight == Inv /\ CleanedSync => Inv'
<1> SUFFICES ASSUME Inv, CleanedSync PROVE Inv' OBVIOUS
<1>1. WriterTurn /\ w.pc = "cleanedSync" BY DEF CleanedSync
<1>2. /\ Turn /\ Record(w) /\ LedgerOf(w) /\ (~failed => w.debts \in Seq(Token))
  BY <1>1, WriterHasTurn
<1> DEFINE done == w.up /\ w.ret = "ok"
           n == [w EXCEPT !.pc = "cleanup", !.todo = Tail(@), !.bad = @ \/ ~done,
                          !.debts = IF done THEN Without(@, Head(w.todo)) ELSE @]
<1>3. /\ Record(n) /\ LedgerOf(n) /\ n.pc = "cleanup"
      /\ n.debts = IF done THEN Without(w.debts, Head(w.todo)) ELSE w.debts
  BY <1>2 DEF Record, Fields, LedgerOf
<1>4. ~failed => n.debts \in Seq(Token) BY <1>2, <1>3, WithoutIsTyped
<1>5. Fits(n) BY <1>3, <1>4 DEF Fits, Adopting
<1> QED BY <1>2, <1>5, Continues DEF CleanedSync, Continue

LEMMA ProofIsRight == Inv /\ Proof => Inv'
<1> SUFFICES ASSUME Inv, Proof PROVE Inv' OBVIOUS
<1>1. WriterTurn /\ w.pc = "proof" BY DEF Proof
<1>2. /\ Turn /\ Record(w) /\ LedgerOf(w) /\ (~failed => w.debts \in Seq(Token))
  BY <1>1, WriterHasTurn
<1> DEFINE n == [w EXCEPT !.pc = "report", !.bad = @ \/ w.ret = "err"]
           r == Req("CancelAndDrain", None, None)
<1>3. Fits(n) BY <1>2 DEF Fits, Record, Fields, LedgerOf, Adopting
<1>4. r \in Request /\ r.kind = "CancelAndDrain"
  BY <1>2 DEF Req, Request, Kinds, Record
<1>5. CASE \E x : w' = [n EXCEPT !.ret = x] /\ Healthy
                  /\ UNCHANGED <<cmd, call, prepared, pendingMutation>>
  BY <1>2, <1>3, <1>5, Continues
<1>6. CASE Submit(r, n) /\ Healthy /\ UNCHANGED <<prepared, pendingMutation>>
  <2>1. Calm BY <1>6, StaysCalm DEF Inv, Outside, Healthy
  <2>2. prepared' \subseteq Token BY <1>6 DEF Inv, Outside, DaemonTyped
  <2>3. Submit(r, n) BY <1>6
  <2> HIDE DEF r, n
  <2> QED BY <1>2, <1>3, <1>4, <1>6, <2>1, <2>2, <2>3, Submits DEF Healthy, Touches
<1>7. \/ \E x : w' = [n EXCEPT !.ret = x] /\ Healthy
                /\ UNCHANGED <<cmd, call, prepared, pendingMutation>>
      \/ Submit(r, n) /\ Healthy /\ UNCHANGED <<prepared, pendingMutation>>
  <2> HIDE DEF r
  <2> QED BY DEF Proof, r
<1> QED BY <1>5, <1>6, <1>7

LEMMA ReportIsRight == Inv /\ Report => Inv'
<1> SUFFICES ASSUME Inv, Report PROVE Inv' OBVIOUS
<1>1. WriterTurn /\ w.pc = "report" BY DEF Report
<1>2. /\ Turn /\ Record(w) /\ LedgerOf(w) /\ (~failed => w.debts \in Seq(Token))
  BY <1>1, WriterHasTurn
<1>3. CASE StopWriter("fatal") BY <1>2, <1>3, Stops
<1>4. ASSUME NEW o, Continue([w EXCEPT !.pc = "idle", !.outcome = o]) PROVE Inv'
  <2> DEFINE n == [w EXCEPT !.pc = "idle", !.outcome = o]
  <2>1. Fits(n) BY <1>2 DEF Fits, Record, Fields, LedgerOf, Adopting
  <2> QED BY <1>2, <1>4, <2>1, Continues DEF Continue
<1> QED BY <1>3, <1>4 DEF Report

LEMMA CommitIsRight == Inv /\ Commit => Inv'
<1> SUFFICES ASSUME Inv, Commit PROVE Inv' OBVIOUS
<1>1. WriterTurn /\ w.pc = "commit" BY DEF Commit
<1>2. /\ Turn /\ Record(w) /\ LedgerOf(w) /\ (~failed => w.debts \in Seq(Token))
  BY <1>1, WriterHasTurn
<1>3. CASE StopWriter("fatal") BY <1>2, <1>3, Stops
<1>4. ASSUME NEW m, Continue([w EXCEPT !.pc = "idle", !.ledger[m] = None]) PROVE Inv'
  <2> DEFINE n == [w EXCEPT !.pc = "idle", !.ledger[m] = None]
  <2>1. /\ n.ledger = [w.ledger EXCEPT ![m] = None]
        /\ n = [x \in Fields |-> n[x]] /\ n.op = w.op /\ n.steps = w.steps
        /\ n.pc = "idle" /\ n.debts = w.debts
    BY <1>2 DEF Record, Fields
  <2>2. n.ledger \in [Modifiers -> Token \cup {None}] /\ LedgerOf(n)
    <3> HIDE DEF n
    <3>1. w.ledger \in [Modifiers -> Token \cup {None}] BY <1>2 DEF Record
    <3>2. n.ledger \in [Modifiers -> Token \cup {None}] BY <2>1, <3>1
    <3>3. \A x \in Modifiers : n.ledger[x] = IF x = m THEN None ELSE w.ledger[x]
      BY <2>1, <3>1
    <3> QED BY <1>2, <3>2, <3>3 DEF LedgerOf
  <2>3. Fits(n) BY <1>2, <2>1, <2>2 DEF Fits, Record, Adopting
  <2> QED BY <1>2, <1>4, <2>3, Continues DEF Continue
<1> QED BY <1>3, <1>4 DEF Commit

\* The forwarded release ends the synthetic press: what is committed is up.
LEMMA LetGoIsRight == ASSUME NEW k \in Modifiers PROVE Inv /\ LetGo(k) => Inv'
<1> SUFFICES ASSUME Inv, LetGo(k) PROVE Inv' OBVIOUS
<1>1. /\ Record(w) /\ LedgerOf(w) /\ (~failed => w.debts \in Seq(Token))
  BY DEF Inv, WriterTyped, LedgerIsRight
<1>2. Turn /\ xdown' = xdown \ {k} /\ w.pc = "idle" BY DEF LetGo, Turn
<1>3. CASE Owned(k)
  <2> DEFINE n == [w EXCEPT !.pc = "commit", !.restores = <<k>>]
  <2>1. Fits(n) BY <1>1 DEF Fits, Record, Fields, LedgerOf, Adopting
  <2>2. w.ledger[k].key = k BY <1>1, <1>3 DEF Owned, LedgerOf
  <2>3. MirroredCall("ReleaseCommitted", w.ledger[k], n) BY <1>3 DEF LetGo
  <2> HIDE DEF n
  <2> QED BY <1>2, <2>1, <2>2, <2>3, CallsMirrored
<1>4. CASE ~Owned(k)
  <2>1. Fits(w) BY <1>1, <1>2 DEF Fits, Adopting
  <2>2. Continue(w) BY <1>4 DEF LetGo
  <2> QED BY <1>2, <2>1, <2>2, Continues DEF Continue
<1> QED BY <1>3, <1>4

LEMMA StepsAreTyped ==
    ASSUME NEW mods \in Seq(Modifiers), NEW script \in Seq(Letters)
    PROVE  Steps(mods, script) \in Seq([key : Keys, release : BOOLEAN])
<1> DEFINE rel == Reverse(mods)
           n == Len(mods) + Len(script)
           S == [key : Keys, release : BOOLEAN]
           f == [i \in 1..(n + Len(mods)) |->
                   CASE i <= Len(mods) -> [key |-> rel[i], release |-> TRUE]
                     [] i > n -> [key |-> mods[i - n], release |-> FALSE]
                     [] OTHER -> [key |-> script[i - Len(mods)], release |-> FALSE]]
<1>1. Len(mods) \in Nat /\ Len(script) \in Nat OBVIOUS
<1>2. ASSUME NEW i \in 1..(n + Len(mods)) PROVE f[i] \in S
  <2>1. CASE i <= Len(mods)
    <3>1. Len(mods) + 1 - i \in 1..Len(mods) BY <1>1, <2>1
    <3>2. rel[i] = mods[Len(mods) + 1 - i] BY <1>1, <2>1 DEF Reverse
    <3>3. rel[i] \in Keys BY <3>1, <3>2 DEF Keys
    <3>4. ~(i > n) BY <1>1, <1>2, <2>1
    <3>5. f[i] = [key |-> rel[i], release |-> TRUE]
      <4> HIDE DEF rel, n
      <4> QED BY <1>2, <2>1, <3>4
    <3> QED BY <3>3, <3>5
  <2>2. CASE ~(i <= Len(mods)) /\ i > n
    <3>1. i - n \in 1..Len(mods) BY <1>1, <1>2, <2>2
    <3>2. mods[i - n] \in Keys BY <3>1 DEF Keys
    <3>3. f[i] = [key |-> mods[i - n], release |-> FALSE]
      <4> HIDE DEF rel, n
      <4> QED BY <1>2, <2>2
    <3> QED BY <3>2, <3>3
  <2>3. CASE ~(i <= Len(mods)) /\ ~(i > n)
    <3>1. i - Len(mods) \in 1..Len(script) BY <1>1, <1>2, <2>3
    <3>2. script[i - Len(mods)] \in Keys BY <3>1 DEF Keys
    <3>3. f[i] = [key |-> script[i - Len(mods)], release |-> FALSE]
      <4> HIDE DEF rel, n
      <4> QED BY <1>2, <2>3
    <3> QED BY <3>2, <3>3
  <2> QED BY <2>1, <2>2, <2>3
<1>3. n + Len(mods) \in Nat BY <1>1
<1>4. f \in Seq(S)
  <2>1. f \in [1..(n + Len(mods)) -> S] BY <1>2
  <2> HIDE DEF f, S, n
  <2> QED BY <1>3, <2>1
<1> QED BY <1>4 DEF Steps

LEMMA PressedAreModifiers ==
    ASSUME NEW s \in PressedModifiers
    PROVE  s \in Seq(Modifiers)
<1>1. Order \in Seq(Modifiers) BY ConstantsAssumption
<1>2. Elements(Order) \subseteq Modifiers BY <1>1 DEF Elements
<1>3. Len(Order) \in Nat BY <1>1
<1>4. PICK n \in 0..Len(Order) : s \in [1..n -> Elements(Order)] BY DEF PressedModifiers
<1>5. n \in Nat BY <1>3
<1>6. s \in [1..n -> Modifiers] BY <1>2, <1>4
<1> QED BY <1>5, <1>6

LEMMA BeginIsRight ==
    ASSUME Inv, NEW kind, NEW mods \in Seq(Modifiers), NEW script \in Seq(Letters),
           Begin(kind, mods, script)
    PROVE  Inv'
<1>1. Turn /\ Healthy /\ UNCHANGED <<cmd, call, pendingMutation, prepared>> /\ w.pc = "idle"
  BY DEF Begin, Turn, Healthy, brokerVars, clientVars
<1>2. Record(w) /\ LedgerOf(w) BY DEF Inv, WriterTyped, LedgerIsRight
<1> DEFINE n == [w EXCEPT !.pc = "prepare", !.op = @ + 1, !.kind = kind,
                          !.steps = Steps(mods, script), !.frozen = Reverse(mods),
                          !.typed = script, !.plan = <<>>, !.debts = <<>>,
                          !.restores = <<>>, !.mode = "none", !.bad = FALSE,
                          !.outcome = "none"]
<1>3. /\ n = [x \in Fields |-> n[x]] /\ n.op = w.op + 1 /\ n.steps = Steps(mods, script)
      /\ n.ledger = w.ledger /\ n.pc = "prepare" /\ n.debts = <<>>
  BY <1>2 DEF Record, Fields
<1>4. w' = [n EXCEPT !.ret = "none"] BY <1>2 DEF Begin, Record, Fields
<1> HIDE DEF n
<1>5. Steps(mods, script) \in Seq([key : Keys, release : BOOLEAN]) BY StepsAreTyped
<1>6. Record(n) /\ LedgerOf(n)
  <2>1. n.op \in Nat BY <1>2, <1>3 DEF Record
  <2>2. n.steps \in Seq([key : Keys, release : BOOLEAN]) BY <1>3, <1>5
  <2>3. n.ledger \in [Modifiers -> Token \cup {None}] /\ LedgerOf(n)
    BY <1>2, <1>3 DEF Record, LedgerOf
  <2>4. n = [x \in Fields |-> n[x]] BY <1>3
  <2> QED BY <2>1, <2>2, <2>3, <2>4 DEF Record
<1>7. Fits(n)
  <2>1. <<>> \in Seq(Token) OBVIOUS
  <2>2. n.debts = <<>> /\ n.pc = "prepare" BY <1>3
  <2>3. n.debts \in Seq(Token) BY <2>1, <2>2
  <2> QED BY <1>6, <2>2, <2>3 DEF Fits, Adopting
<1> QED BY <1>1, <1>4, <1>7, Continues

LEMMA StartIsRight == Inv /\ (StartCorrection \/ StartTypeKey) => Inv'
<1>1. ASSUME Inv, StartCorrection PROVE Inv'
  <2>1. PICK mods \in PressedModifiers : Begin("correction", mods, Script)
    BY <1>1 DEF StartCorrection
  <2>2. mods \in Seq(Modifiers) BY PressedAreModifiers
  <2>3. Script \in Seq(Letters) BY ConstantsAssumption
  <2> QED BY <1>1, <2>1, <2>2, <2>3, BeginIsRight
<1>2. ASSUME Inv, StartTypeKey PROVE Inv'
  <2>1. PICK k \in Letters : Begin("key", <<>>, <<k>>) BY <1>2 DEF StartTypeKey
  <2>2. <<>> \in Seq(Modifiers) /\ <<k>> \in Seq(Letters) OBVIOUS
  <2> QED BY <1>2, <2>1, <2>2, BeginIsRight
<1> QED BY <1>1, <1>2

-----------------------------------------------------------------------------
(* The client's steps outside the writer's turns.                          *)

\* What the argument speaks of.
core == <<xdown, failed, stopping, emergency, prepared, pendingMutation, call, reply,
          broker, cmd, w, alive, wireVars, guardianVars>>

LEMMA InvIsOfCore == Inv /\ UNCHANGED core => Inv'
<1> SUFFICES ASSUME Inv, UNCHANGED core PROVE Inv' OBVIOUS
<1> USE DEF core, wireVars, guardianVars
<1>1. DaemonTyped' /\ GuardianTyped' BY DEF Inv, Outside, DaemonTyped, GuardianTyped
<1>2. WriterTyped' /\ LedgerIsRight'
  BY DEF Inv, WriterTyped, Record, LedgerIsRight, LedgerOf, Adopting, LastDebt
<1>3. OneAtATime' /\ InStep' /\ GuardianInStep'
  BY DEF Inv, Outside, OneAtATime, Quiet, InStep, GuardianInStep, GuardianBusy
<1>4. RequestsAreSound'
  BY DEF Inv, Outside, RequestsAreSound, Sound, Covering, Mirrored
<1>5. AnswersAreTrue' BY DEF Inv, Outside, AnswersAreTrue, Done, Tracked
<1>6. GuardianIsRight' BY DEF Inv, Outside, GuardianIsRight, Serving, Tracked, Owed
<1>7. KeysAreOwed' /\ MirrorCovers' /\ EmergencyCovers'
  BY DEF Inv, Outside, KeysAreOwed, MirrorCovers, EmergencyCovers, Owed, Covering, Mirrored
<1> QED BY <1>1, <1>2, <1>3, <1>4, <1>5, <1>6, <1>7 DEF Inv, Outside

LEMMA OthersAreRight ==
    Inv /\ (DeadlinePasses \/ Cancel \/ \E k \in Modifiers : Hold(k)) => Inv'
BY InvIsOfCore
DEF DeadlinePasses, Cancel, Hold, core, brokerVars, clientVars, writerVars

LEMMA ArmIsRight == Inv /\ Arm => Inv'
<1> SUFFICES ASSUME Inv, Arm PROVE Inv' OBVIOUS
<1>1. WriterTurn /\ w.pc \in {"hello", "arm"} BY DEF Arm
<1>2. Turn /\ Record(w) /\ LedgerOf(w) /\ (~failed => w.debts \in Seq(Token))
  BY <1>1, WriterHasTurn
<1>3. CASE w.ret = "ok" /\ ~failed
  <2>1. /\ emergency' = [emergency EXCEPT !.state = "Armed"]
        /\ UNCHANGED <<failed, stopping, cmd, call, prepared, pendingMutation>>
        /\ w' = [w EXCEPT !.pc = "idle", !.ret = "none"]
    BY <1>3 DEF Arm, ArmEmergency
  <2>2. emergency.state = "Unarmed" BY <1>1, <1>3 DEF Inv, LedgerIsRight
  <2>3. /\ emergency' \in Emergency /\ emergency'.state = "Armed"
        /\ emergency'.proof = emergency.proof
    BY <2>1 DEF Inv, Outside, DaemonTyped, Emergency
  <2>4. /\ xdown' = xdown /\ broker' = broker /\ reply' = reply /\ alive' = alive
        /\ UNCHANGED wireVars /\ UNCHANGED guardianVars
    BY <1>1 DEF WriterTurn
  <2>5. Owed = {} /\ Owed' = {}
    BY <2>2, <2>4 DEF Inv, Outside, MirrorCovers, Owed, guardianVars
  <2>6. \A r : Sound(r) => Sound(r)' BY <2>2, <2>4 DEF Sound
  <2>7. DaemonTyped' /\ GuardianTyped'
    BY <2>1, <2>3, <2>4 DEF Inv, Outside, DaemonTyped, GuardianTyped, wireVars, guardianVars
  <2>8. OneAtATime' /\ InStep' /\ GuardianInStep'
    BY <2>1, <2>4
    DEF Inv, Outside, OneAtATime, Quiet, InStep, GuardianInStep, GuardianBusy,
        wireVars, guardianVars
  <2>9. RequestsAreSound'
    BY <2>1, <2>4, <2>6 DEF Inv, Outside, RequestsAreSound, wireVars, guardianVars
  <2>10. AnswersAreTrue' /\ GuardianIsRight'
    BY <2>1, <2>4
    DEF Inv, Outside, AnswersAreTrue, Done, Tracked, GuardianIsRight, Serving, Owed,
        wireVars, guardianVars
  <2>11. KeysAreOwed' /\ MirrorCovers'
    BY <2>1, <2>3, <2>4, <2>5 DEF Inv, Outside, KeysAreOwed, MirrorCovers
  <2>12. EmergencyCovers'
    BY <1>3, <2>1, <2>2, <2>3, <2>4 DEF Inv, Outside, EmergencyCovers, guardianVars
  <2>13. WriterTyped' /\ LedgerIsRight'
    BY <1>2, <2>1 DEF Turn, WriterTyped, Record, Fields, LedgerIsRight, LedgerOf, Adopting
  <2> QED BY <2>7, <2>8, <2>9, <2>10, <2>11, <2>12, <2>13 DEF Inv, Outside
<1>4. CASE ~(w.ret = "ok" /\ ~failed)
  <2>1. /\ stopping' = TRUE /\ w' = [w EXCEPT !.pc = "stopped"]
        /\ UNCHANGED <<failed, emergency, cmd, call, prepared, pendingMutation>>
    BY <1>4 DEF Arm
  <2>2. Calm BY <2>1, StaysCalm DEF Inv, Outside
  <2>3. Effect BY <1>2, <2>1, <2>2 DEF Inv, Outside, DaemonTyped, Effect, Turn
  <2>4. Outside' BY <2>3, EffectKeeps DEF Inv
  <2>5. WriterTyped' /\ LedgerIsRight'
    BY <1>2, <2>1 DEF Turn, WriterTyped, Record, Fields, LedgerIsRight, LedgerOf, Adopting
  <2> QED BY <2>4, <2>5 DEF Inv
<1> QED BY <1>3, <1>4

\* The writer takes the answer.
Taken ==
    /\ call # None /\ reply # None /\ call' = None /\ reply' = None
    /\ UNCHANGED <<xdown, broker, cmd, alive, wireVars, guardianVars>>

LEMMA AnswerIsTaken ==
    ASSUME Outside, Taken,
           emergency' \in Emergency, failed' \in BOOLEAN, stopping' \in BOOLEAN,
           prepared' \subseteq Token, pendingMutation' \in Pending \cup {None},
           stopping => stopping',
           reply = Failure => UNCHANGED <<pendingMutation, emergency>>,
           reply # Failure => pendingSync = None \/ pendingMutation' = None
                              \/ pendingSync = pendingMutation',
           MirrorCovers', EmergencyCovers'
    PROVE  Outside'
<1> USE DEF Outside
<1>1. /\ guardian' = guardian /\ request' = request /\ response' = response
      /\ tokens' = tokens /\ pendingSync' = pendingSync /\ confirmation' = confirmation
      /\ cleanup' = cleanup /\ nextToken' = nextToken /\ alive' = alive
      /\ toGuardian' = toGuardian /\ toDaemon' = toDaemon /\ broker' = broker
      /\ cmd' = cmd /\ xdown' = xdown /\ call' = None /\ reply' = None
  BY DEF Taken, wireVars, guardianVars
<1>2. cmd = None BY DEF InStep, Taken
<1>3. reply # Failure => Quiet BY DEF OneAtATime, Taken
<1>4. DaemonTyped' BY <1>1 DEF DaemonTyped
<1>5. GuardianTyped' BY <1>1 DEF GuardianTyped
<1>6. OneAtATime' BY <1>1 DEF OneAtATime, Quiet, GuardianBusy
<1>7. InStep' BY <1>1, <1>2 DEF InStep, GuardianBusy
<1>8. GuardianInStep' BY <1>1 DEF GuardianInStep, GuardianBusy
<1>9. RequestsAreSound'
  BY <1>1, <1>2, <1>3 DEF RequestsAreSound, Quiet, Sound, Covering, Mirrored
<1>10. AnswersAreTrue'
  BY <1>1, <1>2, <1>3 DEF AnswersAreTrue, Quiet, GuardianBusy, Done, Tracked
<1>11. GuardianIsRight'
  <2>1. pendingMutation' # None /\ pendingSync' # None => pendingSync' = pendingMutation'
    BY <1>1 DEF GuardianIsRight
  <2> QED BY <1>1, <2>1 DEF GuardianIsRight, Serving, Tracked, Owed
<1>12. KeysAreOwed' BY <1>1 DEF KeysAreOwed, Owed
<1> QED BY <1>4, <1>5, <1>6, <1>7, <1>8, <1>9, <1>10, <1>11, <1>12

\* A token leaves the mirror: the others stay.
LEMMA OthersStay ==
    ASSUME NEW s \in Seq(Token), NEW t \in Elements(s), NEW u \in Elements(s), u # t
    PROVE  u \in Elements(Without(s, t))
<1> DEFINE i == CHOOSE i \in 1..Len(s) : s[i] = t
           n == Len(s) - 1
<1>1. i \in 1..Len(s) /\ s[i] = t BY DEF Elements
<1>2. PICK p \in 1..Len(s) : s[p] = u BY DEF Elements
<1>3. Without(s, t) = [j \in 1..n |-> IF j < i THEN s[j] ELSE s[j + 1]] BY DEF Without
<1> HIDE DEF i
<1>4. Len(s) \in Nat /\ n \in Nat BY <1>1
<1>5. Len(Without(s, t)) = n BY <1>3, <1>4
<1>6. CASE p < i
  <2>1. p \in 1..n /\ Without(s, t)[p] = u BY <1>1, <1>2, <1>3, <1>4, <1>6
  <2> QED BY <1>5, <2>1 DEF Elements
<1>7. CASE p > i
  <2>1. p - 1 \in 1..n /\ Without(s, t)[p - 1] = u BY <1>1, <1>2, <1>3, <1>4, <1>7
  <2> QED BY <1>5, <2>1 DEF Elements
<1> QED BY <1>1, <1>2, <1>6, <1>7

\* A token is forgotten whose key nobody owes any more.
LEMMA TokenIsForgotten ==
    ASSUME Inv, Taken, reply # Failure, NEW t, Tracked(t) = {}, RemoveReconciled(t),
           prepared' = prepared, pendingMutation' \in {None, pendingMutation}
    PROVE  Inv'
<1>1. /\ tokens' = tokens /\ guardian' = guardian /\ xdown' = xdown /\ alive' = alive
      /\ call' = None
  BY DEF Taken, guardianVars
<1>2. /\ Record(w) /\ LedgerOf(w) /\ (~failed => w.debts \in Seq(Token)) /\ w.ret # "err"
  BY DEF Inv, WriterTyped, LedgerIsRight, Taken
<1>3. prepared' \subseteq Token /\ pendingMutation' \in Pending \cup {None}
  BY DEF Inv, Outside, DaemonTyped
<1>4. pendingSync = None \/ pendingMutation' = None \/ pendingSync = pendingMutation'
  BY DEF Inv, Outside, GuardianIsRight
<1>5. CASE ContainsPossible(t)
  <2>1. /\ emergency' = [emergency EXCEPT !.mirrored = Without(@, t)]
        /\ w' = [w EXCEPT !.ret = "ok"] /\ UNCHANGED <<failed, stopping>>
    BY <1>5 DEF RemoveReconciled
  <2>2. emergency.state = "Armed" /\ t \in Elements(emergency.mirrored)
    BY <1>5 DEF ContainsPossible, Mirrored
  <2>3. emergency.mirrored \in Seq(Token) BY DEF Inv, Outside, DaemonTyped, Emergency
  <2>4. Without(emergency.mirrored, t) \in Seq(Token) BY <2>3, WithoutIsTyped
  <2>5. /\ emergency' \in Emergency /\ emergency'.state = "Armed"
        /\ emergency'.proof = emergency.proof
        /\ emergency'.mirrored = Without(emergency.mirrored, t)
    BY <2>1, <2>2, <2>4 DEF Inv, Outside, DaemonTyped, Emergency
  <2>6. \A u \in Mirrored : u # t => u \in Mirrored'
    BY <2>2, <2>3, <2>5, OthersStay DEF Mirrored
  <2>7. MirrorCovers'
    <3>1. \A o \in Owed : o.token \in Mirrored /\ o.token # t
      BY <2>2 DEF Inv, Outside, MirrorCovers, Covering, Tracked, Owed
    <3>2. Owed' = Owed BY <1>1 DEF Owed
    <3> QED BY <2>5, <2>6, <3>1, <3>2 DEF MirrorCovers
  <2>8. EmergencyCovers'
    BY <1>1, <2>1, <2>2, <2>5 DEF Inv, Outside, EmergencyCovers
  <2>9. Outside'
    BY <1>3, <1>4, <2>1, <2>5, <2>7, <2>8, AnswerIsTaken DEF Inv, Outside, DaemonTyped
  <2>10. WriterTyped' /\ LedgerIsRight'
    <3>1. ~(w.pc \in {"hello", "arm"} /\ ~failed)
      BY <2>2 DEF Inv, LedgerIsRight
    <3>2. Adopting(w) => LastDebt(w) BY <1>2 DEF Inv, LedgerIsRight
    <3>3. /\ Record(w)' /\ LedgerOf(w)' /\ w'.ret = "ok" /\ w'.pc = w.pc
          /\ w'.debts = w.debts /\ w'.restores = w.restores
      BY <1>2, <2>1, ReturnIsSet
    <3> QED BY <1>1, <1>2, <2>1, <3>1, <3>2, <3>3
            DEF WriterTyped, LedgerIsRight, Adopting, LastDebt
  <2> QED BY <2>9, <2>10 DEF Inv
<1>6. CASE ~ContainsPossible(t)
  <2>1. Fail /\ w' = [w EXCEPT !.ret = "err"] BY <1>6 DEF RemoveReconciled
  <2>2. Calm /\ failed' /\ stopping' BY <2>1, FailIsCalm DEF Inv, Outside
  <2>3. MirrorCovers' /\ EmergencyCovers'
    BY <1>1, <2>2, CalmKeepsKeys DEF Inv, Outside
  <2>4. stopping' \in BOOLEAN BY <2>1 DEF Fail
  <2>5. Outside' BY <1>3, <1>4, <2>2, <2>3, <2>4, AnswerIsTaken DEF Inv, Calm
  <2>6. WriterTyped' /\ LedgerIsRight'
    BY <1>1, <1>2, <2>1, <2>2, ReturnIsSet DEF WriterTyped, LedgerIsRight
  <2> QED BY <2>5, <2>6 DEF Inv
<1> QED BY <1>5, <1>6

\* An answer that leaves the gate and the mirror alone.
LEMMA AnswerIsNoted ==
    ASSUME Inv, Taken, Healthy, NEW x, NEW n, w' = n, n = [w EXCEPT !.ret = x],
           prepared' \subseteq Token, pendingMutation' \in Pending \cup {None},
           reply = Failure => UNCHANGED pendingMutation,
           reply # Failure => pendingSync = None \/ pendingMutation' = None
                              \/ pendingSync = pendingMutation'
    PROVE  Inv'
<1>1. /\ tokens' = tokens /\ guardian' = guardian /\ xdown' = xdown /\ alive' = alive
      /\ call' = None
  BY DEF Taken, guardianVars
<1>2. /\ Record(w) /\ LedgerOf(w) /\ (~failed => w.debts \in Seq(Token)) /\ w.ret # "err"
  BY DEF Inv, WriterTyped, LedgerIsRight, Taken
<1>3. Calm BY StaysCalm DEF Inv, Outside, Healthy
<1>4. MirrorCovers' /\ EmergencyCovers' BY <1>1, <1>3, CalmKeepsKeys DEF Inv, Outside
<1>5. Outside' BY <1>4, AnswerIsTaken DEF Inv, Outside, DaemonTyped, Healthy
<1>6. /\ Record(w)' /\ LedgerOf(w)' /\ w'.ret = x /\ w'.pc = w.pc
      /\ w'.debts = w.debts /\ w'.restores = w.restores
  BY <1>2, ReturnIsSet
<1>7. WriterTyped' /\ LedgerIsRight'
  BY <1>1, <1>2, <1>6 DEF Inv, Healthy, WriterTyped, LedgerIsRight, Adopting, LastDebt
<1> QED BY <1>5, <1>7 DEF Inv

LEMMA PreparedIsRight ==
    ASSUME Inv, Taken, reply # Failure, call.kind = "PrepareKey", ReturnPrepared
    PROVE  Inv'
<1>1. /\ tokens' = tokens /\ guardian' = guardian /\ xdown' = xdown /\ alive' = alive
      /\ call' = None
  BY DEF Taken, guardianVars
<1>2. /\ Record(w) /\ LedgerOf(w) /\ (~failed => w.debts \in Seq(Token)) /\ w.ret # "err"
      /\ w.steps # <<>>
  BY DEF Inv, WriterTyped, LedgerIsRight, Taken
<1>3. Healthy /\ UNCHANGED pendingMutation /\ prepared' = prepared \cup {reply.token}
  BY DEF ReturnPrepared
<1>4. reply.token \in Token
  <2>1. ResponseMatches(call, reply) BY DEF Inv, Outside, InStep, Taken
  <2>2. reply.kind = "Prepared" BY <2>1 DEF ResponseMatches
  <2>3. reply \in Response BY DEF Inv, Outside, DaemonTyped, Taken
  <2> QED BY <2>2, <2>3 DEF Response
<1>5. Calm BY <1>3, StaysCalm DEF Inv, Outside, Healthy
<1>6. MirrorCovers' /\ EmergencyCovers' BY <1>1, <1>5, CalmKeepsKeys DEF Inv, Outside
<1>7. prepared' \subseteq Token BY <1>3, <1>4 DEF Inv, Outside, DaemonTyped
<1>8. pendingSync = None \/ pendingMutation' = None \/ pendingSync = pendingMutation'
  BY <1>3 DEF Inv, Outside, GuardianIsRight
<1>9. Outside'
  BY <1>3, <1>6, <1>7, <1>8, AnswerIsTaken DEF Inv, Outside, DaemonTyped, Healthy
<1>10. Tail(w.steps) \in Seq([key : Keys, release : BOOLEAN]) BY <1>2 DEF Record
<1>11. /\ Record(w)' /\ LedgerOf(w)' /\ w'.ret = "ok" /\ w'.pc = w.pc
       /\ w'.debts = w.debts /\ w'.restores = w.restores
  BY <1>2, <1>10 DEF ReturnPrepared, Record, Fields, LedgerOf
<1>12. WriterTyped' /\ LedgerIsRight'
  BY <1>1, <1>2, <1>3, <1>11
  DEF Inv, Healthy, WriterTyped, LedgerIsRight, Adopting, LastDebt
<1> QED BY <1>9, <1>12 DEF Inv

\* The guardian's session has ended cleanly: nothing is left to release.
LEMMA DrainedIsRight ==
    ASSUME Inv, Taken, reply # Failure, call.kind = "CancelAndDrain", ReturnDrained
    PROVE  Inv'
<1>1. /\ tokens' = tokens /\ guardian' = guardian /\ xdown' = xdown /\ alive' = alive
      /\ call' = None
  BY DEF Taken, guardianVars
<1>2. /\ Record(w) /\ LedgerOf(w) /\ (~failed => w.debts \in Seq(Token)) /\ w.ret # "err"
      /\ w.pc \notin {"hello", "arm"}
  BY DEF Inv, WriterTyped, LedgerIsRight, Taken
<1>3. guardian = "exited"
  <2>1. ResponseMatches(call, reply) BY DEF Inv, Outside, InStep, Taken
  <2>2. reply.kind = "Drained" BY <2>1 DEF ResponseMatches
  <2> QED BY <2>2 DEF Inv, Outside, GuardianInStep, Taken
<1>4. pendingSync = None \/ pendingMutation' = None \/ pendingSync = pendingMutation'
  BY DEF ReturnDrained, Inv, Outside, GuardianIsRight
<1>5. CASE reply.clean
  <2>1. /\ emergency' = [emergency EXCEPT !.state = "Finished", !.proof = "Reconciled"]
        /\ prepared' = {} /\ w' = [w EXCEPT !.ret = "ok"]
        /\ UNCHANGED <<failed, stopping, pendingMutation>>
    BY <1>5 DEF ReturnDrained, Ok
  <2>2. /\ emergency' \in Emergency /\ emergency'.state = "Finished"
        /\ emergency'.proof = "Reconciled"
    BY <2>1 DEF Inv, Outside, DaemonTyped, Emergency
  <2>3. MirrorCovers' BY <2>2 DEF MirrorCovers, Covering
  <2>4. EmergencyCovers' BY <1>1, <1>3, <2>2 DEF EmergencyCovers
  <2>5. Outside'
    BY <1>4, <2>1, <2>2, <2>3, <2>4, AnswerIsTaken DEF Inv, Outside, DaemonTyped
  <2>6. /\ Record(w)' /\ LedgerOf(w)' /\ w'.pc = w.pc
        /\ w'.debts = w.debts /\ w'.restores = w.restores
    BY <1>2, <2>1, ReturnIsSet
  <2>7. WriterTyped' /\ LedgerIsRight'
    BY <1>1, <1>2, <2>1, <2>6 DEF Inv, WriterTyped, LedgerIsRight, Adopting, LastDebt
  <2> QED BY <2>5, <2>7 DEF Inv
<1>6. CASE ~reply.clean
  <2>1. /\ Fail /\ w' = [w EXCEPT !.ret = "err"] /\ prepared' = prepared
        /\ pendingMutation' = pendingMutation
    BY <1>6 DEF ReturnDrained
  <2>2. Calm /\ failed' /\ stopping' BY <2>1, FailIsCalm DEF Inv, Outside
  <2>3. MirrorCovers' /\ EmergencyCovers'
    BY <1>1, <2>2, CalmKeepsKeys DEF Inv, Outside
  <2>4. stopping' \in BOOLEAN BY <2>1 DEF Fail
  <2>5. Outside'
    BY <1>4, <2>1, <2>2, <2>3, <2>4, AnswerIsTaken DEF Inv, Outside, DaemonTyped, Calm
  <2>6. WriterTyped' /\ LedgerIsRight'
    BY <1>1, <1>2, <2>1, <2>2, ReturnIsSet DEF WriterTyped, LedgerIsRight
  <2> QED BY <2>5, <2>6 DEF Inv
<1> QED BY <1>5, <1>6 DEF Inv, Outside

\* The answer is acted upon while what the guardian did for it still holds.
LEMMA ClientReturnIsRight == Inv /\ ClientReturn => Inv'
<1> SUFFICES ASSUME Inv, ClientReturn PROVE Inv' OBVIOUS
<1>1. Taken BY DEF ClientReturn, Taken
<1>2. prepared \subseteq Token /\ pendingMutation \in Pending \cup {None}
      /\ call \in Request
  BY <1>1 DEF Inv, Outside, DaemonTyped, Taken
<1>3. pendingSync = None \/ pendingMutation = None \/ pendingSync = pendingMutation
  BY DEF Inv, Outside, GuardianIsRight
<1>4. CASE reply = Failure
  <2>1. /\ w' = [w EXCEPT !.ret = "err"] /\ Healthy
        /\ UNCHANGED <<prepared, pendingMutation>>
    BY <1>4 DEF ClientReturn
  <2> QED BY <1>1, <1>2, <1>4, <2>1, AnswerIsNoted
<1>5. CASE reply # Failure
  <2>1. Done(call) BY <1>1, <1>5 DEF Inv, Outside, AnswersAreTrue, Taken
  <2>2. CASE call.kind = "PrepareKey"
    BY <1>1, <1>5, <2>2, PreparedIsRight DEF ClientReturn
  <2>3. CASE call.kind \in {"ExecuteDown", "KeyUp"}
    <3>1. ReturnMutation BY <1>5, <2>3 DEF ClientReturn
    <3>2. /\ pendingMutation' = Pended(call) /\ w' = [w EXCEPT !.ret = "ok"] /\ Healthy
          /\ prepared' = prepared
      BY <3>1 DEF ReturnMutation, Ok, Pended
    <3>3. pendingSync \in {None, Pended(call)} BY <2>1, <2>3 DEF Done, Touches
    <3>4. Pended(call) \in Pending BY <1>2, <2>3 DEF Pended, Pending, Request
    <3> QED BY <1>1, <1>2, <1>5, <3>2, <3>3, <3>4, AnswerIsNoted
  <2>4. CASE call.kind = "Synchronize"
    <3>1. ReturnSync BY <1>5, <2>4 DEF ClientReturn
    <3>2. pendingMutation' = None /\ prepared' = prepared BY <3>1 DEF ReturnSync
    <3>3. CASE pendingMutation.up /\ pendingMutation.token \in Mirrored
      <4>1. RemoveReconciled(pendingMutation.token) BY <3>1, <3>3 DEF ReturnSync
      <4>2. pendingMutation # None
        BY <1>1, <2>4 DEF Inv, Outside, RequestsAreSound, Taken
      <4>3. Tracked(pendingMutation.token) = {} BY <2>1, <2>4, <3>3, <4>2 DEF Done
      <4> QED BY <1>1, <1>5, <3>2, <4>1, <4>3, TokenIsForgotten
    <3>4. CASE ~(pendingMutation.up /\ pendingMutation.token \in Mirrored)
      <4>1. w' = [w EXCEPT !.ret = "ok"] /\ Healthy BY <3>1, <3>4 DEF ReturnSync, Ok
      <4> QED BY <1>1, <1>2, <1>5, <3>2, <4>1, AnswerIsNoted
    <3> QED BY <3>3, <3>4
  <2>5. CASE call.kind = "ReleaseCommitted"
    <3>1. RemoveReconciled(call.token) /\ UNCHANGED <<prepared, pendingMutation>>
      BY <1>5, <2>5 DEF ClientReturn
    <3>2. Tracked(call.token) = {} BY <2>1, <2>5 DEF Done
    <3> QED BY <1>1, <1>5, <3>1, <3>2, TokenIsForgotten
  <2>6. CASE call.kind = "CancelAndDrain"
    BY <1>1, <1>5, <2>6, DrainedIsRight DEF ClientReturn
  <2>7. CASE call.kind \in {"Hello", "Transfer"}
    <3>1. /\ w' = [w EXCEPT !.ret = "ok"] /\ Healthy
          /\ UNCHANGED <<prepared, pendingMutation>>
      BY <1>5, <2>7 DEF ClientReturn, Ok
    <3> QED BY <1>1, <1>2, <1>3, <1>5, <3>1, AnswerIsNoted
  <2>8. call.kind \in Kinds BY <1>2 DEF Request
  <2> QED BY <2>2, <2>3, <2>4, <2>5, <2>6, <2>7, <2>8 DEF Kinds
<1> QED BY <1>4, <1>5

\* The call is given up; what was queued or asked for belongs to no one.
LEMMA SubmitTimeoutIsRight == Inv /\ SubmitTimeout => Inv'
<1> SUFFICES ASSUME Inv, SubmitTimeout PROVE Inv' OBVIOUS
<1>1. /\ Fail /\ w' = [w EXCEPT !.ret = "err"] /\ call' = None /\ call # None
      /\ reply = None
      /\ UNCHANGED <<xdown, broker, cmd, reply, prepared, pendingMutation, alive,
                     wireVars, guardianVars>>
  BY DEF SubmitTimeout
<1>2. Calm /\ failed' /\ stopping' BY <1>1, FailIsCalm DEF Inv, Outside
<1>3. /\ guardian' = guardian /\ request' = request /\ response' = response
      /\ tokens' = tokens /\ pendingSync' = pendingSync /\ confirmation' = confirmation
      /\ cleanup' = cleanup /\ nextToken' = nextToken
      /\ toGuardian' = toGuardian /\ toDaemon' = toDaemon
  BY <1>1 DEF wireVars, guardianVars
<1>4. DaemonTyped' /\ GuardianTyped'
  BY <1>1, <1>2, <1>3 DEF Inv, Outside, DaemonTyped, GuardianTyped, Calm, Fail
<1>5. OneAtATime' /\ InStep' /\ GuardianInStep'
  BY <1>1, <1>2, <1>3
  DEF Inv, Outside, OneAtATime, Quiet, InStep, GuardianInStep, GuardianBusy
<1>6. RequestsAreSound'
  <2>1. \A r : Sound(r) => Sound(r)' BY <1>1, <1>2, CalmKeepsSound DEF Sound
  <2> QED BY <1>1, <1>3, <2>1 DEF Inv, Outside, RequestsAreSound
<1>7. AnswersAreTrue' /\ GuardianIsRight'
  BY <1>1, <1>3
  DEF Inv, Outside, AnswersAreTrue, Done, Tracked, GuardianIsRight, Serving, Owed
<1>8. KeysAreOwed' /\ MirrorCovers' /\ EmergencyCovers'
  BY <1>1, <1>2, <1>3, CalmKeepsKeys DEF Inv, Outside
<1>9. WriterTyped' /\ LedgerIsRight'
  BY <1>1, <1>2, ReturnIsSet DEF Inv, WriterTyped, LedgerIsRight
<1> QED BY <1>4, <1>5, <1>6, <1>7, <1>8, <1>9 DEF Inv, Outside

-----------------------------------------------------------------------------
(* The broker.                                                             *)

LEMMA FailureIsAnAnswer == Failure \in Response /\ Failure # None
<1>1. Failure \in Response BY DEF Failure, Resp, Response, Answers
<1> QED BY <1>1, NoneAssumption

\* The writer's record does not change in the steps of others.
LEMMA WriterIsLeft ==
    ASSUME Inv, UNCHANGED <<w, call>>, Calm
    PROVE  WriterTyped' /\ LedgerIsRight'
BY DEF Inv, Calm, WriterTyped, Record, LedgerIsRight, LedgerOf, Adopting, LastDebt

\* Every way in which an exchange ends without an answer.
LEMMA ExchangeIsGivenUp ==
    ASSUME Inv, Fail \/ UNCHANGED <<failed, stopping, emergency>>,
           broker' = "ended", cmd' = None,
           reply' = reply \/ (call # None /\ reply' = Failure),
           call # None => reply' # None,
           toGuardian' = toGuardian, toDaemon' \in {toDaemon, <<>>},
           UNCHANGED <<xdown, w, alive, guardianVars, prepared, pendingMutation, call>>
    PROVE  Inv'
<1>1. Calm /\ (failed => failed') /\ stopping' \in BOOLEAN /\ (stopping => stopping')
  BY StaysCalm, FailIsCalm DEF Inv, Outside, DaemonTyped, Fail
<1>2. /\ guardian' = guardian /\ request' = request /\ response' = response
      /\ tokens' = tokens /\ pendingSync' = pendingSync /\ confirmation' = confirmation
      /\ cleanup' = cleanup /\ nextToken' = nextToken
  BY DEF guardianVars
<1>3. reply' \in Response \cup {None}
  BY FailureIsAnAnswer DEF Inv, Outside, DaemonTyped
<1>4. DaemonTyped' BY <1>1, <1>3 DEF Inv, Outside, DaemonTyped, Calm
<1>5. GuardianTyped' BY <1>2 DEF Inv, Outside, GuardianTyped
<1>6. OneAtATime' BY <1>2 DEF Inv, Outside, OneAtATime, Quiet, GuardianBusy
<1>7. InStep'
  <2>1. call' = None => reply' = None BY DEF Inv, Outside, InStep
  <2>2. reply' # None /\ reply' # Failure => ResponseMatches(call', reply')
    <3>1. ASSUME reply' # None, reply' # Failure PROVE reply' = reply BY <3>1
    <3>2. ASSUME reply' # None, reply' # Failure PROVE ResponseMatches(call, reply)
      BY <3>1, <3>2 DEF Inv, Outside, InStep
    <3> QED BY <3>1, <3>2 DEF ResponseMatches
  <2> QED BY <2>1, <2>2 DEF InStep
<1>8. GuardianInStep'
  <2>1. Failure.kind # "Drained" BY DEF Failure, Resp
  <2> QED BY <1>2, <2>1 DEF Inv, Outside, GuardianInStep, GuardianBusy
<1>9. RequestsAreSound'
  <2>1. \A r : Sound(r) => Sound(r)' BY <1>1, CalmKeepsSound DEF Sound
  <2> QED BY <1>2, <2>1 DEF Inv, Outside, RequestsAreSound
<1>10. AnswersAreTrue' BY <1>2 DEF Inv, Outside, AnswersAreTrue, Done, Tracked
<1>11. GuardianIsRight'
  BY <1>2 DEF Inv, Outside, GuardianIsRight, Serving, Tracked, Owed
<1>12. KeysAreOwed' /\ MirrorCovers' /\ EmergencyCovers'
  BY <1>1, <1>2, CalmKeepsKeys DEF Inv, Outside
<1>13. WriterTyped' /\ LedgerIsRight' BY <1>1, WriterIsLeft
<1> QED BY <1>4, <1>5, <1>6, <1>7, <1>8, <1>9, <1>10, <1>11, <1>12, <1>13 DEF Inv, Outside

LEMMA BrokerGivesUpIsRight == Inv /\ (BrokerGivesUp \/ BrokerIdle) => Inv'
<1> USE FailureIsAnAnswer DEF BrokerUnchanged, writerVars
<1>1. ASSUME Inv, BrokerGivesUp PROVE Inv'
  BY <1>1, ExchangeIsGivenUp DEF BrokerGivesUp
<1>2. ASSUME Inv, BrokerIdle PROVE Inv'
  BY <1>2, ExchangeIsGivenUp DEF BrokerIdle, Healthy
<1> QED BY <1>1, <1>2

\* A queued command is the call's, which was not answered yet.
LEMMA CommandIsOfCall ==
    ASSUME Inv, cmd # None, ~stopping
    PROVE  call = cmd /\ reply = None
BY DEF Inv, Outside, InStep

LEMMA BrokerSendIsRight == Inv /\ BrokerSend => Inv'
<1> SUFFICES ASSUME Inv, BrokerSend PROVE Inv' OBVIOUS
<1> USE DEF BrokerSend, BrokerUnchanged, writerVars
<1>1. call = cmd /\ reply = None /\ cmd # None BY CommandIsOfCall
<1>2. CASE expired BY <1>1, <1>2, FailureIsAnAnswer, ExchangeIsGivenUp
<1>3. CASE ~expired
  <2>1. Quiet BY DEF Inv, Outside, OneAtATime
  <2>2. toGuardian' = <<cmd>> /\ toDaemon' = <<>>
    BY <1>3, <2>1 DEF Quiet
  <2>3. /\ broker' = "exchange" /\ cmd' = cmd /\ reply' = reply /\ Healthy
        /\ UNCHANGED <<xdown, w, alive, guardianVars, prepared, pendingMutation, call>>
    BY <1>3
  <2>4. /\ guardian' = guardian /\ request' = request /\ response' = response
        /\ tokens' = tokens /\ pendingSync' = pendingSync /\ confirmation' = confirmation
        /\ cleanup' = cleanup /\ nextToken' = nextToken
    BY <2>3 DEF guardianVars
  <2> HIDE DEF BrokerSend, BrokerUnchanged
  <2>5. toGuardian' # <<>> /\ Head(toGuardian') = cmd /\ toGuardian' = <<Head(toGuardian')>>
    BY <2>2
  <2>6. Calm BY <2>3, StaysCalm DEF Inv, Outside, Healthy
  <2>7. cmd \in Request BY <1>1 DEF Inv, Outside, DaemonTyped
  <2>8. DaemonTyped' BY <2>3 DEF Inv, Outside, DaemonTyped, Healthy
  <2>9. GuardianTyped' BY <2>2, <2>4, <2>5, <2>7 DEF Inv, Outside, GuardianTyped
  <2>10. OneAtATime'
    BY <1>1, <2>1, <2>2, <2>3, <2>4 DEF OneAtATime, Quiet, GuardianBusy
  <2>11. InStep'
    BY <1>1, <2>1, <2>3, <2>4, <2>5 DEF InStep, Quiet, GuardianBusy
  <2>12. GuardianInStep'
    BY <1>1, <2>2, <2>3, <2>4 DEF Inv, Outside, GuardianInStep, GuardianBusy
  <2>13. RequestsAreSound'
    <3>1. \A r : Sound(r) => Sound(r)' BY <2>3, <2>6, CalmKeepsSound DEF Sound
    <3>2. Sound(cmd) /\ (Touches(cmd) => pendingMutation = None)
      BY <1>1 DEF BrokerSend, Inv, Outside, RequestsAreSound
    <3> QED BY <2>3, <2>5, <3>1, <3>2 DEF Inv, Outside, RequestsAreSound
  <2>14. AnswersAreTrue'
    BY <1>1, <2>1, <2>2, <2>3, <2>4 DEF AnswersAreTrue, Quiet, GuardianBusy
  <2>15. GuardianIsRight'
    BY <2>3, <2>4 DEF Inv, Outside, GuardianIsRight, Serving, Tracked, Owed
  <2>16. KeysAreOwed' /\ MirrorCovers' /\ EmergencyCovers'
    BY <2>3, <2>4, <2>6, CalmKeepsKeys DEF Inv, Outside
  <2>17. WriterTyped' /\ LedgerIsRight' BY <2>3, <2>6, WriterIsLeft
  <2> QED BY <2>8, <2>9, <2>10, <2>11, <2>12, <2>13, <2>14, <2>15, <2>16, <2>17
          DEF Inv, Outside
<1> QED BY <1>2, <1>3

LEMMA BrokerReceiveIsRight == Inv /\ BrokerReceive => Inv'
<1> SUFFICES ASSUME Inv, BrokerReceive PROVE Inv' OBVIOUS
<1> USE DEF BrokerReceive, BrokerUnchanged, writerVars
<1>1. call = cmd /\ reply = None /\ cmd # None
  BY CommandIsOfCall DEF Inv, Outside, InStep
<1>2. toDaemon' = <<>> /\ toGuardian = <<>> /\ toGuardian' = <<>> /\ ~GuardianBusy
  <2>1. toDaemon = <<Head(toDaemon)>> BY DEF Inv, Outside, GuardianTyped
  <2>2. toDaemon' = <<>>
    <3>1. Tail(<<Head(toDaemon)>>) = <<>> OBVIOUS
    <3>2. toDaemon' = Tail(toDaemon) OBVIOUS
    <3> QED BY <2>1, <3>1, <3>2
  <2>3. toGuardian = <<>> /\ ~GuardianBusy BY DEF Inv, Outside, OneAtATime
  <2> QED BY <2>2, <2>3
<1>3. CASE expired \/ ~ResponseMatches(cmd, Head(toDaemon))
  BY <1>1, <1>2, <1>3, FailureIsAnAnswer, ExchangeIsGivenUp
<1>4. CASE ~(expired \/ ~ResponseMatches(cmd, Head(toDaemon)))
  <2> DEFINE a == Head(toDaemon)
  <2>1. /\ reply' = a /\ broker' \in {"ended", "idle"} /\ cmd' = None /\ Healthy
        /\ UNCHANGED <<xdown, w, alive, guardianVars, prepared, pendingMutation, call>>
    BY <1>4
  <2>2. /\ guardian' = guardian /\ request' = request /\ response' = response
        /\ tokens' = tokens /\ pendingSync' = pendingSync /\ confirmation' = confirmation
        /\ cleanup' = cleanup /\ nextToken' = nextToken
    BY <2>1 DEF guardianVars
  <2>3. ResponseMatches(call, a) /\ broker = "exchange" /\ toDaemon # <<>> BY <1>1, <1>4
  <2> HIDE DEF BrokerReceive, BrokerUnchanged
  <2>4. a \in Response /\ a # None
    BY <2>3, NoneAssumption DEF Inv, Outside, GuardianTyped
  <2>5. call \in Request BY <1>1 DEF Inv, Outside, DaemonTyped
  <2>6. a.kind # "Fatal" BY <2>3, <2>5 DEF ResponseMatches, Request, Kinds
  <2>7. Done(call) BY <1>1, <2>3, <2>6 DEF Inv, Outside, AnswersAreTrue
  <2>8. a.kind = "Drained" => guardian = "exited"
    BY <2>3 DEF Inv, Outside, GuardianInStep
  <2> HIDE DEF a
  <2>9. Calm BY <2>1, StaysCalm DEF Inv, Outside, Healthy
  <2>10. DaemonTyped' BY <2>1, <2>4 DEF Inv, Outside, DaemonTyped, Healthy
  <2>11. GuardianTyped' BY <1>2, <2>2 DEF Inv, Outside, GuardianTyped
  <2>12. OneAtATime' BY <1>2, <2>2 DEF OneAtATime, Quiet, GuardianBusy
  <2>13. InStep'
    <3>1. ResponseMatches(call', reply') BY <2>1, <2>3 DEF ResponseMatches
    <3> QED BY <1>1, <2>1, <2>4, <3>1 DEF InStep
  <2>14. GuardianInStep'
    BY <1>2, <2>1, <2>2, <2>8 DEF Inv, Outside, GuardianInStep, GuardianBusy
  <2>15. RequestsAreSound' BY <1>2, <2>1 DEF Inv, Outside, RequestsAreSound
  <2>16. AnswersAreTrue'
    <3>1. Done(call)' BY <2>1, <2>2, <2>7 DEF Done, Tracked
    <3> QED BY <1>2, <2>1, <2>2, <3>1 DEF AnswersAreTrue, GuardianBusy
  <2>17. GuardianIsRight'
    BY <2>1, <2>2 DEF Inv, Outside, GuardianIsRight, Serving, Tracked, Owed
  <2>18. KeysAreOwed' /\ MirrorCovers' /\ EmergencyCovers'
    BY <2>1, <2>2, <2>9, CalmKeepsKeys DEF Inv, Outside
  <2>19. WriterTyped' /\ LedgerIsRight' BY <2>1, <2>9, WriterIsLeft
  <2> QED BY <2>10, <2>11, <2>12, <2>13, <2>14, <2>15, <2>16, <2>17, <2>18, <2>19
          DEF Inv, Outside
<1> QED BY <1>3, <1>4

-----------------------------------------------------------------------------
(* The emergency release.                                                  *)

LEMMA ReversedElements ==
    ASSUME NEW s \in Seq(Token)
    PROVE  Reverse(s) \in Seq(Token) /\ Elements(Reverse(s)) = Elements(s)
<1> DEFINE n == Len(s)
<1>1. n \in Nat /\ \A i \in 1..n : s[i] \in Token OBVIOUS
<1>2. Reverse(s) = [i \in 1..n |-> s[n + 1 - i]] BY DEF Reverse
<1>3. \A i \in 1..n : n + 1 - i \in 1..n /\ n + 1 - (n + 1 - i) = i BY <1>1
<1> HIDE DEF n
<1>4. Reverse(s) \in Seq(Token) /\ Len(Reverse(s)) = n BY <1>1, <1>2, <1>3
<1>5. \A i \in 1..n : Reverse(s)[i] = s[n + 1 - i] BY <1>2
<1>6. Elements(s) = {s[i] : i \in 1..n} BY DEF Elements, n
<1>7. Elements(Reverse(s)) = {Reverse(s)[i] : i \in 1..n} BY <1>4 DEF Elements
<1>8. ASSUME NEW i \in 1..n PROVE s[i] = Reverse(s)[n + 1 - i] /\ n + 1 - i \in 1..n
  <2>1. n + 1 - i \in 1..n /\ n + 1 - (n + 1 - i) = i BY <1>3
  <2> QED BY <1>5, <2>1
<1>9. ASSUME NEW i \in 1..n PROVE Reverse(s)[i] = s[n + 1 - i] /\ n + 1 - i \in 1..n
  BY <1>3, <1>5
<1>10. Elements(s) \subseteq Elements(Reverse(s)) BY <1>6, <1>7, <1>8
<1>11. Elements(Reverse(s)) \subseteq Elements(s) BY <1>6, <1>7, <1>9
<1> QED BY <1>4, <1>10, <1>11

LEMMA TailElements ==
    ASSUME NEW s \in Seq(Token), s # <<>>, NEW u \in Elements(s), u # Head(s)
    PROVE  u \in Elements(Tail(s))
<1>1. PICK i \in 1..Len(s) : s[i] = u BY DEF Elements
<1>2. i # 1 BY <1>1
<1>3. Len(s) \in Nat /\ Len(Tail(s)) = Len(s) - 1 OBVIOUS
<1>4. i - 1 \in 1..Len(Tail(s)) /\ Tail(s)[i - 1] = u BY <1>1, <1>2, <1>3
<1> QED BY <1>4 DEF Elements

\* What only the emergency release changes.
LEMMA EmergencyKeeps ==
    ASSUME Inv, emergency' \in Emergency, failed, xdown' \subseteq xdown,
           emergency'.state \in {"Running", "Finished"},
           emergency'.state = "Running" => Covering /\ Mirrored' = Mirrored,
           EmergencyCovers',
           UNCHANGED <<failed, stopping, prepared, pendingMutation, call, reply, broker, cmd,
                       w, alive, wireVars, guardianVars>>
    PROVE  Inv'
<1>1. /\ guardian' = guardian /\ request' = request /\ response' = response
      /\ tokens' = tokens /\ pendingSync' = pendingSync /\ confirmation' = confirmation
      /\ cleanup' = cleanup /\ nextToken' = nextToken
      /\ toGuardian' = toGuardian /\ toDaemon' = toDaemon
  BY DEF wireVars, guardianVars
<1>2. DaemonTyped' BY DEF Inv, Outside, DaemonTyped
<1>3. GuardianTyped' BY <1>1 DEF Inv, Outside, GuardianTyped
<1>4. OneAtATime' /\ InStep' /\ GuardianInStep'
  BY <1>1
  DEF Inv, Outside, OneAtATime, Quiet, InStep, GuardianInStep, GuardianBusy, ResponseMatches
<1>5. RequestsAreSound'
  <2>1. \A r : Sound(r) => Sound(r)' BY DEF Sound, Covering
  <2> QED BY <1>1, <2>1 DEF Inv, Outside, RequestsAreSound
<1>6. AnswersAreTrue' BY <1>1 DEF Inv, Outside, AnswersAreTrue, Done, Tracked
<1>7. GuardianIsRight' BY <1>1 DEF Inv, Outside, GuardianIsRight, Serving, Tracked, Owed
<1>8. KeysAreOwed' /\ MirrorCovers'
  <2>1. Owed' = Owed BY <1>1 DEF Owed
  <2> QED BY <2>1 DEF Inv, Outside, KeysAreOwed, MirrorCovers, Covering
<1>9. WriterTyped' /\ LedgerIsRight'
  BY DEF Inv, WriterTyped, Record, LedgerIsRight, LedgerOf, Adopting, LastDebt
<1> QED BY <1>2, <1>3, <1>4, <1>5, <1>6, <1>7, <1>8, <1>9 DEF Inv, Outside

\* The failure was noticed before anything was released.
LEMMA ReleaseMeansFailed ==
    ASSUME Inv, emergency.state \in {"Pending", "Running"}
    PROVE  failed
BY DEF Inv, Outside, EmergencyCovers, DaemonTyped

LEMMA StartPendingReleaseIsRight == Inv /\ StartPendingRelease => Inv'
<1> SUFFICES ASSUME Inv, StartPendingRelease PROVE Inv' OBVIOUS
<1>1. emergency.state = "Pending" /\ failed /\ xdown' = xdown /\ failed' = failed
      /\ guardian' = guardian /\ alive' = alive
  BY ReleaseMeansFailed DEF StartPendingRelease, brokerVars, guardianVars
<1>2. UNCHANGED <<failed, stopping, prepared, pendingMutation, call, reply, broker, cmd,
                  w, alive, wireVars, guardianVars>>
  BY DEF StartPendingRelease, brokerVars, clientVars, writerVars
<1>3. emergency.mirrored \in Seq(Token) BY DEF Inv, Outside, DaemonTyped, Emergency
<1>4. \A k \in xdown : \E u \in Mirrored : u.key = k
  BY <1>1 DEF Inv, Outside, KeysAreOwed, MirrorCovers, Covering
<1>5. CASE emergency.mirrored = <<>>
  <2>1. emergency' = [emergency EXCEPT !.state = "Finished", !.proof = "Reconciled"]
    BY <1>5 DEF StartPendingRelease
  <2>2. emergency' \in Emergency /\ emergency'.state = "Finished"
        /\ emergency'.proof = "Reconciled"
    BY <2>1 DEF Inv, Outside, DaemonTyped, Emergency
  <2>3. Mirrored = {} BY <1>5 DEF Mirrored, Elements
  <2>4. xdown = {} BY <1>4, <2>3
  <2>5. EmergencyCovers' BY <1>1, <2>2, <2>4 DEF Inv, Outside, EmergencyCovers
  <2> QED BY <1>1, <1>2, <2>2, <2>5, EmergencyKeeps
<1>6. CASE emergency.mirrored # <<>>
  <2> DEFINE todo == Reverse(emergency.mirrored)
  <2>1. emergency' = [emergency EXCEPT !.state = "Running", !.todo = todo,
                                       !.proof = "Reconciled"]
    BY <1>6 DEF StartPendingRelease
  <2>2. todo \in Seq(Token) /\ Elements(todo) = Mirrored
    BY <1>3, ReversedElements DEF Mirrored
  <2> HIDE DEF todo
  <2>3. emergency' \in Emergency /\ emergency'.state = "Running"
        /\ emergency'.proof = "Reconciled" /\ emergency'.todo = todo
        /\ emergency'.mirrored = emergency.mirrored
    BY <2>1, <2>2 DEF Inv, Outside, DaemonTyped, Emergency
  <2>4. Covering /\ Mirrored' = Mirrored BY <1>1, <2>3 DEF Covering, Mirrored
  <2>5. EmergencyCovers'
    BY <1>1, <1>4, <2>2, <2>3 DEF Inv, Outside, EmergencyCovers
  <2> QED BY <1>1, <1>2, <2>3, <2>4, <2>5, EmergencyKeeps
<1> QED BY <1>5, <1>6

LEMMA EmergencyReleaseIsRight == Inv /\ EmergencyRelease => Inv'
<1> SUFFICES ASSUME Inv, EmergencyRelease PROVE Inv' OBVIOUS
<1>1. emergency.state = "Running" /\ failed /\ emergency.todo # <<>>
  BY ReleaseMeansFailed DEF EmergencyRelease
<1>2. UNCHANGED <<failed, stopping, prepared, pendingMutation, call, reply, broker, cmd,
                  w, alive, wireVars, guardianVars>>
  BY DEF EmergencyRelease, brokerVars, clientVars, writerVars
<1>3. emergency.todo \in Seq(Token) BY DEF Inv, Outside, DaemonTyped, Emergency
<1> DEFINE t == Head(emergency.todo)
<1>4. PICK ok \in BOOLEAN :
        /\ XRequest(ok, xdown \ {t.key})
        /\ emergency' = [emergency EXCEPT !.todo = Tail(@),
                                          !.proof = IF ok THEN @ ELSE "Unreconciled"]
  BY DEF EmergencyRelease
<1>5. Tail(emergency.todo) \in Seq(Token) BY <1>1, <1>3
<1>6. /\ emergency' \in Emergency /\ emergency'.state = "Running"
      /\ emergency'.todo = Tail(emergency.todo)
      /\ emergency'.proof = IF ok THEN emergency.proof ELSE "Unreconciled"
      /\ emergency'.mirrored = emergency.mirrored
  BY <1>1, <1>4, <1>5 DEF Inv, Outside, DaemonTyped, Emergency
<1>7. xdown' \subseteq xdown /\ (ok => xdown' = xdown \ {t.key})
  BY <1>4 DEF XRequest
<1>8. Covering /\ Mirrored' = Mirrored BY <1>1, <1>6 DEF Covering, Mirrored
<1>9. EmergencyCovers'
  <2>1. ASSUME guardian = "killed", emergency'.proof # "Unreconciled", NEW k \in xdown'
        PROVE  \E u \in Elements(Tail(emergency.todo)) : u.key = k
    <3>1. k \in xdown /\ k # t.key BY <1>6, <1>7, <2>1
    <3>2. PICK u \in Elements(emergency.todo) : u.key = k
      BY <1>1, <1>6, <2>1, <3>1 DEF Inv, Outside, EmergencyCovers
    <3> QED BY <1>1, <1>3, <3>1, <3>2, TailElements
  <2>2. guardian' = guardian /\ alive' = alive BY <1>2 DEF guardianVars
  <2> QED BY <1>1, <1>2, <1>6, <2>1, <2>2 DEF Inv, Outside, EmergencyCovers
<1> QED BY <1>1, <1>2, <1>6, <1>7, <1>8, <1>9, EmergencyKeeps

LEMMA EmergencyFinishIsRight == Inv /\ EmergencyFinish => Inv'
<1> SUFFICES ASSUME Inv, EmergencyFinish PROVE Inv' OBVIOUS
<1>1. emergency.state = "Running" /\ failed /\ emergency.todo = <<>>
  BY ReleaseMeansFailed DEF EmergencyFinish
<1>2. UNCHANGED <<failed, stopping, prepared, pendingMutation, call, reply, broker, cmd,
                  w, alive, wireVars, guardianVars>>
  BY DEF EmergencyFinish, brokerVars, clientVars, writerVars
<1>3. PICK ok \in BOOLEAN :
        /\ XRequest(ok, xdown)
        /\ emergency' = [emergency EXCEPT !.state = "Finished",
                                          !.proof = IF ok THEN @ ELSE "Unreconciled"]
  BY DEF EmergencyFinish
<1>4. /\ emergency' \in Emergency /\ emergency'.state = "Finished"
      /\ emergency'.proof = IF ok THEN emergency.proof ELSE "Unreconciled"
  BY <1>3 DEF Inv, Outside, DaemonTyped, Emergency
<1>5. xdown' = xdown BY <1>3 DEF XRequest
<1>6. EmergencyCovers'
  <2>1. Elements(emergency.todo) = {} BY <1>1 DEF Elements
  <2>2. guardian' = guardian /\ alive' = alive BY <1>2 DEF guardianVars
  <2> QED BY <1>1, <1>2, <1>4, <1>5, <2>1, <2>2 DEF Inv, Outside, EmergencyCovers
<1> QED BY <1>1, <1>2, <1>4, <1>5, <1>6, EmergencyKeeps

-----------------------------------------------------------------------------
(* The guardian.                                                           *)

DaemonSide ==
    UNCHANGED <<failed, stopping, broker, emergency, prepared, pendingMutation, call, reply,
                cmd, w, alive>>

LEMMA GuardianLeavesDaemon ==
    ASSUME GuardianTurn PROVE DaemonSide
BY DEF GuardianTurn, DaemonSide, brokerVars, clientVars, writerVars

LEMMA DaemonStays ==
    ASSUME Inv, DaemonSide, ~GuardianGone, guardian' # "killed"
    PROVE  DaemonTyped' /\ WriterTyped' /\ LedgerIsRight' /\ EmergencyCovers'
<1> USE DEF DaemonSide, GuardianGone
<1>1. DaemonTyped' BY DEF Inv, Outside, DaemonTyped
<1>2. WriterTyped' /\ LedgerIsRight'
  BY DEF Inv, WriterTyped, Record, LedgerIsRight, LedgerOf, Adopting, LastDebt
<1>3. EmergencyCovers' BY DEF Inv, Outside, EmergencyCovers
<1> QED BY <1>1, <1>2, <1>3

\* Forgetting makes nothing untrue that was answered.
LEMMA DoneStays ==
    ASSUME tokens' \subseteq tokens, pendingSync' \in {None, pendingSync},
           pendingMutation' = pendingMutation
    PROVE  \A r : Done(r) => Done(r)'
BY DEF Done, Tracked

LEMMA EstablishIdentityIsRight == Inv /\ EstablishIdentity => Inv'
<1> SUFFICES ASSUME Inv, EstablishIdentity PROVE Inv' OBVIOUS
<1>1. /\ guardian = "start" /\ guardian' \in {"hello", "exited"} /\ xdown' = xdown
      /\ UNCHANGED <<toGuardian, toDaemon, request, response, tokens, nextToken,
                     pendingSync, cleanup, confirmation>>
  BY DEF EstablishIdentity, CreateEpochMarker, XRequest, wireVars
<1>2. DaemonSide BY GuardianLeavesDaemon DEF EstablishIdentity
<1>3. DaemonTyped' /\ WriterTyped' /\ LedgerIsRight' /\ EmergencyCovers'
  BY <1>1, <1>2, DaemonStays DEF GuardianGone
<1> USE DEF DaemonSide
<1>4. GuardianTyped' BY <1>1 DEF Inv, Outside, GuardianTyped
<1>5. OneAtATime' /\ InStep' /\ GuardianInStep'
  BY <1>1, <1>2
  DEF Inv, Outside, OneAtATime, Quiet, InStep, GuardianInStep, GuardianBusy, ResponseMatches
<1>6. RequestsAreSound'
  BY <1>1, <1>2 DEF Inv, Outside, RequestsAreSound, Sound, Covering, Mirrored
<1>7. AnswersAreTrue' BY <1>1, <1>2 DEF Inv, Outside, AnswersAreTrue, Done, Tracked
<1>8. GuardianIsRight'
  BY <1>1, <1>2 DEF Inv, Outside, GuardianIsRight, Serving, Tracked, Owed
<1>9. KeysAreOwed' /\ MirrorCovers'
  BY <1>1, <1>2 DEF Inv, Outside, KeysAreOwed, MirrorCovers, Owed, Covering, Mirrored
<1> QED BY <1>3, <1>4, <1>5, <1>6, <1>7, <1>8, <1>9 DEF Inv, Outside

\* The session ends: only what a release is owed for is kept.
LEMMA CleanupBegins ==
    ASSUME Inv, DaemonSide, guardian \in {"hello", "ready"}, guardian' = "finish",
           BeginCleanup, toGuardian' \in {toGuardian, <<>>}, toDaemon' = toDaemon,
           UNCHANGED <<xdown, request, response, nextToken, confirmation>>
    PROVE  Inv'
<1>1. tokens' = Owed /\ cleanup' = Owed /\ pendingSync' = None BY DEF BeginCleanup
<1>2. response = None /\ ~GuardianBusy /\ ~GuardianBusy'
  BY DEF Inv, Outside, GuardianInStep, GuardianBusy
<1>3. Owed' = Owed /\ tokens' \subseteq tokens BY <1>1 DEF Owed
<1>4. DaemonTyped' /\ WriterTyped' /\ LedgerIsRight' /\ EmergencyCovers'
  BY DaemonStays DEF GuardianGone
<1> USE DEF DaemonSide
<1>5. GuardianTyped' BY <1>1, <1>3 DEF Inv, Outside, GuardianTyped
<1>6. OneAtATime' BY <1>2 DEF Inv, Outside, OneAtATime, Quiet
<1>7. InStep' BY <1>2 DEF Inv, Outside, InStep, ResponseMatches
<1>8. GuardianInStep' BY <1>2 DEF Inv, Outside, GuardianInStep
<1>9. RequestsAreSound' BY DEF Inv, Outside, RequestsAreSound, Sound, Covering, Mirrored
<1>10. AnswersAreTrue'
  BY <1>1, <1>3, DoneStays DEF Inv, Outside, AnswersAreTrue
<1>11. GuardianIsRight' BY <1>1 DEF GuardianIsRight, Serving
<1>12. KeysAreOwed' /\ MirrorCovers'
  BY <1>3 DEF Inv, Outside, KeysAreOwed, MirrorCovers, Covering, Mirrored
<1> QED BY <1>4, <1>5, <1>6, <1>7, <1>8, <1>9, <1>10, <1>11, <1>12 DEF Inv, Outside

LEMMA PeerEofIsRight == Inv /\ PeerEof => Inv'
BY CleanupBegins, GuardianLeavesDaemon DEF PeerEof, wireVars

LEMMA SignalIsRight == Inv /\ Signal => Inv'
BY CleanupBegins DEF Signal, DaemonSide, brokerVars, clientVars, writerVars, wireVars

LEMMA CleanupOneIsRight == Inv /\ CleanupOne => Inv'
<1> SUFFICES ASSUME Inv, CleanupOne PROVE Inv' OBVIOUS
<1>1. PICK t \in cleanup, ok \in BOOLEAN :
        /\ XRequest(ok, xdown \ {t.token.key})
        /\ tokens' = IF ok THEN Drop(t.token) ELSE tokens
        /\ cleanup' = cleanup \ {t}
  BY DEF CleanupOne
<1>2. /\ guardian = "finish" /\ guardian' = guardian /\ confirmation' = FALSE
      /\ UNCHANGED <<toGuardian, toDaemon, request, response, nextToken, pendingSync>>
  BY DEF CleanupOne, wireVars
<1>3. xdown' \subseteq xdown /\ (ok => xdown' = xdown \ {t.token.key})
  BY <1>1 DEF XRequest
<1>4. tokens' \subseteq tokens /\ cleanup' \subseteq cleanup /\ Owed' \subseteq Owed
  BY <1>1 DEF Drop, Owed
<1>5. DaemonSide BY GuardianLeavesDaemon DEF CleanupOne
<1>6. DaemonTyped' /\ WriterTyped' /\ LedgerIsRight' /\ EmergencyCovers'
  BY <1>2, <1>5, DaemonStays DEF GuardianGone
<1> USE DEF DaemonSide
<1>7. GuardianTyped' BY <1>2, <1>4 DEF Inv, Outside, GuardianTyped
<1>8. OneAtATime' /\ InStep' /\ GuardianInStep'
  BY <1>2, <1>5
  DEF Inv, Outside, OneAtATime, Quiet, InStep, GuardianInStep, GuardianBusy, ResponseMatches
<1>9. RequestsAreSound'
  BY <1>2, <1>3, <1>5 DEF Inv, Outside, RequestsAreSound, Sound, Covering, Mirrored
<1>10. AnswersAreTrue'
  BY <1>2, <1>4, <1>5, DoneStays DEF Inv, Outside, AnswersAreTrue
<1>11. GuardianIsRight' BY <1>2, <1>5 DEF Inv, Outside, GuardianIsRight, Serving
<1>12. KeysAreOwed'
  <2>1. ASSUME NEW k \in xdown' PROVE \E u \in Owed' : u.token.key = k
    <3>1. PICK u \in Owed : u.token.key = k
      BY <1>3, <2>1 DEF Inv, Outside, KeysAreOwed
    <3>2. CASE ~ok BY <1>1, <3>1, <3>2 DEF Owed
    <3>3. CASE ok
      <4>1. u.token # t.token BY <1>3, <2>1, <3>1, <3>3
      <4>2. u \in Owed' BY <1>1, <3>1, <3>3, <4>1 DEF Owed, Drop, Tracked
      <4> QED BY <3>1, <4>2
    <3> QED BY <1>1, <3>2, <3>3
  <2> QED BY <2>1 DEF KeysAreOwed
<1>13. MirrorCovers' BY <1>4, <1>5 DEF Inv, Outside, MirrorCovers, Covering, Mirrored
<1> QED BY <1>6, <1>7, <1>8, <1>9, <1>10, <1>11, <1>12, <1>13 DEF Inv, Outside

LEMMA CleanupDoneIsRight == Inv /\ CleanupDone => Inv'
<1> SUFFICES ASSUME Inv, CleanupDone PROVE Inv' OBVIOUS
<1>1. /\ guardian = "finish" /\ cleanup' = {}
      /\ UNCHANGED <<xdown, tokens, confirmation, toGuardian, toDaemon, request,
                     nextToken, pendingSync>>
  BY DEF CleanupDone, wireVars
<1>2. \/ /\ response # None /\ guardian' = "reply"
         /\ response' = Resp("Drained", None, tokens = {})
      \/ response = None /\ guardian' = "exited" /\ response' = response
  BY DEF CleanupDone
<1>3. DaemonSide BY DEF CleanupDone, DaemonSide, brokerVars, clientVars, writerVars
<1>4. DaemonTyped' /\ WriterTyped' /\ LedgerIsRight' /\ EmergencyCovers'
  BY <1>1, <1>2, <1>3, DaemonStays DEF GuardianGone
<1>5. response' \in Response \cup {None} /\ (response # None => response' # None)
      /\ (response # None => response'.kind = "Drained")
  <2>1. Resp("Drained", None, tokens = {}) \in Response
    BY DEF Resp, Response, Answers
  <2> QED BY <1>2, <2>1, NoneAssumption DEF Inv, Outside, GuardianTyped, Resp
<1>6. GuardianBusy' <=> GuardianBusy BY <1>1, <1>2 DEF GuardianBusy
<1> USE DEF DaemonSide
<1>7. GuardianTyped' BY <1>1, <1>2, <1>5 DEF Inv, Outside, GuardianTyped
<1>8. OneAtATime' /\ InStep'
  BY <1>1, <1>3, <1>6 DEF Inv, Outside, OneAtATime, Quiet, InStep, ResponseMatches
<1>9. GuardianInStep'
  BY <1>1, <1>2, <1>3, <1>5, <1>6 DEF Inv, Outside, GuardianInStep
<1>10. RequestsAreSound'
  BY <1>1, <1>3 DEF Inv, Outside, RequestsAreSound, Sound, Covering, Mirrored
<1>11. AnswersAreTrue'
  <2>1. \A r : Done(r) => Done(r)' BY <1>1, <1>3, DoneStays
  <2>2. guardian' = "reply" => Done(request)'
    <3>1. guardian' = "reply" => request.kind = "CancelAndDrain"
      BY <1>1, <1>2 DEF Inv, Outside, GuardianInStep
    <3> QED BY <1>1, <3>1 DEF Done, Touches
  <2> QED BY <1>1, <1>3, <2>1, <2>2 DEF Inv, Outside, AnswersAreTrue
<1>12. GuardianIsRight'
  BY <1>1, <1>2, <1>3, <1>5 DEF Inv, Outside, GuardianIsRight, Serving
<1>13. KeysAreOwed' /\ MirrorCovers'
  BY <1>1, <1>3 DEF Inv, Outside, KeysAreOwed, MirrorCovers, Owed, Covering, Mirrored
<1> QED BY <1>4, <1>7, <1>8, <1>9, <1>10, <1>11, <1>12, <1>13 DEF Inv, Outside

\* A guardian may be killed at any moment while the daemon is well: the mirror
\* has what it owed.
LEMMA KillGuardianIsRight == Inv /\ KillGuardian => Inv'
<1> SUFFICES ASSUME Inv, KillGuardian PROVE Inv' OBVIOUS
<1>1. /\ ~GuardianGone /\ alive /\ ~failed /\ guardian' = "killed"
      /\ UNCHANGED <<xdown, toGuardian, toDaemon, request, response, tokens, nextToken,
                     pendingSync, cleanup, confirmation>>
  BY DEF KillGuardian, DaemonLost, wireVars
<1>2. DaemonSide BY DEF KillGuardian, DaemonSide, brokerVars, clientVars, writerVars
<1>3. ~GuardianBusy' BY <1>1 DEF GuardianBusy
<1> USE DEF DaemonSide
<1>4. DaemonTyped' BY <1>2 DEF Inv, Outside, DaemonTyped
<1>5. WriterTyped' /\ LedgerIsRight'
  BY <1>2 DEF Inv, WriterTyped, Record, LedgerIsRight, LedgerOf, Adopting, LastDebt
<1>6. EmergencyCovers' BY <1>1, <1>2 DEF Inv, Outside, EmergencyCovers, GuardianGone
<1>7. GuardianTyped' BY <1>1 DEF Inv, Outside, GuardianTyped
<1>8. OneAtATime' /\ InStep'
  BY <1>1, <1>2, <1>3 DEF Inv, Outside, OneAtATime, Quiet, InStep, ResponseMatches
<1>9. GuardianInStep'
  BY <1>1, <1>2, <1>3 DEF Inv, Outside, GuardianInStep, GuardianGone
<1>10. RequestsAreSound'
  BY <1>1, <1>2 DEF Inv, Outside, RequestsAreSound, Sound, Covering, Mirrored
<1>11. AnswersAreTrue' BY <1>1, <1>2 DEF Inv, Outside, AnswersAreTrue, Done, Tracked
<1>12. GuardianIsRight' BY <1>1, <1>2 DEF Inv, Outside, GuardianIsRight, Serving
<1>13. KeysAreOwed' /\ MirrorCovers'
  BY <1>1, <1>2 DEF Inv, Outside, KeysAreOwed, MirrorCovers, Owed, Covering, Mirrored
<1> QED BY <1>4, <1>5, <1>6, <1>7, <1>8, <1>9, <1>10, <1>11, <1>12, <1>13 DEF Inv, Outside

LEMMA KillDaemonIsRight == Inv /\ KillDaemon => Inv'
<1> SUFFICES ASSUME Inv, KillDaemon PROVE Inv' OBVIOUS
<1>1. /\ ~GuardianGone /\ alive' = FALSE
      /\ UNCHANGED <<xdown, toGuardian, toDaemon, guardian, request, response, tokens,
                     nextToken, pendingSync, cleanup, confirmation, failed, stopping,
                     broker, emergency, prepared, pendingMutation, call, reply, cmd, w>>
  BY DEF KillDaemon, brokerVars, clientVars, writerVars, guardianVars
<1>2. DaemonTyped' /\ GuardianTyped'
  <2>1. DaemonTyped' BY <1>1 DEF Inv, Outside, DaemonTyped
  <2>2. GuardianTyped' BY <1>1 DEF Inv, Outside, GuardianTyped
  <2> QED BY <2>1, <2>2
<1>3. WriterTyped' /\ LedgerIsRight'
  BY <1>1 DEF Inv, WriterTyped, Record, LedgerIsRight, LedgerOf, Adopting, LastDebt
<1>4. EmergencyCovers' BY <1>1 DEF Inv, Outside, EmergencyCovers, GuardianGone
<1>5. OneAtATime' /\ InStep' /\ GuardianInStep'
  BY <1>1
  DEF Inv, Outside, OneAtATime, Quiet, InStep, GuardianInStep, GuardianBusy, ResponseMatches
<1>6. RequestsAreSound'
  BY <1>1 DEF Inv, Outside, RequestsAreSound, Sound, Covering, Mirrored
<1>7. AnswersAreTrue' BY <1>1 DEF Inv, Outside, AnswersAreTrue, Done, Tracked
<1>8. GuardianIsRight' BY <1>1 DEF Inv, Outside, GuardianIsRight, Serving, Tracked, Owed
<1>9. KeysAreOwed' /\ MirrorCovers'
  BY <1>1 DEF Inv, Outside, KeysAreOwed, MirrorCovers, Owed, Covering, Mirrored
<1> QED BY <1>2, <1>3, <1>4, <1>5, <1>6, <1>7, <1>8, <1>9 DEF Inv, Outside

-----------------------------------------------------------------------------
(* The guardian accepts a request and executes it.                         *)

\* A frame is taken: nothing else is on its way.
Accepting(r) ==
    /\ toGuardian # <<>> /\ r = Head(toGuardian) /\ request' = r
    /\ guardian \in {"hello", "ready"} /\ toGuardian' = <<>>
    /\ UNCHANGED <<xdown, nextToken, confirmation, toDaemon>>
    /\ DaemonSide

LEMMA AcceptTakesOne ==
    ASSUME Inv, Accept
    PROVE  Accepting(Head(toGuardian)) /\ Head(toGuardian) \in Request
<1>1. toGuardian # <<>> /\ toGuardian = <<Head(toGuardian)>> /\ Head(toGuardian) \in Request
  BY DEF Accept, Receiving, Inv, Outside, GuardianTyped
<1>2. Tail(<<Head(toGuardian)>>) = <<>> OBVIOUS
<1>3. toGuardian' = <<>> BY <1>1, <1>2 DEF Accept
<1>4. DaemonSide BY GuardianLeavesDaemon DEF Accept
<1> QED BY <1>1, <1>3, <1>4 DEF Accept, Accepting, Receiving

\* What is left to show of a frame that is taken.
LEMMA AcceptKeeps ==
    ASSUME Inv, NEW r \in Request, Accepting(r),
           \/ guardian' = "accepted" /\ response' = None
           \/ guardian' = "reply" /\ response' \in Response /\ response'.kind = "Fatal",
           tokens' \subseteq Tracks, cleanup' \subseteq Tracks,
           pendingSync' \in Pending \cup {None},
           GuardianIsRight', KeysAreOwed', MirrorCovers'
    PROVE  Inv'
<1> USE DEF Accepting
<1>1. /\ toDaemon = <<>> /\ ~GuardianBusy /\ broker # "idle"
      /\ (reply = None \/ reply = Failure)
  BY DEF Inv, Outside, OneAtATime, Quiet
<1>2. guardian' # "killed" /\ ~GuardianGone BY DEF GuardianGone
<1>3. DaemonTyped' /\ WriterTyped' /\ LedgerIsRight' /\ EmergencyCovers'
  BY <1>2, DaemonStays
<1>4. toDaemon' = <<>> /\ GuardianBusy' BY <1>1 DEF GuardianBusy
<1>5. response' \in Response \cup {None} /\ (guardian' = "reply" => response' # None)
  BY NoneAssumption
<1>6. r # None BY NoneAssumption
<1> USE DEF DaemonSide
<1>7. GuardianTyped' BY <1>4, <1>5 DEF Inv, Outside, GuardianTyped
<1>8. OneAtATime' BY <1>1, <1>4 DEF OneAtATime, Quiet
<1>9. InStep'
  BY <1>4 DEF Inv, Outside, InStep, ResponseMatches
<1>10. GuardianInStep'
  <2>1. reply' # None => reply'.kind # "Drained" BY <1>1 DEF Failure, Resp
  <2> QED BY <1>4, <1>5, <1>6, <2>1 DEF GuardianInStep
<1>11. RequestsAreSound' BY <1>1 DEF Inv, Outside, RequestsAreSound
<1>12. AnswersAreTrue' BY <1>1, <1>4 DEF AnswersAreTrue
<1> QED BY <1>3, <1>7, <1>8, <1>9, <1>10, <1>11, <1>12 DEF Inv, Outside

LEMMA RefusedIsRight ==
    ASSUME Inv, NEW r \in Request, Accepting(r), Answer("Fatal", None),
           UNCHANGED <<tokens, pendingSync, cleanup>>
    PROVE  Inv'
<1> USE DEF Accepting
<1>1. guardian' = "reply" /\ response' \in Response /\ response'.kind = "Fatal"
  BY DEF Answer, Resp, Response, Answers
<1>2. tokens' \subseteq Tracks /\ cleanup' \subseteq Tracks
      /\ pendingSync' \in Pending \cup {None}
  BY DEF Inv, Outside, GuardianTyped
<1>3. GuardianIsRight'
  BY <1>1 DEF Inv, Outside, GuardianIsRight, Serving, DaemonSide
<1>4. KeysAreOwed' /\ MirrorCovers'
  BY DEF Inv, Outside, KeysAreOwed, MirrorCovers, Owed, Covering, Mirrored, DaemonSide
<1> QED BY <1>1, <1>2, <1>3, <1>4, AcceptKeeps

\* An accepted request, with what its acceptance does to the accounts.
Accepted(r) ==
    /\ Accepting(r) /\ guardian' = "accepted" /\ response' = None /\ cleanup' = cleanup

LEMMA ServesBefore ==
    ASSUME Inv, NEW r \in Request, Accepted(r)
    PROVE  /\ pendingSync = None => ~confirmation
           /\ confirmation' = confirmation /\ xdown' = xdown
           /\ pendingMutation' = pendingMutation
           /\ tokens \subseteq Tracks /\ cleanup' \subseteq Tracks
           /\ pendingSync \in Pending \cup {None}
           /\ Sound(r) /\ (Touches(r) => pendingMutation = None)
           /\ Covering' = Covering /\ Mirrored' = Mirrored
           /\ emergency' = emergency
           /\ request' = r /\ guardian' = "accepted" /\ response' = None
BY DEF Accepted, Accepting, DaemonSide, Inv, Outside, GuardianIsRight, Serving, GuardianTyped,
       RequestsAreSound, Covering, Mirrored

\* What a change of state does to what is owed.
LEMMA StateIsSet ==
    ASSUME tokens \subseteq Tracks, NEW tok, NEW s \in {"Attempting", "PossiblyDown", "PhysicalDebt"},
           tokens' = SetState(tok, s)
    PROVE  /\ tokens' \subseteq Tracks
           /\ \A t \in Owed : \E u \in Owed' : u.token = t.token
           /\ \A u \in Owed' : u.token = tok \/ \E t \in Owed : t.token = u.token
           /\ Tracked(tok) # {} => \E u \in Owed' : u.token = tok
<1> DEFINE f(t) == IF t.token = tok THEN [t EXCEPT !.state = s] ELSE t
<1>1. tokens' = {f(t) : t \in tokens} BY DEF SetState
<1>2. \A t \in Tracks : /\ f(t) \in Tracks /\ f(t).token = t.token
                        /\ t.token = tok => f(t).state = s
                        /\ t.token # tok => f(t) = t
  BY DEF Tracks
<1> HIDE DEF f
<1>3. tokens' \subseteq Tracks BY <1>1, <1>2
<1>4. \A t \in tokens : t.token = tok => f(t) \in Owed' BY <1>1, <1>2 DEF Owed
<1>5. \A t \in tokens : t.token # tok /\ t \in Owed => f(t) \in Owed'
  BY <1>1, <1>2 DEF Owed
<1>6. \A t \in Owed : \E u \in Owed' : u.token = t.token
  BY <1>2, <1>4, <1>5 DEF Owed
<1>7. \A u \in Owed' : u.token = tok \/ \E t \in Owed : t.token = u.token
  BY <1>1, <1>2 DEF Owed
<1>8. Tracked(tok) # {} => \E u \in Owed' : u.token = tok
  BY <1>2, <1>4 DEF Tracked
<1> QED BY <1>3, <1>6, <1>7, <1>8

\* What is owed keeps every key that is down, and the mirror has it.
LEMMA OwedKeeps ==
    ASSUME Inv, NEW tok, xdown' \subseteq xdown, emergency' = emergency,
           \A t \in Owed : \E u \in Owed' : u.token = t.token,
           \A u \in Owed' : u.token = tok \/ \E t \in Owed : t.token = u.token,
           \/ \E t \in Owed : t.token = tok
           \/ emergency.state # "Unarmed" /\ (Covering => tok \in Mirrored)
    PROVE  KeysAreOwed' /\ MirrorCovers'
<1>1. KeysAreOwed' BY DEF Inv, Outside, KeysAreOwed
<1>2. MirrorCovers' BY DEF Inv, Outside, MirrorCovers, Covering, Mirrored
<1> QED BY <1>1, <1>2

LEMMA PendedIsTyped ==
    ASSUME NEW r \in Request, Touches(r)
    PROVE  r.token \in Token /\ Pended(r) \in Pending /\ Pended(r) # None
<1>1. r.token \in Token BY DEF Touches, Request
<1>2. (r.kind = "KeyUp") \in BOOLEAN OBVIOUS
<1>3. Pended(r) \in Pending BY <1>1, <1>2 DEF Pended, Pending
<1> QED BY <1>1, <1>3, NoneAssumption

LEMMA TouchIsAccepted ==
    ASSUME Inv, NEW r \in Request, Accepted(r), Touches(r), Accepts(r),
           pendingSync' = Pended(r),
           tokens' = IF r.kind = "ExecuteDown" THEN SetState(r.token, "Attempting") ELSE tokens
    PROVE  Inv'
<1>1. pendingSync = None /\ Tracked(r.token) # {} /\ r.token \in Token
  BY DEF Accepts, AcceptsDown, AcceptsUp, Touches, Request
<1> DEFINE facts ==
           /\ ~confirmation' /\ xdown' = xdown /\ pendingMutation' = None
           /\ tokens \subseteq Tracks /\ cleanup' \subseteq Tracks /\ Sound(r)
           /\ Covering' = Covering /\ Mirrored' = Mirrored /\ emergency' = emergency
           /\ request' = r /\ guardian' = "accepted" /\ response' = None
<1>2. facts BY <1>1, ServesBefore
<1>3. pendingSync' \in Pending /\ pendingSync' # None BY PendedIsTyped
<1>4. CASE r.kind = "ExecuteDown"
  <2>1. tokens' = SetState(r.token, "Attempting") BY <1>4
  <2>2. /\ tokens' \subseteq Tracks
        /\ \A t \in Owed : \E u \in Owed' : u.token = t.token
        /\ \A u \in Owed' : u.token = r.token \/ \E t \in Owed : t.token = u.token
        /\ \E u \in Owed' : u.token = r.token
    BY <1>1, <1>2, <2>1, StateIsSet
  <2>3. KeysAreOwed' /\ MirrorCovers'
    BY <1>2, <1>4, <2>2, OwedKeeps DEF Sound
  <2>4. GuardianIsRight'
    BY <1>2, <1>3, <1>4, <2>2 DEF GuardianIsRight, Touches, Pended
  <2> QED BY <1>2, <1>3, <2>2, <2>3, <2>4, AcceptKeeps DEF Accepted
<1>5. CASE r.kind = "KeyUp"
  <2>1. tokens' = tokens /\ Owed' = Owed BY <1>5 DEF Owed
  <2>2. KeysAreOwed' /\ MirrorCovers'
    BY <1>2, <2>1 DEF Inv, Outside, KeysAreOwed, MirrorCovers
  <2>3. GuardianIsRight'
    BY <1>2, <1>3, <1>5, <2>1 DEF GuardianIsRight, Touches, Pended
  <2> QED BY <1>2, <1>3, <2>1, <2>2, <2>3, AcceptKeeps DEF Accepted
<1> QED BY <1>4, <1>5 DEF Touches

LEMMA TransferIsAccepted ==
    ASSUME Inv, NEW r \in Request, Accepted(r), r.kind = "Transfer", Accepts(r),
           pendingSync' = pendingSync, tokens' = SetState(r.token, "PhysicalDebt")
    PROVE  Inv'
<1>1. pendingSync = None /\ \E t \in Owed : t.token = r.token
  BY DEF Accepts, AcceptsTransfer, Owed, Tracked
<1>2. /\ ~confirmation' /\ xdown' = xdown
      /\ tokens \subseteq Tracks /\ cleanup' \subseteq Tracks
      /\ emergency' = emergency
      /\ request' = r /\ guardian' = "accepted" /\ response' = None
  BY <1>1, ServesBefore
<1>3. /\ tokens' \subseteq Tracks
      /\ \A t \in Owed : \E u \in Owed' : u.token = t.token
      /\ \A u \in Owed' : u.token = r.token \/ \E t \in Owed : t.token = u.token
  BY <1>2, StateIsSet
<1>4. KeysAreOwed' /\ MirrorCovers' BY <1>1, <1>2, <1>3, OwedKeeps
<1>5. GuardianIsRight' BY <1>1, <1>2 DEF GuardianIsRight, Touches
<1> QED BY <1>1, <1>2, <1>3, <1>4, <1>5, AcceptKeeps DEF Accepted

LEMMA ReleaseIsAccepted ==
    ASSUME Inv, NEW r \in Request, Accepted(r), r.kind = "ReleaseCommitted", Accepts(r),
           pendingSync' = pendingSync, tokens' = Drop(r.token)
    PROVE  Inv'
<1>1. pendingSync = None BY DEF Accepts, AcceptsRelease
<1>2. /\ ~confirmation' /\ xdown' = xdown
      /\ tokens \subseteq Tracks /\ cleanup' \subseteq Tracks
      /\ emergency' = emergency /\ Covering' = Covering /\ Mirrored' = Mirrored
      /\ r.token.key \notin xdown
      /\ request' = r /\ guardian' = "accepted" /\ response' = None
  BY <1>1, ServesBefore DEF Sound
<1>3. tokens' \subseteq tokens /\ Owed' \subseteq Owed /\ Tracked(r.token)' = {}
  BY DEF Drop, Tracked, Owed
<1>4. KeysAreOwed'
  <2>1. ASSUME NEW k \in xdown PROVE \E u \in Owed' : u.token.key = k
    <3>1. PICK u \in Owed : u.token.key = k BY DEF Inv, Outside, KeysAreOwed
    <3>2. u.token # r.token BY <1>2, <3>1
    <3>3. u \in Owed' BY <3>1, <3>2 DEF Owed, Drop, Tracked
    <3> QED BY <3>1, <3>3
  <2> QED BY <1>2, <2>1 DEF KeysAreOwed
<1>5. MirrorCovers' BY <1>2, <1>3 DEF Inv, Outside, MirrorCovers
<1>6. GuardianIsRight' BY <1>1, <1>2, <1>3 DEF GuardianIsRight, Touches
<1> QED BY <1>1, <1>2, <1>3, <1>4, <1>5, <1>6, AcceptKeeps DEF Accepted

LEMMA OtherIsAccepted ==
    ASSUME Inv, NEW r \in Request, Accepted(r), Accepts(r), tokens' = tokens,
           r.kind \in {"Hello", "PrepareKey", "Synchronize", "CancelAndDrain"},
           pendingSync' = IF r.kind = "CancelAndDrain" THEN None ELSE pendingSync
    PROVE  Inv'
<1>1. /\ confirmation' = confirmation /\ xdown' = xdown
      /\ pendingSync = None => ~confirmation
      /\ pendingMutation' = pendingMutation
      /\ tokens \subseteq Tracks /\ cleanup' \subseteq Tracks
      /\ pendingSync \in Pending \cup {None}
      /\ emergency' = emergency /\ Covering' = Covering /\ Mirrored' = Mirrored
      /\ request' = r /\ guardian' = "accepted" /\ response' = None
  BY ServesBefore
<1>2. Owed' = Owed BY DEF Owed
<1>3. KeysAreOwed' /\ MirrorCovers'
  BY <1>1, <1>2 DEF Inv, Outside, KeysAreOwed, MirrorCovers
<1>4. r.kind = "Synchronize" => pendingSync # None /\ pendingSync.token = r.token
  BY DEF Accepts, AcceptsSynchronize
<1>5. GuardianIsRight'
  BY <1>1, <1>4 DEF Inv, Outside, GuardianIsRight, Touches, Serving
<1> QED BY <1>1, <1>3, <1>5, AcceptKeeps DEF Accepted

LEMMA AcceptIsRight == Inv /\ Accept => Inv'
<1> SUFFICES ASSUME Inv, Accept PROVE Inv' OBVIOUS
<1> DEFINE r == Head(toGuardian)
<1>1. Accepting(r) /\ r \in Request BY AcceptTakesOne
<1>2. CASE ~Accepts(r)
  <2>1. Answer("Fatal", None) /\ UNCHANGED <<tokens, pendingSync, cleanup>>
    BY <1>2 DEF Accept
  <2> QED BY <1>1, <2>1, RefusedIsRight
<1>3. CASE Accepts(r)
  <2>1. /\ tokens' = CASE r.kind = "ExecuteDown" -> SetState(r.token, "Attempting")
                       [] r.kind = "Transfer" -> SetState(r.token, "PhysicalDebt")
                       [] r.kind = "ReleaseCommitted" -> Drop(r.token)
                       [] OTHER -> tokens
        /\ pendingSync' = CASE r.kind \in {"ExecuteDown", "KeyUp"} ->
                                 [token |-> r.token, up |-> r.kind = "KeyUp"]
                            [] r.kind = "CancelAndDrain" -> None
                            [] OTHER -> pendingSync
        /\ guardian' = "accepted" /\ response' = response /\ cleanup' = cleanup
    BY <1>3 DEF Accept
  <2> HIDE DEF r
  <2>2. response = None BY <1>1 DEF Accepting, Inv, Outside, GuardianInStep
  <2>3. Accepted(r) BY <1>1, <2>1, <2>2 DEF Accepted
  <2>4. r.kind \in Kinds BY <1>1 DEF Request
  <2>5. CASE r.kind \in {"ExecuteDown", "KeyUp"}
    <3>1. Touches(r) /\ pendingSync' = Pended(r) BY <2>1, <2>5 DEF Touches, Pended
    <3>2. tokens' = IF r.kind = "ExecuteDown" THEN SetState(r.token, "Attempting")
                    ELSE tokens
      BY <2>1, <2>5
    <3> QED BY <1>1, <1>3, <2>3, <3>1, <3>2, TouchIsAccepted
  <2>6. CASE r.kind = "Transfer"
    BY <1>1, <1>3, <2>1, <2>3, <2>6, TransferIsAccepted
  <2>7. CASE r.kind = "ReleaseCommitted"
    BY <1>1, <1>3, <2>1, <2>3, <2>7, ReleaseIsAccepted
  <2>8. CASE r.kind \in {"Hello", "PrepareKey", "Synchronize", "CancelAndDrain"}
    BY <1>1, <1>3, <2>1, <2>3, <2>8, OtherIsAccepted
  <2> QED BY <2>4, <2>5, <2>6, <2>7, <2>8 DEF Kinds
<1> QED BY <1>2, <1>3

\* What is left to show when an accepted request is executed and answered.
LEMMA AnswerKeeps ==
    ASSUME Inv, DaemonSide, guardian = "accepted", guardian' = "reply",
           response' \in Response, UNCHANGED <<toGuardian, toDaemon, request, cleanup>>,
           tokens' \subseteq Tracks, nextToken' \in Nat,
           pendingSync' \in Pending \cup {None}, confirmation' \in BOOLEAN,
           response'.kind = "Drained" => request.kind = "CancelAndDrain",
           response'.kind # "Fatal" => Done(request)',
           GuardianIsRight', KeysAreOwed', MirrorCovers'
    PROVE  Inv'
<1>1. /\ toDaemon = <<>> /\ toGuardian = <<>> /\ GuardianBusy /\ broker # "idle"
      /\ (reply = None \/ reply = Failure)
  BY DEF Inv, Outside, OneAtATime, Quiet, GuardianBusy
<1>2. DaemonTyped' /\ WriterTyped' /\ LedgerIsRight' /\ EmergencyCovers'
  BY DaemonStays DEF GuardianGone
<1>3. GuardianBusy' BY DEF GuardianBusy
<1>4. response' # None BY NoneAssumption
<1> USE DEF DaemonSide
<1>5. GuardianTyped' BY DEF Inv, Outside, GuardianTyped
<1>6. OneAtATime' BY <1>1, <1>3 DEF OneAtATime, Quiet
<1>7. InStep' BY <1>1, <1>3 DEF Inv, Outside, InStep, ResponseMatches
<1>8. GuardianInStep'
  <2>1. request' # None BY <1>1 DEF Inv, Outside, GuardianInStep
  <2>2. reply' # None => reply'.kind # "Drained" BY <1>1 DEF Failure, Resp
  <2> QED BY <1>1, <1>4, <2>1, <2>2 DEF GuardianInStep
<1>9. RequestsAreSound' BY <1>1 DEF Inv, Outside, RequestsAreSound
<1>10. AnswersAreTrue' BY <1>1 DEF AnswersAreTrue
<1> QED BY <1>2, <1>5, <1>6, <1>7, <1>8, <1>9, <1>10 DEF Inv, Outside

\* The request that is executed.
LEMMA ExecutingHas ==
    ASSUME Inv, NEW kind, Executing(kind)
    PROVE  /\ DaemonSide /\ guardian = "accepted" /\ request.kind = kind
           /\ request \in Request /\ request' = request
           /\ UNCHANGED <<toGuardian, toDaemon>>
           /\ tokens \subseteq Tracks /\ nextToken \in Nat /\ confirmation \in BOOLEAN
           /\ pendingSync \in Pending \cup {None}
           /\ kind # "CancelAndDrain" /\ pendingSync = None => ~confirmation
           /\ Touches(request) => pendingSync = Pended(request)
           /\ pendingMutation # None /\ pendingSync # None => pendingSync = pendingMutation
<1>1. DaemonSide BY GuardianLeavesDaemon DEF Executing
<1>2. guardian = "accepted" /\ request.kind = kind /\ request' = request
      /\ UNCHANGED <<toGuardian, toDaemon>>
  BY DEF Executing, wireVars
<1>3. request # None BY <1>2 DEF Inv, Outside, GuardianInStep, GuardianBusy
<1> QED BY <1>1, <1>2, <1>3 DEF Inv, Outside, GuardianTyped, GuardianIsRight, Serving

LEMMA ExecutePrepareKeyIsRight == Inv /\ ExecutePrepareKey => Inv'
<1> SUFFICES ASSUME Inv, ExecutePrepareKey PROVE Inv' OBVIOUS
<1> DEFINE t == [id |-> nextToken, key |-> request.key]
           e == [token |-> t, op |-> request.op, state |-> "Prepared"]
<1>1. Executing("PrepareKey") BY DEF ExecutePrepareKey
<1>2. /\ DaemonSide /\ guardian = "accepted" /\ request.kind = "PrepareKey"
      /\ request \in Request /\ request' = request
      /\ UNCHANGED <<toGuardian, toDaemon>>
      /\ tokens \subseteq Tracks /\ nextToken \in Nat /\ confirmation \in BOOLEAN
      /\ pendingSync \in Pending \cup {None}
      /\ pendingSync = None => ~confirmation
      /\ pendingMutation # None /\ pendingSync # None => pendingSync = pendingMutation
  BY <1>1, ExecutingHas
<1>3. xdown' = xdown /\ UNCHANGED <<pendingSync, cleanup, confirmation>>
  BY DEF ExecutePrepareKey, XRequest
<1>4. \/ Answer("Fatal", None) /\ UNCHANGED <<tokens, nextToken>>
      \/ tokens' = tokens \cup {e} /\ nextToken' = nextToken + 1 /\ Answer("Prepared", t)
  BY DEF ExecutePrepareKey
<1>5. t \in Token /\ e \in Tracks
  BY <1>2 DEF Token, Tracks, Request
<1> HIDE DEF t
<1>6. /\ guardian' = "reply" /\ response' \in Response
      /\ response'.kind \in {"Fatal", "Prepared"}
  <2>1. CASE Answer("Fatal", None) BY <2>1 DEF Answer, Resp, Response, Answers
  <2>2. CASE Answer("Prepared", t) BY <1>5, <2>2 DEF Answer, Resp, Response, Answers
  <2> QED BY <1>4, <2>1, <2>2
<1>7. tokens' \subseteq Tracks /\ nextToken' \in Nat BY <1>2, <1>4, <1>5
<1>8. Owed' = Owed BY <1>4 DEF Owed
<1>9. Done(request)' BY <1>2 DEF Done, Touches
<1>10. GuardianIsRight'
  BY <1>2, <1>3, <1>6
  DEF Inv, Outside, GuardianIsRight, DaemonSide
<1>11. KeysAreOwed' /\ MirrorCovers'
  BY <1>2, <1>3, <1>8
  DEF Inv, Outside, KeysAreOwed, MirrorCovers, Covering, Mirrored, DaemonSide
<1> QED BY <1>2, <1>3, <1>6, <1>7, <1>9, <1>10, <1>11, AnswerKeeps

\* A press that failed counts as possibly down: its token is owed already.
LEMMA ExecuteKeyDownIsRight == Inv /\ ExecuteKeyDown => Inv'
<1> SUFFICES ASSUME Inv, ExecuteKeyDown PROVE Inv' OBVIOUS
<1> DEFINE tok == request.token
<1>1. Executing("ExecuteDown") BY DEF ExecuteKeyDown
<1>2. /\ DaemonSide /\ guardian = "accepted" /\ request.kind = "ExecuteDown"
      /\ request \in Request /\ request' = request
      /\ UNCHANGED <<toGuardian, toDaemon>>
      /\ tokens \subseteq Tracks /\ nextToken \in Nat
      /\ pendingSync \in Pending \cup {None}
      /\ pendingSync = Pended(request)
      /\ pendingMutation # None /\ pendingSync # None => pendingSync = pendingMutation
  BY <1>1, ExecutingHas DEF Touches
<1>3. PICK ok \in BOOLEAN :
        /\ XRequest(ok, xdown \cup {tok.key})
        /\ confirmation' = ok
        /\ Answer(IF ok THEN "Ack" ELSE "Fatal", tok)
  BY DEF ExecuteKeyDown
<1>4. /\ xdown' \subseteq xdown \cup {tok.key}
      /\ tokens' = SetState(tok, "PossiblyDown")
      /\ UNCHANGED <<nextToken, pendingSync, cleanup>>
  BY <1>3 DEF ExecuteKeyDown, XRequest
<1>5. tok \in Token BY <1>2 DEF Request
<1> HIDE DEF tok
<1>6. /\ guardian' = "reply" /\ response' \in Response
      /\ response'.kind \in {"Fatal", "Ack"}
  BY <1>3, <1>5 DEF Answer, Resp, Response, Answers
<1>7. PICK o \in Owed : o.token = tok
  BY <1>2 DEF Inv, Outside, GuardianIsRight, tok
<1>8. /\ tokens' \subseteq Tracks
      /\ \A t \in Owed : \E u \in Owed' : u.token = t.token
      /\ \A u \in Owed' : u.token = tok \/ \E t \in Owed : t.token = u.token
  BY <1>2, <1>4, StateIsSet
<1>9. KeysAreOwed'
  <2>1. \E u \in Owed' : u.token = tok BY <1>7, <1>8
  <2> QED BY <1>4, <1>8, <2>1 DEF Inv, Outside, KeysAreOwed
<1>10. MirrorCovers'
  <2>1. Covering' = Covering /\ Mirrored' = Mirrored
    BY <1>2 DEF DaemonSide, Covering, Mirrored
  <2>2. \A u \in Owed' : \E t \in Owed : t.token = u.token BY <1>7, <1>8
  <2> QED BY <1>2, <2>1, <2>2 DEF Inv, Outside, MirrorCovers, DaemonSide
<1>11. Done(request)' BY <1>2, <1>4 DEF Done, Touches, Pended
<1>12. GuardianIsRight'
  <2>1. pendingSync # None BY <1>2, PendedIsTyped DEF Touches
  <2>2. ~pendingSync.up BY <1>2 DEF Pended
  <2> QED BY <1>2, <1>4, <1>6, <2>1, <2>2 DEF GuardianIsRight, DaemonSide
<1> QED BY <1>2, <1>3, <1>4, <1>6, <1>8, <1>9, <1>10, <1>11, <1>12, AnswerKeeps

LEMMA ExecuteKeyUpIsRight == Inv /\ ExecuteKeyUp => Inv'
<1> SUFFICES ASSUME Inv, ExecuteKeyUp PROVE Inv' OBVIOUS
<1> DEFINE tok == request.token
<1>1. Executing("KeyUp") BY DEF ExecuteKeyUp
<1>2. /\ DaemonSide /\ guardian = "accepted" /\ request.kind = "KeyUp"
      /\ request \in Request /\ request' = request
      /\ UNCHANGED <<toGuardian, toDaemon>>
      /\ tokens \subseteq Tracks /\ nextToken \in Nat
      /\ pendingSync \in Pending \cup {None}
      /\ pendingSync = Pended(request)
      /\ pendingMutation # None /\ pendingSync # None => pendingSync = pendingMutation
  BY <1>1, ExecutingHas DEF Touches
<1>3. PICK ok \in BOOLEAN :
        /\ XRequest(ok, xdown \ {tok.key})
        /\ confirmation' = ok
        /\ Answer(IF ok THEN "Ack" ELSE "Fatal", tok)
  BY DEF ExecuteKeyUp
<1>4. /\ xdown' \subseteq xdown /\ (confirmation' => tok.key \notin xdown')
      /\ UNCHANGED <<tokens, nextToken, pendingSync, cleanup>>
  BY <1>3 DEF ExecuteKeyUp, XRequest
<1>5. tok \in Token /\ pendingSync # None /\ pendingSync.token = tok
  <2>1. tok \in Token /\ Pended(request) # None BY <1>2, PendedIsTyped DEF Touches
  <2> QED BY <1>2, <2>1 DEF Pended
<1> HIDE DEF tok
<1>6. /\ guardian' = "reply" /\ response' \in Response
      /\ response'.kind \in {"Fatal", "Ack"}
  BY <1>3, <1>5 DEF Answer, Resp, Response, Answers
<1>7. Owed' = Owed BY <1>4 DEF Owed
<1>8. KeysAreOwed' /\ MirrorCovers'
  BY <1>2, <1>4, <1>7
  DEF Inv, Outside, KeysAreOwed, MirrorCovers, Covering, Mirrored, DaemonSide
<1>9. Done(request)' BY <1>2, <1>4 DEF Done, Touches, Pended
<1>10. GuardianIsRight'
  BY <1>2, <1>4, <1>5, <1>6 DEF GuardianIsRight, DaemonSide
<1> QED BY <1>2, <1>3, <1>4, <1>6, <1>8, <1>9, <1>10, AnswerKeeps

\* A confirmed release forgets its token: the key is up.
LEMMA ExecuteSynchronizeIsRight == Inv /\ ExecuteSynchronize => Inv'
<1> SUFFICES ASSUME Inv, ExecuteSynchronize PROVE Inv' OBVIOUS
<1> DEFINE tok == request.token
<1>1. Executing("Synchronize") BY DEF ExecuteSynchronize
<1>2. /\ DaemonSide /\ guardian = "accepted" /\ request.kind = "Synchronize"
      /\ request \in Request /\ request' = request
      /\ UNCHANGED <<toGuardian, toDaemon>>
      /\ tokens \subseteq Tracks /\ nextToken \in Nat /\ confirmation \in BOOLEAN
      /\ pendingSync \in Pending \cup {None}
      /\ pendingMutation # None /\ pendingSync # None => pendingSync = pendingMutation
  BY <1>1, ExecutingHas
<1>3. /\ Answer(IF confirmation THEN "Ack" ELSE "Fatal", tok)
      /\ tokens' = IF confirmation /\ pendingSync.up THEN Drop(tok) ELSE tokens
      /\ pendingSync' = IF confirmation THEN None ELSE pendingSync
      /\ confirmation' = FALSE /\ UNCHANGED <<xdown, nextToken, cleanup>>
  BY DEF ExecuteSynchronize
<1>4. tok \in Token BY <1>2 DEF Request
<1>5. /\ pendingSync # None /\ pendingSync.token = tok
      /\ pendingSync.up /\ confirmation => tok.key \notin xdown
  BY <1>2 DEF Inv, Outside, GuardianIsRight
<1> HIDE DEF tok
<1>6. /\ guardian' = "reply" /\ response' \in Response
      /\ response'.kind = IF confirmation THEN "Ack" ELSE "Fatal"
  BY <1>3, <1>4 DEF Answer, Resp, Response, Answers
<1>7. tokens' \subseteq tokens /\ Owed' \subseteq Owed BY <1>3 DEF Drop, Owed
<1>8. KeysAreOwed'
  <2>1. ASSUME NEW k \in xdown PROVE \E u \in Owed' : u.token.key = k
    <3>1. PICK u \in Owed : u.token.key = k BY DEF Inv, Outside, KeysAreOwed
    <3>2. CASE confirmation /\ pendingSync.up
      <4>1. u.token # tok BY <1>5, <3>1, <3>2
      <4>2. u \in Owed' BY <1>3, <3>1, <3>2, <4>1 DEF Owed, Drop, Tracked
      <4> QED BY <3>1, <4>2
    <3>3. CASE ~(confirmation /\ pendingSync.up) BY <1>3, <3>1, <3>3 DEF Owed
    <3> QED BY <3>2, <3>3
  <2> QED BY <1>3, <2>1 DEF KeysAreOwed
<1>9. MirrorCovers'
  BY <1>2, <1>7 DEF Inv, Outside, MirrorCovers, Covering, Mirrored, DaemonSide
<1>10. response'.kind # "Fatal" => Done(request)'
  <2>1. ASSUME confirmation, pendingMutation # None, pendingMutation.up
        PROVE  Tracked(pendingMutation.token)' = {}
    <3>1. pendingMutation = pendingSync BY <1>2, <1>5, <2>1
    <3>2. tokens' = Drop(tok) /\ pendingMutation.token = tok BY <1>3, <1>5, <2>1, <3>1
    <3>3. pendingMutation' = pendingMutation BY <1>2 DEF DaemonSide
    <3> QED BY <3>2, <3>3 DEF Drop, Tracked
  <2> QED BY <1>2, <1>6, <2>1 DEF Done, Touches, DaemonSide
<1>11. GuardianIsRight'
  BY <1>2, <1>3, <1>6 DEF GuardianIsRight, DaemonSide
<1> QED BY <1>2, <1>3, <1>6, <1>7, <1>8, <1>9, <1>10, <1>11, AnswerKeeps

LEMMA ExecuteAccountingIsRight == Inv /\ ExecuteAccounting => Inv'
<1> SUFFICES ASSUME Inv, ExecuteAccounting PROVE Inv' OBVIOUS
<1>1. PICK kind \in {"Hello", "Transfer", "ReleaseCommitted"} : Executing(kind)
  BY DEF ExecuteAccounting
<1>2. /\ DaemonSide /\ guardian = "accepted" /\ request.kind = kind
      /\ request \in Request /\ request' = request
      /\ UNCHANGED <<toGuardian, toDaemon>>
      /\ tokens \subseteq Tracks /\ nextToken \in Nat /\ confirmation \in BOOLEAN
      /\ pendingSync \in Pending \cup {None}
      /\ pendingSync = None => ~confirmation
      /\ pendingMutation # None /\ pendingSync # None => pendingSync = pendingMutation
  BY <1>1, ExecutingHas
<1>3. /\ Answer(IF request.kind = "Hello" THEN "Ready" ELSE "Ack", request.token)
      /\ UNCHANGED <<xdown, tokens, nextToken, pendingSync, cleanup, confirmation>>
  BY DEF ExecuteAccounting
<1>4. request.token \in Token \cup {None} BY <1>2 DEF Request
<1>5. /\ guardian' = "reply" /\ response' \in Response
      /\ response'.kind \in {"Ready", "Ack"}
  BY <1>3, <1>4 DEF Answer, Resp, Response, Answers
<1>6. Owed' = Owed BY <1>3 DEF Owed
<1>7. KeysAreOwed' /\ MirrorCovers'
  BY <1>2, <1>3, <1>6
  DEF Inv, Outside, KeysAreOwed, MirrorCovers, Covering, Mirrored, DaemonSide
<1>8. Done(request)'
  <2>1. request.kind = "ReleaseCommitted" => Tracked(request.token) = {}
    BY <1>2 DEF Inv, Outside, GuardianIsRight
  <2> QED BY <1>1, <1>2, <1>3, <2>1 DEF Done, Touches, Tracked
<1>9. GuardianIsRight'
  BY <1>2, <1>3, <1>5 DEF Inv, Outside, GuardianIsRight, DaemonSide
<1> QED BY <1>2, <1>3, <1>5, <1>7, <1>8, <1>9, AnswerKeeps

LEMMA ExecuteCancelAndDrainIsRight == Inv /\ ExecuteCancelAndDrain => Inv'
<1> SUFFICES ASSUME Inv, ExecuteCancelAndDrain PROVE Inv' OBVIOUS
<1>1. Executing("CancelAndDrain") BY DEF ExecuteCancelAndDrain
<1>2. /\ DaemonSide /\ guardian = "accepted" /\ request.kind = "CancelAndDrain"
      /\ request \in Request /\ request' = request
      /\ UNCHANGED <<toGuardian, toDaemon>>
      /\ tokens \subseteq Tracks
  BY <1>1, ExecutingHas
<1>3. /\ tokens' = Owed /\ cleanup' = Owed /\ pendingSync' = None /\ guardian' = "finish"
      /\ response' = Resp("Drained", None, TRUE)
      /\ UNCHANGED <<xdown, nextToken, confirmation>>
  BY DEF ExecuteCancelAndDrain, BeginCleanup
<1>4. response' \in Response /\ response' # None
  <2>1. response' \in Response BY <1>3 DEF Resp, Response, Answers
  <2> QED BY <2>1, NoneAssumption
<1>5. Owed' = Owed /\ tokens' \subseteq tokens BY <1>3 DEF Owed
<1>6. /\ toDaemon = <<>> /\ toGuardian = <<>> /\ GuardianBusy /\ broker # "idle"
      /\ (reply = None \/ reply = Failure)
  BY <1>2 DEF Inv, Outside, OneAtATime, Quiet, GuardianBusy
<1>7. GuardianBusy' BY <1>3, <1>4 DEF GuardianBusy
<1>8. DaemonTyped' /\ WriterTyped' /\ LedgerIsRight' /\ EmergencyCovers'
  BY <1>2, <1>3, DaemonStays DEF GuardianGone
<1> USE DEF DaemonSide
<1>9. GuardianTyped' BY <1>2, <1>3, <1>4, <1>5 DEF Inv, Outside, GuardianTyped
<1>10. OneAtATime' BY <1>2, <1>6, <1>7 DEF OneAtATime, Quiet
<1>11. InStep' BY <1>2, <1>6, <1>7 DEF Inv, Outside, InStep, ResponseMatches
<1>12. GuardianInStep'
  <2>1. request' # None BY <1>2, <1>6 DEF Inv, Outside, GuardianInStep
  <2>2. reply' # None => reply'.kind # "Drained" BY <1>2, <1>6 DEF Failure, Resp
  <2> QED BY <1>2, <1>3, <1>6, <2>1, <2>2 DEF GuardianInStep
<1>13. RequestsAreSound' BY <1>2, <1>6 DEF Inv, Outside, RequestsAreSound
<1>14. AnswersAreTrue' BY <1>2, <1>3, <1>6 DEF AnswersAreTrue
<1>15. GuardianIsRight' BY <1>3 DEF GuardianIsRight, Serving
<1>16. KeysAreOwed' /\ MirrorCovers'
  BY <1>2, <1>3, <1>5 DEF Inv, Outside, KeysAreOwed, MirrorCovers, Covering, Mirrored
<1> QED BY <1>8, <1>9, <1>10, <1>11, <1>12, <1>13, <1>14, <1>15, <1>16 DEF Inv, Outside

\* The answer goes out, and nothing it says is undone with it.
LEMMA ReplyIsRight == Inv /\ Reply => Inv'
<1> SUFFICES ASSUME Inv, Reply PROVE Inv' OBVIOUS
<1>1. /\ guardian = "reply" /\ response' = None
      /\ UNCHANGED <<xdown, request, nextToken, confirmation, toGuardian>>
  BY DEF Reply
<1>2. DaemonSide BY GuardianLeavesDaemon DEF Reply
<1>3. /\ toDaemon = <<>> /\ toGuardian = <<>> /\ GuardianBusy /\ broker # "idle"
      /\ (reply = None \/ reply = Failure)
  BY <1>1 DEF Inv, Outside, OneAtATime, Quiet, GuardianBusy
<1>4. response \in Response /\ response # None
  BY <1>1 DEF Inv, Outside, GuardianTyped, GuardianInStep
<1>5. toDaemon' = <<>> \/ (toDaemon' = <<response>> /\ daemonEnd)
  BY <1>3 DEF Reply
<1>6. \/ /\ response.kind = "Drained" /\ guardian' = "exited"
         /\ UNCHANGED <<tokens, cleanup, pendingSync>>
      \/ /\ response.kind = "Fatal" \/ toDaemon' = <<>>
         /\ guardian' = "finish" /\ BeginCleanup
      \/ /\ response.kind \notin {"Drained", "Fatal"} /\ guardian' = "ready"
         /\ UNCHANGED <<tokens, cleanup, pendingSync>>
  <2>1. CASE response.kind = "Drained" BY <2>1 DEF Reply
  <2>2. CASE response.kind # "Drained" /\ (response.kind = "Fatal" \/ ~daemonEnd)
    BY <1>5, <2>2 DEF Reply
  <2>3. CASE response.kind # "Drained" /\ ~(response.kind = "Fatal" \/ ~daemonEnd)
    BY <2>3 DEF Reply
  <2> QED BY <2>1, <2>2, <2>3
<1>7. guardian' \in {"exited", "finish", "ready"} /\ ~GuardianBusy'
  BY <1>1, <1>6 DEF GuardianBusy
<1>8. /\ tokens' \subseteq tokens /\ Owed' = Owed
      /\ cleanup' = cleanup \/ cleanup' = Owed
      /\ pendingSync' \in {None, pendingSync}
  BY <1>6 DEF BeginCleanup, Owed
<1>9. DaemonTyped' /\ WriterTyped' /\ LedgerIsRight' /\ EmergencyCovers'
  BY <1>1, <1>2, <1>7, DaemonStays DEF GuardianGone
<1>10. toDaemon' # <<>> => toDaemon' = <<response>> /\ Head(toDaemon') = response
  BY <1>5
<1> USE DEF DaemonSide
<1>11. GuardianTyped'
  <2>1. toDaemon' = <<>> \/ toDaemon' = <<Head(toDaemon')>> BY <1>5
  <2>2. tokens' \subseteq Tracks /\ cleanup' \subseteq Tracks
    BY <1>8 DEF Inv, Outside, GuardianTyped, Owed
  <2> QED BY <1>1, <1>3, <1>4, <1>7, <1>8, <1>10, <2>1, <2>2
          DEF Inv, Outside, GuardianTyped
<1>12. OneAtATime' BY <1>1, <1>2, <1>3, <1>7 DEF OneAtATime, Quiet
<1>13. InStep'
  BY <1>1, <1>2, <1>3, <1>7 DEF Inv, Outside, InStep, ResponseMatches
<1>14. GuardianInStep'
  <2>1. reply' # None => reply'.kind # "Drained" BY <1>2, <1>3 DEF Failure, Resp
  <2>2. toDaemon' # <<>> /\ Head(toDaemon').kind = "Drained" => guardian' = "exited"
    BY <1>6, <1>10
  <2> QED BY <1>1, <1>7, <2>1, <2>2 DEF GuardianInStep
<1>15. RequestsAreSound' BY <1>1, <1>2, <1>3 DEF Inv, Outside, RequestsAreSound
<1>16. AnswersAreTrue'
  <2>1. ASSUME broker = "exchange", toDaemon' # <<>>, response.kind # "Fatal"
        PROVE  Done(cmd)'
    <3>1. Done(request) /\ request = cmd
      BY <1>1, <1>3, <2>1 DEF Inv, Outside, AnswersAreTrue, InStep
    <3>2. Done(request)' BY <1>1, <1>2, <1>8, <3>1, DoneStays
    <3> QED BY <1>1, <1>2, <3>1, <3>2 DEF Done, Touches, Tracked, Pended
  <2> QED BY <1>2, <1>3, <1>7, <1>10, <2>1 DEF AnswersAreTrue
<1>17. GuardianIsRight'
  BY <1>1, <1>2, <1>6, <1>7, <1>8 DEF Inv, Outside, GuardianIsRight, Serving
<1>18. KeysAreOwed' /\ MirrorCovers'
  BY <1>1, <1>2, <1>8 DEF Inv, Outside, KeysAreOwed, MirrorCovers, Covering, Mirrored
<1> QED BY <1>9, <1>11, <1>12, <1>13, <1>14, <1>15, <1>16, <1>17, <1>18 DEF Inv, Outside

-----------------------------------------------------------------------------
(* The invariant, and what it says of the keys.                            *)

LEMMA InvAtStart == Init => Inv
<1> SUFFICES ASSUME Init PROVE Inv OBVIOUS
<1> USE DEF Init
<1>1. <<>> \in Seq(Token) OBVIOUS
<1>2. Unarmed \in Emergency BY <1>1 DEF Unarmed, Emergency
<1>3. DaemonTyped BY <1>2 DEF DaemonTyped, BrokerSpawned
<1>4. <<>> \in Seq([key : Keys, release : BOOLEAN]) OBVIOUS
<1>5. w = [x \in Fields |-> w[x]] BY DEF Fields
<1>6. /\ w.pc = "hello" /\ w.op = 0 /\ w.steps = <<>> /\ w.debts = <<>>
      /\ w.ledger = [m \in Modifiers |-> None]
  OBVIOUS
<1>7. WriterTyped
  <2>1. w.ledger \in [Modifiers -> Token \cup {None}] BY <1>6
  <2>2. w.steps \in Seq([key : Keys, release : BOOLEAN]) BY <1>4, <1>6
  <2>3. w.debts \in Seq(Token) BY <1>1, <1>6
  <2>4. w.op \in Nat BY <1>6
  <2> HIDE DEF Init
  <2> QED BY <1>5, <2>1, <2>2, <2>3, <2>4 DEF WriterTyped, Record
<1>8. LedgerIsRight
  <2>1. emergency.state = "Unarmed" BY DEF Unarmed
  <2>2. call = None OBVIOUS
  <2> HIDE DEF Init
  <2> QED BY <1>6, <2>1, <2>2 DEF LedgerIsRight, LedgerOf, Adopting
<1>9. GuardianTyped BY DEF GuardianTyped
<1>10. OneAtATime /\ GuardianInStep BY DEF OneAtATime, Quiet, GuardianBusy, GuardianInStep
<1>11. InStep BY DEF InStep, BrokerSpawned
<1>12. RequestsAreSound BY DEF RequestsAreSound, BrokerSpawned
<1>13. AnswersAreTrue /\ GuardianIsRight BY DEF AnswersAreTrue, GuardianIsRight
<1>14. KeysAreOwed /\ MirrorCovers
  BY DEF KeysAreOwed, MirrorCovers, Owed
<1>15. EmergencyCovers BY DEF EmergencyCovers, BrokerSpawned, Unarmed
<1> QED BY <1>3, <1>7, <1>8, <1>9, <1>10, <1>11, <1>12, <1>13, <1>14, <1>15
        DEF Inv, Outside

LEMMA InvIsKept == Inv /\ [Next]_vars => Inv'
<1> SUFFICES ASSUME Inv, [Next]_vars PROVE Inv' OBVIOUS
<1>1. CASE WriterStep
  BY <1>1, ConnectIsRight, VerifyServerIsRight, ArmIsRight, PrepareIsRight,
     ActivateIsRight, ReleaseIsRight, ReleasedIsRight, PressIsRight, PressedIsRight,
     SettledIsRight, UnpressIsRight, UnpressedIsRight, AcknowledgeIsRight,
     UnreleasedIsRight, RestoreIsRight, RestoredIsRight, AdoptIsRight, AdoptedIsRight,
     CleanupIsRight, CleanedIsRight, CleanedSyncIsRight, ProofIsRight, ReportIsRight,
     CommitIsRight, ClientReturnIsRight, SubmitTimeoutIsRight
  DEF WriterStep
<1>2. CASE BrokerStep
  BY <1>2, BrokerSendIsRight, BrokerReceiveIsRight, BrokerGivesUpIsRight DEF BrokerStep
<1>3. CASE GuardianStep
  BY <1>3, EstablishIdentityIsRight, AcceptIsRight, ExecutePrepareKeyIsRight,
     ExecuteKeyDownIsRight, ExecuteKeyUpIsRight, ExecuteSynchronizeIsRight,
     ExecuteCancelAndDrainIsRight, ExecuteAccountingIsRight, ReplyIsRight, PeerEofIsRight,
     CleanupOneIsRight, CleanupDoneIsRight
  DEF GuardianStep, Execute
<1>4. CASE EmergencyStep
  BY <1>4, StartPendingReleaseIsRight, EmergencyReleaseIsRight, EmergencyFinishIsRight
  DEF EmergencyStep
<1>5. CASE StartCorrection \/ StartTypeKey BY <1>5, StartIsRight
<1>6. CASE Shutdown BY <1>6, ShutdownIsRight
<1>7. CASE \E k \in Modifiers : LetGo(k) BY <1>7, LetGoIsRight
<1>8. CASE DeadlinePasses \/ Cancel \/ \E k \in Modifiers : Hold(k) BY <1>8, OthersAreRight
<1>9. CASE Signal \/ KillGuardian \/ KillDaemon
  BY <1>9, SignalIsRight, KillGuardianIsRight, KillDaemonIsRight
<1>10. CASE UNCHANGED vars
  BY <1>10, InvIsOfCore DEF vars, core, brokerVars, clientVars, writerVars
<1> QED BY <1>1, <1>2, <1>3, <1>4, <1>5, <1>6, <1>7, <1>8, <1>9, <1>10 DEF Next

\* Requests, answers, mirror and tokens agree in every reachable state: one
\* frame is on its way at a time, what an answer reports still holds when the
\* daemon acts on it, and the mirror covers what the guardian owes.
THEOREM GuardianAndMirrorAgree == Spec => []Inv
BY InvAtStart, InvIsKept, PTL DEF Spec

LEMMA InvOwesTheKeys == Inv => NoOrphanKey
<1> SUFFICES ASSUME Inv PROVE NoOrphanKey OBVIOUS
<1>1. ASSUME NEW k \in xdown PROVE GuardianOwes(k) \/ DaemonOwes(k) \/ Admitted
  <2>1. PICK t \in Owed : t.token.key = k BY DEF Inv, Outside, KeysAreOwed
  <2>2. CASE ~GuardianGone BY <2>1, <2>2 DEF GuardianOwes
  <2>3. CASE guardian = "killed"
    <3>1. CASE emergency.proof = "Unreconciled" BY <3>1 DEF Admitted
    <3>2. CASE emergency.proof # "Unreconciled"
      <4>1. alive BY <2>3 DEF Inv, Outside, EmergencyCovers
      <4>2. emergency.state \in {"Armed", "Pending"} => DaemonOwes(k)
        BY <2>1, <4>1 DEF Inv, Outside, MirrorCovers, Covering, DaemonOwes
      <4>3. emergency.state = "Running" => DaemonOwes(k)
        BY <2>3, <3>2, <4>1 DEF Inv, Outside, EmergencyCovers, DaemonOwes
      <4>4. emergency.state # "Unarmed"
        BY <2>1 DEF Inv, Outside, MirrorCovers
      <4>5. emergency.state # "Finished"
        BY <2>3, <3>2 DEF Inv, Outside, EmergencyCovers
      <4> QED BY <4>2, <4>3, <4>4, <4>5 DEF Inv, Outside, DaemonTyped, Emergency
    <3> QED BY <3>1, <3>2
  <2>4. CASE guardian = "exited"
    <3>1. tokens # {} BY <2>1 DEF Owed
    <3>2. CASE ~alive \/ emergency.state \in {"Running", "Finished"}
      BY <2>4, <3>1, <3>2 DEF Admitted
    <3>3. CASE alive /\ emergency.state \notin {"Running", "Finished"}
      <4>1. emergency.state \in {"Armed", "Pending"}
        BY <2>1, <3>3 DEF Inv, Outside, MirrorCovers, DaemonTyped, Emergency
      <4> QED BY <2>1, <3>3, <4>1 DEF Inv, Outside, MirrorCovers, Covering, DaemonOwes
    <3> QED BY <3>2, <3>3
  <2> QED BY <2>2, <2>3, <2>4 DEF GuardianGone
<1>2. emergency.state = "Armed" => \A t \in Owed : t.token \in Mirrored
  BY DEF Inv, Outside, MirrorCovers, Covering
<1> QED BY <1>1, <1>2 DEF NoOrphanKey

\* A key that XTEST holds down is never forgotten, whatever is killed, times
\* out or fails on the way: a running guardian has a token for it, or the
\* daemon's mirror still has it to release, or a release failed and the
\* published proof or the guardian's record says so.
THEOREM NoKeyIsForgotten == Spec => []NoOrphanKey
BY GuardianAndMirrorAgree, InvOwesTheKeys, PTL
=============================================================================
