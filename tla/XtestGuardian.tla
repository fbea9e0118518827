--------------------------- MODULE XtestGuardian ---------------------------
(***************************************************************************)
(* Synthetic keys on X11: the writer thread of the daemon, its broker      *)
(* thread, the guardian process and the X server (daemon/xtest_guardian/   *)
(* and the guardian replay of daemon/keyboard.rs).                         *)
(*                                                                         *)
(* The guardian presses and releases keys with XTEST on the daemon's       *)
(* requests, one request at a time, and keeps a token for every key that   *)
(* may be down.  The daemon mirrors those tokens, so that it can release   *)
(* the keys through a connection of its own when the guardian is lost; the *)
(* guardian releases them when the daemon is lost.  A request that reaches *)
(* the X server may fail after it took effect, the operation's deadline    *)
(* may pass at any moment, and either process may be killed between any    *)
(* two steps.                                                              *)
(*                                                                         *)
(* Frames are records here; XtestWire models their bytes.  Time is the     *)
(* flag "expired": the deadline of the running request has passed.         *)
(***************************************************************************)
EXTENDS Naturals, Sequences, FiniteSets

CONSTANTS
    Modifiers,      \* keys a user may hold during a correction
    Order,          \* pressed_modifier_keys: their order, a sequence
    Letters,        \* keys a correction types
    Script,         \* what a correction types: a sequence of Letters
    MaxOperations,  \* corrections started
    MaxLosses,      \* kills, signals and passed deadlines
    MaxXErrors,     \* X requests that fail
    MaxCancels,     \* soft cancellations
    MAX_ACTIVE_DEBTS,
    None

Keys == Modifiers \cup Letters

ASSUME ConstantsAssumption ==
    /\ Modifiers \cap Letters = {}
    /\ Script \in Seq(Letters) /\ Order \in Seq(Modifiers)
    /\ {MaxOperations, MaxLosses, MaxXErrors, MaxCancels, MAX_ACTIVE_DEBTS}
         \subseteq Nat
    /\ None \notin Keys

VARIABLES
    xdown,      \* keys XTEST holds down on the X server
    held,       \* modifiers the user holds, as the X server last saw it
    \* daemon: BrokerFailure, GuardianHealth and EmergencyCoordinator
    failed, accepting, stopping,
    emergency,  \* state, mirrored tokens and proof
    \* daemon: GuardianClient and the broker thread
    prepared, pendingMutation, call, reply, broker, cmd,
    w,          \* daemon: the writer thread and its operation
    cancelled,  \* the operation's soft cancellation is requested
    expired,    \* the deadline of the operation, or of the call, has passed
    alive,      \* the daemon process runs
    \* the socket: frames on the way, and which ends are open
    toGuardian, toDaemon, daemonEnd,
    \* guardian: GuardianSession and ProtocolState
    guardian, request, response, tokens, nextToken, activeOperation,
    pendingSync, cleanup, confirmation,
    \* bounds
    losses, xerrors, cancels

brokerVars == <<failed, accepting, stopping, broker>>
clientVars == <<prepared, pendingMutation, call, reply, cmd>>
writerVars == <<w, cancelled, expired>>
wireVars == <<toGuardian, toDaemon, daemonEnd>>
guardianVars == <<guardian, request, response, tokens, nextToken,
                  activeOperation, pendingSync, cleanup, confirmation>>
bounds == <<losses, xerrors, cancels>>
vars == <<xdown, held, brokerVars, emergency, clientVars, writerVars, alive,
          wireVars, guardianVars, bounds>>

Token == [id : Nat, key : Keys]
Kinds == {"Hello", "PrepareKey", "ExecuteDown", "KeyUp", "Synchronize",
          "Transfer", "ReleaseCommitted", "CancelAndDrain"}
\* What a request and an answer carry depends on their kind.
Request ==
    {r \in [kind : Kinds, op : Nat, token : Token \cup {None}, key : Keys \cup {None}] :
       /\ r.kind = "PrepareKey" => r.key \in Keys
       /\ r.kind \notin {"Hello", "PrepareKey", "CancelAndDrain"} => r.token \in Token}
Answers == {"Ready", "Prepared", "Ack", "Drained", "Fatal", "Error"}
Response ==
    {a \in [kind : Answers, token : Token \cup {None}, clean : BOOLEAN] :
       a.kind = "Prepared" => a.token \in Token}
\* A key press or release that the daemon or the guardian has not confirmed.
Pending == [token : Token, up : BOOLEAN]

\* None stands for Rust's None and is not one of the values.
ASSUME NoneAssumption ==
    /\ None \notin Token /\ None \notin Pending
    /\ None \notin Request /\ None \notin Response

Reverse(s) == [i \in 1..Len(s) |-> s[Len(s) + 1 - i]]
Elements(s) == {s[i] : i \in 1..Len(s)}
\* Vec::remove of the place where t is.
Without(s, t) ==
    LET i == CHOOSE i \in 1..Len(s) : s[i] = t IN
      [j \in 1..(Len(s) - 1) |-> IF j < i THEN s[j] ELSE s[j + 1]]

Req(kind, token, key) ==
    [kind |-> kind, op |-> w.op, token |-> token, key |-> key]
Resp(kind, token, clean) == [kind |-> kind, token |-> token, clean |-> clean]
\* What submit returns when the exchange failed; never on the wire.
Failure == Resp("Error", None, FALSE)

TypeOK ==
    /\ xdown \subseteq Keys /\ held \subseteq Modifiers
    /\ {failed, accepting, stopping, cancelled, expired, alive, daemonEnd,
        confirmation} \subseteq BOOLEAN
    /\ emergency.state \in {"Unarmed", "Armed", "Pending", "Running",
                            "Finished"}
    /\ emergency.mirrored \in Seq(Token)
    /\ emergency.todo \in Seq(Token)
    /\ emergency.proof \in {"none", "Reconciled", "Unreconciled"}
    /\ prepared \subseteq Token
    /\ broker \in {"idle", "exchange", "ended"}
    /\ call \in Request \cup {None} /\ cmd \in Request \cup {None}
    /\ reply \in Response \cup {None}
    /\ w.plan \in Seq(Token) /\ w.debts \in Seq(Token)
    /\ w.restores \in Seq(Modifiers)
    /\ w.ledger \in [Modifiers -> Token \cup {None}]
    /\ guardian \in {"start", "hello", "ready", "accepted", "reply", "finish",
                     "exited", "killed"}
    /\ request \in Request \cup {None}
    /\ response \in Response \cup {None}
    /\ toGuardian \in Seq(Request) /\ toDaemon \in Seq(Response)

-----------------------------------------------------------------------------
(* The daemon's failure gate and its emergency release.                    *)

\* Mutant: the mirror is left as it is.
MarkNothing == emergency

\* mark_guardian_failed hands the mirror to the emergency release.
MarkGuardianFailed ==
    CASE emergency.state = "Armed" -> [emergency EXCEPT !.state = "Pending"]
      [] emergency.state = "Unarmed" ->
           [emergency EXCEPT !.state = "Finished", !.proof = "Reconciled"]
      [] OTHER -> emergency

\* BrokerFailure::fail: the first failure closes the gate.
Fail ==
    /\ failed' = TRUE /\ stopping' = TRUE /\ accepting' = FALSE
    /\ emergency' = IF failed THEN emergency ELSE MarkGuardianFailed

Healthy == UNCHANGED <<failed, accepting, stopping, emergency>>

Mirrored == Elements(emergency.mirrored)
ContainsPossible(t) == emergency.state = "Armed" /\ t \in Mirrored

\* The writer's owner sees the failed health, stops the writer and starts the
\* release of what the mirror still holds.
StartPendingRelease ==
    /\ alive /\ emergency.state = "Pending" /\ w.pc = "stopped"
    /\ emergency' =
         IF emergency.mirrored = <<>>
         THEN [emergency EXCEPT !.state = "Finished", !.proof = "Reconciled"]
         ELSE [emergency EXCEPT !.state = "Running",
                                !.todo = Reverse(emergency.mirrored),
                                !.proof = "Reconciled"]
    /\ UNCHANGED <<xdown, held, brokerVars, clientVars, writerVars, alive,
                   wireVars, guardianVars, bounds>>

\* What an X request does: it succeeds and takes effect, or it fails and may
\* have taken effect all the same.
XRequest(ok, effect) ==
    \/ ok /\ xdown' = effect /\ UNCHANGED xerrors
    \/ /\ ~ok /\ xerrors < MaxXErrors /\ xerrors' = xerrors + 1
       /\ xdown' \in {xdown, effect}

\* One release_token of the emergency thread; after the last one its round
\* trip, and the proof is published.
EmergencyRelease ==
    /\ alive /\ emergency.state = "Running" /\ emergency.todo # <<>>
    /\ \E ok \in BOOLEAN :
         /\ XRequest(ok, xdown \ {Head(emergency.todo).key})
         /\ emergency' =
              [emergency EXCEPT !.todo = Tail(@),
                                !.proof = IF ok THEN @ ELSE "Unreconciled"]
    /\ UNCHANGED <<held, brokerVars, clientVars, writerVars, alive, wireVars,
                   guardianVars, losses, cancels>>

EmergencyFinish ==
    /\ alive /\ emergency.state = "Running" /\ emergency.todo = <<>>
    /\ \E ok \in BOOLEAN :
         /\ XRequest(ok, xdown)
         /\ emergency' =
              [emergency EXCEPT !.state = "Finished",
                                !.proof = IF ok THEN @ ELSE "Unreconciled"]
    /\ UNCHANGED <<held, brokerVars, clientVars, writerVars, alive, wireVars,
                   guardianVars, losses, cancels>>

-----------------------------------------------------------------------------
(* The broker thread: one exchange at a time.                              *)

BrokerUnchanged == UNCHANGED <<xdown, held, writerVars, alive, guardianVars,
                               bounds, prepared, pendingMutation, call>>

\* The loop takes the queued command; a passed deadline fails it unsent.
BrokerSend ==
    /\ alive /\ broker = "idle" /\ cmd # None /\ ~stopping
    /\ IF expired
       THEN /\ Fail /\ broker' = "ended" /\ reply' = Failure
            /\ daemonEnd' = FALSE /\ UNCHANGED toGuardian
       ELSE /\ toGuardian' = Append(toGuardian, cmd)
            /\ broker' = "exchange"
            /\ Healthy /\ UNCHANGED <<reply, daemonEnd>>
    /\ cmd' = IF expired THEN None ELSE cmd
    /\ UNCHANGED toDaemon /\ BrokerUnchanged

\* response_matches: the answer is of the request's kind and names its key.
ResponseMatches(r, a) ==
    CASE r.kind = "Hello" -> a.kind = "Ready"
      [] r.kind = "PrepareKey" -> a.kind = "Prepared" /\ a.token.key = r.key
      [] r.kind = "CancelAndDrain" -> a.kind = "Drained"
      [] OTHER -> a.kind = "Ack" /\ a.token = r.token

\* exchange receives the answer.  Fatal, or an answer to something else,
\* fails the client; Drained ends the broker.
BrokerReceive ==
    /\ alive /\ broker = "exchange" /\ ~stopping /\ toDaemon # <<>>
    /\ toDaemon' = Tail(toDaemon)
    /\ IF expired \/ ~ResponseMatches(cmd, Head(toDaemon))
       THEN Fail /\ broker' = "ended" /\ reply' = Failure /\ daemonEnd' = FALSE
       ELSE /\ reply' = Head(toDaemon) /\ Healthy
            /\ LET last == Head(toDaemon).kind = "Drained" IN
                 /\ broker' = IF last THEN "ended" ELSE "idle"
                 /\ daemonEnd' = ~last
    /\ cmd' = None /\ UNCHANGED toGuardian /\ BrokerUnchanged

GuardianGone == guardian \in {"exited", "killed"}

\* The exchange ends without an answer: the peer closed, the deadline passed,
\* or another thread asked the broker to stop.
BrokerGivesUp ==
    /\ alive /\ broker = "exchange"
    /\ \/ GuardianGone /\ toDaemon = <<>>
       \/ expired
       \/ stopping
    /\ Fail /\ broker' = "ended" /\ daemonEnd' = FALSE
    /\ reply' = IF call = None THEN reply ELSE Failure
    /\ cmd' = None /\ UNCHANGED <<toGuardian, toDaemon>> /\ BrokerUnchanged

\* Idle: the loop ends when asked to; anything the peer does then, closing
\* included, is a failure.  A command left in the queue is dropped with the
\* place for its answer; an answer already sent stays there.
BrokerIdle ==
    /\ alive /\ broker = "idle"
    /\ \/ stopping /\ Healthy
       \/ /\ ~stopping /\ cmd = None
          /\ GuardianGone \/ toDaemon # <<>>
          /\ Fail
    /\ broker' = "ended" /\ daemonEnd' = FALSE /\ cmd' = None
    /\ reply' = IF call # None /\ reply = None THEN Failure ELSE reply
    /\ UNCHANGED <<toGuardian, toDaemon>> /\ BrokerUnchanged

-----------------------------------------------------------------------------
(* GuardianClient: what a call does before and after its exchange.         *)

\* The writer thread runs between two calls.
WriterTurn ==
    /\ alive /\ call = None
    /\ UNCHANGED <<xdown, held, cancelled, broker, reply, alive, wireVars,
                   guardianVars, bounds>>

\* BrokerHandle::submit queues the request, or refuses it at once.
Submit(r, next) ==
    IF (accepting \/ r.kind = "Hello") /\ ~stopping
    THEN cmd' = r /\ call' = r /\ w' = [next EXCEPT !.ret = "none"]
    ELSE UNCHANGED <<cmd, call>> /\ w' = [next EXCEPT !.ret = "err"]

\* fail_protocol
FailProtocol(next) ==
    /\ Fail /\ w' = [next EXCEPT !.ret = "err"]
    /\ UNCHANGED <<cmd, call, prepared, pendingMutation>>

Continue(next) ==
    /\ w' = [next EXCEPT !.ret = "none"]
    /\ Healthy /\ UNCHANGED <<cmd, call, prepared, pendingMutation>>

\* insert_possible: an armed mirror with room, and a key is mirrored once.
MayInsertPossible(t) ==
    /\ emergency.state = "Armed" /\ t \notin Mirrored
    /\ Len(emergency.mirrored) < MAX_ACTIVE_DEBTS

\* execute_down: the token enters the mirror before the request is queued.
ExecuteDown(t, next) ==
    IF pendingMutation # None \/ t \notin prepared \/ ~MayInsertPossible(t)
    THEN FailProtocol(next)
    ELSE /\ prepared' = prepared \ {t}
         /\ emergency' = [emergency EXCEPT !.mirrored = Append(@, t)]
         /\ Submit(Req("ExecuteDown", t, t.key), next)
         /\ UNCHANGED <<failed, accepting, stopping, pendingMutation>>

\* key_up: of a mirrored token, or of one prepared to release a key the user
\* holds.
KeyUp(t, next) ==
    IF pendingMutation # None \/ ~(ContainsPossible(t) \/ t \in prepared)
    THEN FailProtocol(next)
    ELSE /\ prepared' = prepared \ {t}
         /\ Submit(Req("KeyUp", t, t.key), next)
         /\ Healthy /\ UNCHANGED pendingMutation

\* synchronize_if_pending
Synchronize(next) ==
    IF pendingMutation = None
    THEN /\ w' = [next EXCEPT !.ret = "ok"]
         /\ Healthy /\ UNCHANGED <<cmd, call, prepared, pendingMutation>>
    ELSE /\ Submit(Req("Synchronize", pendingMutation.token, None), next)
         /\ Healthy /\ UNCHANGED <<prepared, pendingMutation>>

\* transfer_to_physical_debt and commit_physical_release
MirroredCall(kind, t, next) ==
    IF pendingMutation # None \/ ~ContainsPossible(t) THEN FailProtocol(next)
    ELSE /\ Submit(Req(kind, t, t.key), next)
         /\ Healthy /\ UNCHANGED <<prepared, pendingMutation>>

\* remove_reconciled: the token must be there, and once the failure is published
\* the mirror is no longer the client's.
RemoveReconciled(t) ==
    IF ContainsPossible(t)
    THEN /\ emergency' = [emergency EXCEPT !.mirrored = Without(@, t)]
         /\ w' = [w EXCEPT !.ret = "ok"]
         /\ UNCHANGED <<failed, accepting, stopping>>
    ELSE Fail /\ w' = [w EXCEPT !.ret = "err"]

Ok == w' = [w EXCEPT !.ret = "ok"]

ReturnPrepared ==
    /\ prepared' = prepared \cup {reply.token}
    /\ w' = [w EXCEPT !.ret = "ok", !.steps = Tail(@),
                      !.plan = Append(@, reply.token)]
    /\ Healthy /\ UNCHANGED pendingMutation

ReturnMutation ==
    /\ pendingMutation' = [token |-> call.token, up |-> call.kind = "KeyUp"]
    /\ Ok /\ Healthy /\ UNCHANGED prepared

ReturnSync ==
    /\ pendingMutation' = None /\ UNCHANGED prepared
    /\ IF pendingMutation.up /\ pendingMutation.token \in Mirrored
       THEN RemoveReconciled(pendingMutation.token)
       ELSE Ok /\ Healthy

\* cancel_and_drain: a clean drain ends the guardian session without failing
\* the client, and no later operation is accepted.
ReturnDrained ==
    /\ UNCHANGED pendingMutation
    /\ IF reply.clean
       THEN /\ prepared' = {} /\ accepting' = FALSE /\ Ok
            /\ emergency' = [emergency EXCEPT !.state = "Finished",
                                              !.proof = "Reconciled"]
            /\ UNCHANGED <<failed, stopping>>
       ELSE Fail /\ w' = [w EXCEPT !.ret = "err"] /\ UNCHANGED prepared

\* submit returns to the writer.
ClientReturn ==
    /\ alive /\ call # None /\ reply # None
    /\ \/ /\ reply = Failure
          /\ w' = [w EXCEPT !.ret = "err"]
          /\ Healthy /\ UNCHANGED <<prepared, pendingMutation>>
       \/ /\ reply # Failure
          /\ CASE call.kind = "PrepareKey" -> ReturnPrepared
               [] call.kind \in {"ExecuteDown", "KeyUp"} -> ReturnMutation
               [] call.kind = "Synchronize" -> ReturnSync
               [] call.kind = "ReleaseCommitted" ->
                    RemoveReconciled(call.token)
                    /\ UNCHANGED <<prepared, pendingMutation>>
               [] call.kind = "CancelAndDrain" -> ReturnDrained
               [] OTHER -> Ok /\ Healthy /\ UNCHANGED <<prepared,
                                                        pendingMutation>>
    /\ call' = None /\ reply' = None
    /\ UNCHANGED <<xdown, held, broker, cmd, cancelled, expired, alive,
                   wireVars, guardianVars, bounds>>

\* The caller's own wait ends first: a late answer has no receiver.
SubmitTimeout ==
    /\ alive /\ call # None /\ reply = None /\ expired
    /\ Fail /\ w' = [w EXCEPT !.ret = "err"] /\ call' = None
    /\ UNCHANGED <<xdown, held, broker, cmd, reply, prepared, pendingMutation,
                   cancelled, expired, alive, wireVars, guardianVars, bounds>>

-----------------------------------------------------------------------------
(* The writer thread: connecting, a correction, a physical release.        *)

\* GuardianClient::connect
Connect ==
    /\ WriterTurn /\ w.pc = "hello" /\ w.ret = "none" /\ UNCHANGED expired
    /\ Submit(Req("Hello", None, None), w)
    /\ Healthy /\ UNCHANGED <<prepared, pendingMutation>>

\* read_epoch_marker: any of the requests may fail, or find another mark.
ReadEpochMarker(ok) == XRequest(ok, xdown)

\* The daemon's own X connections must find the mark that the guardian left
\* on its X server.
VerifyServer ==
    /\ alive /\ call = None /\ w.pc = "hello" /\ w.ret = "ok"
    /\ \E ok \in BOOLEAN :
         /\ ReadEpochMarker(ok)
         /\ w' = [w EXCEPT !.pc = "arm", !.ret = IF ok THEN "ok" ELSE "err"]
    /\ UNCHANGED <<held, brokerVars, emergency, clientVars, cancelled, expired,
                   alive, wireVars, guardianVars, losses, cancels>>

\* EmergencyCoordinator::arm, once.
ArmEmergency == emergency' = [emergency EXCEPT !.state = "Armed"]

\* The emergency release is armed, unless the guardian was lost in the
\* meantime.  Dropping the client stops the broker.
Arm ==
    /\ WriterTurn /\ UNCHANGED expired
    /\ w.pc = "arm" \/ (w.pc = "hello" /\ w.ret = "err")
    /\ IF w.ret = "ok" /\ ~failed
       THEN /\ ArmEmergency
            /\ accepting' = TRUE /\ UNCHANGED <<failed, stopping>>
            /\ w' = [w EXCEPT !.pc = "idle", !.ret = "none"]
       ELSE /\ accepting' = FALSE /\ stopping' = TRUE
            /\ w' = [w EXCEPT !.pc = "stopped"]
            /\ UNCHANGED <<failed, emergency>>
    /\ UNCHANGED <<cmd, call, prepared, pendingMutation>>

\* The writer ends and drops the client.
StopWriter(result) ==
    /\ w' = [w EXCEPT !.pc = "stopped", !.ret = "none", !.outcome = result]
    /\ accepting' = FALSE /\ stopping' = TRUE
    /\ UNCHANGED <<failed, emergency, cmd, call, prepared, pendingMutation>>

\* The writer's owner stops it: on request, or when the health has failed.
Shutdown ==
    /\ WriterTurn /\ w.pc = "idle" /\ UNCHANGED expired
    /\ StopWriter(w.outcome)

\* guardian_correction_plan_steps: the frozen modifiers are released in
\* reverse, the script is typed, the modifiers are pressed again.
Steps(mods, script) ==
    LET rel == Reverse(mods)
        n == Len(mods) + Len(script)
    IN [i \in 1..(n + Len(mods)) |->
          CASE i <= Len(mods) -> [key |-> rel[i], release |-> TRUE]
            [] i > n -> [key |-> mods[i - n], release |-> FALSE]
            [] OTHER -> [key |-> script[i - Len(mods)], release |-> FALSE]]

Begin(kind, mods, script) ==
    /\ alive /\ call = None /\ w.pc = "idle" /\ w.op < MaxOperations
    /\ w' = [w EXCEPT !.pc = "prepare", !.op = @ + 1, !.kind = kind,
                      !.steps = Steps(mods, script), !.frozen = Reverse(mods),
                      !.typed = script, !.plan = <<>>, !.debts = <<>>,
                      !.restores = <<>>, !.mode = "none", !.bad = FALSE,
                      !.outcome = "none", !.ret = "none"]
    /\ cancelled' = FALSE /\ expired' = FALSE
    /\ UNCHANGED <<xdown, held, brokerVars, emergency, clientVars, alive,
                   wireVars, guardianVars, bounds>>

\* pressed_modifier_keys: the held modifiers in their order.
PressedModifiers ==
    {s \in UNION {[1..n -> Elements(Order)] : n \in 0..Len(Order)} :
       /\ Elements(s) = held
       /\ \A i, j \in 1..Len(s) :
            i < j => \E p, q \in 1..Len(Order) :
                       p < q /\ Order[p] = s[i] /\ Order[q] = s[j]}

\* run_correction starts: the snapshot of the held modifiers is frozen.
StartCorrection == \E mods \in PressedModifiers : Begin("correction", mods, Script)

\* type_key replays one key and leaves the modifiers alone.
StartTypeKey == \E k \in Letters : Begin("key", <<>>, <<k>>)

Owned(k) == k \in Modifiers /\ w.ledger[k] # None

\* prepare_operation: a token for every step; a modifier the session already
\* holds down is released with the session's own token.  A cancellation
\* noticed after the last token abandons them all.
Prepare ==
    /\ WriterTurn /\ w.pc = "prepare" /\ UNCHANGED expired
    /\ \/ w.ret = "err" /\ StopWriter("fatal")
       \/ /\ w.ret # "err" /\ w.steps = <<>>
          /\ \/ /\ w.kind = "key" \/ (~cancelled /\ ~expired)
                /\ Continue([w EXCEPT !.pc = "activate"])
             \/ /\ w.kind = "correction" /\ cancelled
                /\ Continue([w EXCEPT !.pc = "idle", !.outcome = "cancelled"])
             \/ /\ w.kind = "correction" /\ ~cancelled /\ expired
                /\ StopWriter("fatal")
       \/ /\ w.ret # "err" /\ w.steps # <<>>
          /\ LET step == Head(w.steps) IN
               IF step.release /\ Owned(step.key)
               THEN Continue([w EXCEPT !.steps = Tail(@),
                                 !.plan = Append(@, w.ledger[step.key])])
               ELSE IF pendingMutation # None THEN FailProtocol(w)
               ELSE /\ Submit(Req("PrepareKey", None, step.key), w)
                    /\ Healthy /\ UNCHANGED <<prepared, pendingMutation>>

\* How an execution that met an error, or none, is finished: success and soft
\* cancellation restore the released modifiers first.
Finish(mode) ==
    Continue([w EXCEPT !.mode = mode,
                       !.pc = IF mode = "hard" THEN "cleanup" ELSE "restore",
                       !.todo = Reverse(w.debts)])

\* A control check that fails, or a sink call that failed, ends the execution.
Abandon ==
    \/ w.ret = "err" /\ Finish("hard")
    \/ w.ret # "err" /\ cancelled /\ Finish("soft")
    \/ w.ret # "err" /\ expired /\ Finish("hard")

Proceed == w.ret # "err" /\ ~cancelled /\ ~expired

\* activate_and_verify_group may find that the layout does not settle, and
\* type_key that its session lease is gone: nothing has been sent yet.
Activate ==
    /\ WriterTurn /\ w.pc = "activate" /\ UNCHANGED expired
    /\ \/ Abandon
       \/ Finish("hard")
       \/ Proceed /\ Continue([w EXCEPT !.pc = "release"])

\* temporarily_release_guardian_modifiers, up to the key_up, ...
Release ==
    /\ WriterTurn /\ w.pc = "release" /\ UNCHANGED expired
    /\ \/ Abandon
       \/ Proceed /\ w.frozen = <<>> /\ Continue([w EXCEPT !.pc = "type"])
       \/ /\ Proceed /\ w.frozen # <<>>
          /\ LET k == Head(w.frozen) IN
               KeyUp(Head(w.plan),
                     [w EXCEPT !.pc = "released", !.frozen = Tail(@),
                               !.restores = <<k>> \o @, !.plan = Tail(@)])

\* ... and up to its synchronisation.
Released ==
    /\ WriterTurn /\ w.pc = "released" /\ UNCHANGED expired
    /\ \/ Abandon
       \/ Proceed /\ Synchronize([w EXCEPT !.pc = "release"])

\* SyntheticOperation::press: prepare_down takes the front of the plan, the
\* debt is recorded and the key goes down, ...
Press ==
    /\ WriterTurn /\ w.pc = "type" /\ UNCHANGED expired
    /\ \/ Abandon
       \/ Proceed /\ w.typed = <<>> /\ Finish("success")
       \/ /\ Proceed /\ w.typed # <<>>
          /\ ExecuteDown(Head(w.plan),
               [w EXCEPT !.pc = "pressed", !.plan = Tail(@),
                         !.debts = Append(@, Head(w.plan))])

\* ... it is synchronised, ...
Pressed ==
    /\ WriterTurn /\ w.pc = "pressed" /\ UNCHANGED expired
    /\ \/ Abandon
       \/ Proceed /\ Synchronize([w EXCEPT !.pc = "settled"])

Settled ==
    /\ WriterTurn /\ w.pc = "settled" /\ UNCHANGED expired
    /\ \/ Abandon
       \/ Proceed /\ Continue([w EXCEPT !.pc = "unpress"])

\* ... and release lets it go whatever the control says: key up, synchronise,
\* and the debt is acknowledged when both succeed.
Unpress ==
    /\ WriterTurn /\ w.pc = "unpress" /\ UNCHANGED expired
    /\ KeyUp(w.debts[Len(w.debts)], [w EXCEPT !.pc = "unpressed"])

Unpressed ==
    /\ WriterTurn /\ w.pc = "unpressed" /\ UNCHANGED expired
    /\ Synchronize([w EXCEPT !.pc = "acknowledge", !.up = w.ret = "ok"])

Acknowledge ==
    /\ WriterTurn /\ w.pc = "acknowledge" /\ UNCHANGED expired
    /\ LET done == w.up /\ w.ret = "ok" IN
         Continue([w EXCEPT !.debts = IF done THEN SubSeq(@, 1, Len(@) - 1)
                                              ELSE @,
                            !.typed = Tail(@),
                            !.pc = IF done THEN "type" ELSE "unreleased"])

Unreleased ==
    /\ WriterTurn /\ w.pc = "unreleased" /\ UNCHANGED expired
    /\ Finish("hard")

-----------------------------------------------------------------------------
(* The finalizer.                                                          *)

Bad == [w EXCEPT !.bad = TRUE, !.pc = "cleanup", !.todo = Reverse(w.debts)]

\* restore_one_modifier: the front of the plan must be the key to restore.
Restore ==
    /\ WriterTurn /\ w.pc = "restore" /\ UNCHANGED expired
    /\ \/ w.restores = <<>>
          /\ Continue([w EXCEPT !.pc = "cleanup", !.todo = Reverse(w.debts)])
       \/ w.restores # <<>> /\ expired /\ Continue(Bad)
       \/ /\ w.restores # <<>> /\ ~expired
          /\ IF w.plan = <<>> \/ Head(w.plan).key # Head(w.restores)
             THEN FailProtocol(Bad)
             ELSE ExecuteDown(Head(w.plan),
                    [w EXCEPT !.pc = "restored", !.plan = Tail(@),
                              !.debts = Append(@, Head(w.plan))])

Restored ==
    /\ WriterTurn /\ w.pc = "restored" /\ UNCHANGED expired
    /\ IF w.ret = "err" \/ expired THEN Continue(Bad)
       ELSE Synchronize([w EXCEPT !.pc = "adopt"])

\* The debt leaves the operation for the session's ledger; a refused transfer
\* comes back as a release-only token.
Adopt ==
    /\ WriterTurn /\ w.pc = "adopt" /\ UNCHANGED expired
    /\ IF w.ret = "err" \/ expired THEN Continue(Bad)
       ELSE MirroredCall("Transfer", w.debts[Len(w.debts)],
                         [w EXCEPT !.pc = "adopted"])

Adopted ==
    /\ WriterTurn /\ w.pc = "adopted" /\ UNCHANGED expired
    /\ IF w.ret = "err" THEN Continue(Bad)
       ELSE Continue([w EXCEPT
              !.pc = "restore", !.restores = Tail(@),
              !.debts = SubSeq(@, 1, Len(@) - 1),
              !.ledger[Head(w.restores)] = w.debts[Len(w.debts)]])

\* release_all and drain_release_only_fallback: every debt is tried once.
Cleanup ==
    /\ WriterTurn /\ w.pc = "cleanup" /\ UNCHANGED expired
    /\ IF w.todo = <<>> THEN Synchronize([w EXCEPT !.pc = "proof"])
       ELSE KeyUp(Head(w.todo), [w EXCEPT !.pc = "cleaned"])

Cleaned ==
    /\ WriterTurn /\ w.pc = "cleaned" /\ UNCHANGED expired
    /\ Synchronize([w EXCEPT !.pc = "cleanedSync", !.up = w.ret = "ok"])

CleanedSync ==
    /\ WriterTurn /\ w.pc = "cleanedSync" /\ UNCHANGED expired
    /\ LET done == w.up /\ w.ret = "ok" IN
         Continue([w EXCEPT !.pc = "cleanup", !.todo = Tail(@),
                     !.bad = @ \/ ~done,
                     !.debts = IF done THEN Without(@, Head(w.todo)) ELSE @])

\* terminal_proof: nothing left anywhere, or the guardian drains everything
\* and leaves.
Proof ==
    /\ WriterTurn /\ w.pc = "proof"
    /\ LET next == [w EXCEPT !.pc = "report", !.bad = @ \/ w.ret = "err"] IN
         IF /\ ~failed /\ w.debts = <<>> /\ w.plan = <<>>
            /\ prepared = {} /\ pendingMutation = None
         THEN /\ w' = [next EXCEPT !.ret = "ok"] /\ UNCHANGED expired
              /\ Healthy /\ UNCHANGED <<cmd, call, prepared, pendingMutation>>
         ELSE IF failed
         THEN /\ w' = [next EXCEPT !.ret = "err"] /\ UNCHANGED expired
              /\ Healthy /\ UNCHANGED <<cmd, call, prepared, pendingMutation>>
         ELSE /\ Submit(Req("CancelAndDrain", None, None), next)
              /\ expired' = FALSE
              /\ Healthy /\ UNCHANGED <<prepared, pendingMutation>>

\* finish_guardian_synthetic_operation: only a clean end lets the writer go on.
Report ==
    /\ WriterTurn /\ w.pc = "report" /\ UNCHANGED expired
    /\ IF w.ret = "ok" /\ ~w.bad /\ w.mode # "hard"
       THEN Continue([w EXCEPT !.pc = "idle",
              !.outcome = IF w.mode = "soft" \/ cancelled THEN "cancelled"
                                                          ELSE "success"])
       ELSE StopWriter("fatal")

\* The user presses a modifier; it reaches the X server through the virtual
\* keyboard.
Hold(k) ==
    /\ alive /\ call = None /\ w.pc = "idle" /\ k \in Modifiers \ held
    /\ held' = held \cup {k}
    /\ UNCHANGED <<xdown, brokerVars, emergency, clientVars, writerVars, alive,
                   wireVars, guardianVars, bounds>>

\* The user lets it go: the forwarded release ends the synthetic press as
\* well, and the session's debt, if any, is committed.
LetGo(k) ==
    /\ alive /\ call = None /\ w.pc = "idle" /\ k \in held
    /\ held' = held \ {k} /\ xdown' = xdown \ {k} /\ expired' = FALSE
    /\ IF Owned(k)
       THEN MirroredCall("ReleaseCommitted", w.ledger[k],
                         [w EXCEPT !.pc = "commit", !.restores = <<k>>])
       ELSE Continue(w)
    /\ UNCHANGED <<cancelled, broker, reply, alive, wireVars, guardianVars,
                   bounds>>

Commit ==
    /\ WriterTurn /\ w.pc = "commit" /\ UNCHANGED expired
    /\ \/ w.ret = "err" /\ StopWriter("fatal")
       \/ /\ w.ret = "ok"
          /\ Continue([w EXCEPT !.pc = "idle",
                                  !.ledger[Head(w.restores)] = None])

-----------------------------------------------------------------------------
(* The guardian process.                                                   *)

GuardianTurn ==
    UNCHANGED <<held, brokerVars, emergency, clientVars, writerVars, alive,
                losses, cancels>>

Receiving == guardian \in {"hello", "ready"} /\ toGuardian # <<>>

Transient(t) == t.state # "PhysicalDebt"
\* The tracked tokens with a name.  Identifiers are given out in order, so the
\* order of the vector is that of the identifiers.
Tracked(tok) == {t \in tokens : t.token = tok}
\* What a release is owed for.
Owed == {t \in tokens : t.state # "Prepared"}
DebtCount == Cardinality(Owed)
SetState(tok, state) ==
    {IF t.token = tok THEN [t EXCEPT !.state = state] ELSE t : t \in tokens}
Drop(tok) == tokens \ Tracked(tok)

\* validate_mutation and validate_active_operation.
Mutates(r) == ~expired /\ r.op = activeOperation

AcceptsHello == guardian = "hello" /\ ~expired

\* create_epoch_marker: a window of the guardian's with a random mark on it.
CreateEpochMarker(ok) == XRequest(ok, xdown)

\* run_internal_guardian_with: the connection is accepted, then the guardian
\* marks its X server; it exits if it cannot.
EstablishIdentity ==
    /\ guardian = "start"
    /\ \E ok \in BOOLEAN :
         /\ CreateEpochMarker(ok)
         /\ guardian' = IF ok THEN "hello" ELSE "exited"
    /\ UNCHANGED <<wireVars, request, response, tokens, nextToken, activeOperation,
                   pendingSync, cleanup, confirmation>>
    /\ GuardianTurn

\* validate_prepare_operation: a new operation starts only when the last one
\* left nothing but physical debts.
StartsOperation(op) ==
    op > activeOperation /\ \A t \in tokens : ~Transient(t)

\* accept_prepare.
AcceptsPrepare(r) ==
    ~expired /\ pendingSync = None /\ (r.op = activeOperation \/ StartsOperation(r.op))

AcceptsDown(r) ==
    /\ Mutates(r) /\ pendingSync = None /\ DebtCount < MAX_ACTIVE_DEBTS
    /\ \E t \in Tracked(r.token) : t.op = r.op /\ t.state = "Prepared"

AcceptsUp(r) ==
    /\ Mutates(r) /\ pendingSync = None
    /\ \E t \in Tracked(r.token) :
         t.state = "PhysicalDebt" \/ (t.state # "Attempting" /\ t.op = r.op)

AcceptsSynchronize(r) ==
    /\ Mutates(r) /\ pendingSync # None /\ pendingSync.token = r.token
    /\ pendingSync.up \/ \E t \in Tracked(r.token) : t.state = "PossiblyDown"

AcceptsTransfer(r) ==
    /\ Mutates(r) /\ pendingSync = None
    /\ \E t \in Tracked(r.token) : t.op = r.op /\ t.state = "PossiblyDown"

AcceptsRelease(r) ==
    /\ ~expired /\ pendingSync = None
    /\ \E t \in Tracked(r.token) : t.state = "PhysicalDebt"

AcceptsCancel(r) == Mutates(r)

\* ProtocolState::accept.  The mutation deadline is checked here and not
\* again.
Accepts(r) ==
    CASE r.kind = "Hello" -> AcceptsHello
      [] r.kind = "PrepareKey" -> AcceptsPrepare(r)
      [] r.kind = "ExecuteDown" -> AcceptsDown(r)
      [] r.kind = "KeyUp" -> AcceptsUp(r)
      [] r.kind = "Synchronize" -> AcceptsSynchronize(r)
      [] r.kind = "Transfer" -> AcceptsTransfer(r)
      [] r.kind = "ReleaseCommitted" -> AcceptsRelease(r)
      [] r.kind = "CancelAndDrain" -> AcceptsCancel(r)

\* begin_terminal and cleanup_tokens_reverse: what was only prepared is
\* forgotten, the rest is released in reverse.
BeginCleanup == tokens' = Owed /\ cleanup' = Owed /\ pendingSync' = None

Answer(kind, tok) ==
    guardian' = "reply" /\ response' = Resp(kind, tok, TRUE)

\* A frame is received and checked; a refused one is answered with Fatal.
Accept ==
    /\ Receiving
    /\ LET r == Head(toGuardian) IN
         /\ request' = r
         /\ IF ~Accepts(r) THEN Answer("Fatal", None) /\
                                UNCHANGED <<tokens, pendingSync, activeOperation,
                                            cleanup>>
            ELSE /\ activeOperation' =
                      IF r.kind = "PrepareKey" THEN r.op ELSE activeOperation
                 /\ tokens' = CASE r.kind = "ExecuteDown" ->
                                     SetState(r.token, "Attempting")
                                [] r.kind = "Transfer" ->
                                     SetState(r.token, "PhysicalDebt")
                                [] r.kind = "ReleaseCommitted" -> Drop(r.token)
                                [] OTHER -> tokens
                 /\ pendingSync' =
                      CASE r.kind \in {"ExecuteDown", "KeyUp"} ->
                             [token |-> r.token, up |-> r.kind = "KeyUp"]
                        [] r.kind = "CancelAndDrain" -> None
                        [] OTHER -> pendingSync
                 /\ guardian' = "accepted"
                 /\ UNCHANGED <<response, cleanup>>
    /\ toGuardian' = Tail(toGuardian)
    /\ UNCHANGED <<xdown, nextToken, confirmation, toDaemon, daemonEnd, xerrors>>
    /\ GuardianTurn

\* The accepted request is executed; an X error is answered with Fatal.
Executing(kind) ==
    /\ guardian = "accepted" /\ request.kind = kind
    /\ UNCHANGED <<request, activeOperation, wireVars>> /\ GuardianTurn

\* prepare_key looks the key up in the current map; record_prepared gives it
\* a token.
ExecutePrepareKey ==
    /\ Executing("PrepareKey")
    /\ \E ok \in BOOLEAN :
         /\ XRequest(ok, xdown)
         /\ IF ~ok THEN Answer("Fatal", None) /\ UNCHANGED <<tokens, nextToken>>
            ELSE LET t == [id |-> nextToken, key |-> request.key] IN
                 /\ tokens' = tokens \cup {[token |-> t, op |-> request.op,
                                           state |-> "Prepared"]}
                 /\ nextToken' = nextToken + 1
                 /\ Answer("Prepared", t)
    /\ UNCHANGED <<pendingSync, cleanup, confirmation>>

\* Mutant: a press that failed is taken to have had no effect.
ExecuteKeyDownTrusting ==
    /\ Executing("ExecuteDown")
    /\ \E ok \in BOOLEAN :
         /\ XRequest(ok, xdown \cup {request.token.key})
         /\ confirmation' = ok
         /\ Answer(IF ok THEN "Ack" ELSE "Fatal", request.token)
         /\ tokens' = SetState(request.token,
                               IF ok THEN "PossiblyDown" ELSE "Prepared")
    /\ UNCHANGED <<nextToken, pendingSync, cleanup>>

\* record_down_attempt: the key counts as possibly down whatever the X server
\* said of the press.
ExecuteKeyDown ==
    /\ Executing("ExecuteDown")
    /\ \E ok \in BOOLEAN :
         /\ XRequest(ok, xdown \cup {request.token.key})
         /\ confirmation' = ok
         /\ Answer(IF ok THEN "Ack" ELSE "Fatal", request.token)
    /\ tokens' = SetState(request.token, "PossiblyDown")
    /\ UNCHANGED <<nextToken, pendingSync, cleanup>>

ExecuteKeyUp ==
    /\ Executing("KeyUp")
    /\ \E ok \in BOOLEAN :
         /\ XRequest(ok, xdown \ {request.token.key})
         /\ confirmation' = ok
         /\ Answer(IF ok THEN "Ack" ELSE "Fatal", request.token)
    /\ UNCHANGED <<tokens, nextToken, pendingSync, cleanup>>

\* complete_synchronize: a confirmed release forgets its token.
ExecuteSynchronize ==
    /\ Executing("Synchronize")
    /\ Answer(IF confirmation THEN "Ack" ELSE "Fatal", request.token)
    /\ tokens' = IF confirmation /\ pendingSync.up THEN Drop(request.token)
                 ELSE tokens
    /\ pendingSync' = IF confirmation THEN None ELSE pendingSync
    /\ confirmation' = FALSE
    /\ UNCHANGED <<xdown, xerrors, nextToken, cleanup>>

ExecuteCancelAndDrain ==
    /\ Executing("CancelAndDrain")
    /\ BeginCleanup /\ guardian' = "finish"
    /\ response' = Resp("Drained", None, TRUE)
    /\ UNCHANGED <<xdown, xerrors, nextToken, confirmation>>

\* Hello, and what accept has already done.
ExecuteAccounting ==
    /\ \E kind \in {"Hello", "Transfer", "ReleaseCommitted"} : Executing(kind)
    /\ Answer(IF request.kind = "Hello" THEN "Ready" ELSE "Ack", request.token)
    /\ UNCHANGED <<xdown, xerrors, tokens, nextToken, pendingSync, cleanup,
                   confirmation>>

Execute ==
    \/ ExecutePrepareKey \/ ExecuteKeyDown \/ ExecuteKeyUp
    \/ ExecuteSynchronize \/ ExecuteCancelAndDrain \/ ExecuteAccounting

\* The answer is sent.  After Fatal, and when the peer is gone, the session
\* is finished; after Drained the process ends.
Reply ==
    /\ guardian = "reply"
    /\ toDaemon' = IF daemonEnd THEN Append(toDaemon, response) ELSE toDaemon
    /\ CASE response.kind = "Drained" ->
              guardian' = "exited" /\ UNCHANGED <<tokens, cleanup, pendingSync>>
         [] response.kind # "Drained" /\ (response.kind = "Fatal" \/ ~daemonEnd) ->
              guardian' = "finish" /\ BeginCleanup
         [] OTHER ->
              guardian' = "ready" /\ UNCHANGED <<tokens, cleanup, pendingSync>>
    /\ response' = None
    /\ UNCHANGED <<xdown, xerrors, request, nextToken, activeOperation,
                   confirmation, toGuardian, daemonEnd>>
    /\ GuardianTurn

\* The peer closed and every frame it sent has been handled.
PeerEof ==
    /\ guardian \in {"hello", "ready"} /\ toGuardian = <<>> /\ ~daemonEnd
    /\ guardian' = "finish" /\ BeginCleanup
    /\ UNCHANGED <<xdown, xerrors, request, response, nextToken,
                   activeOperation, confirmation, wireVars>>
    /\ GuardianTurn

\* finish_until: one owed token; it is forgotten only when both its release
\* and the confirmation succeed.
CleanupOne ==
    /\ guardian = "finish"
    /\ \E t \in cleanup, ok \in BOOLEAN :
         /\ \A u \in cleanup : u.token.id <= t.token.id
         /\ XRequest(ok, xdown \ {t.token.key})
         /\ tokens' = IF ok THEN Drop(t.token) ELSE tokens
         /\ cleanup' = cleanup \ {t}
    /\ confirmation' = FALSE
    /\ UNCHANGED <<guardian, request, response, nextToken, activeOperation,
                   pendingSync, wireVars>>
    /\ GuardianTurn

\* The proof is taken: sent when the cleanup was asked for, else the process
\* ends with it.  The cleanup's own deadline may end the loop early.
CleanupDone ==
    /\ guardian = "finish"
    /\ cleanup = {} \/ losses < MaxLosses
    /\ losses' = IF cleanup = {} THEN losses ELSE losses + 1
    /\ cleanup' = {}
    /\ IF response # None
       THEN /\ guardian' = "reply"
            /\ response' = Resp("Drained", None, tokens = {})
       ELSE guardian' = "exited" /\ UNCHANGED response
    /\ UNCHANGED <<held, brokerVars, emergency, clientVars, writerVars, alive,
                   cancels, xdown, xerrors, request, tokens, nextToken,
                   activeOperation, pendingSync, confirmation, wireVars>>

-----------------------------------------------------------------------------
(* Faults and the other threads.                                           *)

DaemonLost == ~alive \/ failed \/ stopping

Lose == losses < MaxLosses /\ losses' = losses + 1

\* SIGTERM: the guardian finishes its session instead of the next request.
Signal ==
    /\ Lose /\ guardian \in {"hello", "ready"}
    /\ guardian' = "finish" /\ BeginCleanup
    /\ UNCHANGED <<xdown, held, brokerVars, emergency, clientVars, writerVars,
                   alive, wireVars, request, response, nextToken,
                   activeOperation, confirmation, xerrors, cancels>>

\* SIGKILL of one process while the other one still answers for the keys.
KillGuardian ==
    /\ Lose /\ ~GuardianGone /\ ~DaemonLost
    /\ guardian' = "killed"
    /\ UNCHANGED <<xdown, held, brokerVars, emergency, clientVars, writerVars,
                   alive, wireVars, request, response, tokens, nextToken,
                   activeOperation, pendingSync, cleanup, confirmation,
                   xerrors, cancels>>

KillDaemon ==
    /\ Lose /\ alive /\ ~GuardianGone
    /\ alive' = FALSE /\ daemonEnd' = FALSE
    /\ UNCHANGED <<xdown, held, brokerVars, emergency, clientVars, writerVars,
                   toGuardian, toDaemon, guardianVars, xerrors, cancels>>

\* The deadline of the running call passes.
DeadlinePasses ==
    /\ Lose /\ alive /\ ~expired /\ w.pc \notin {"idle", "stopped"}
    /\ expired' = TRUE
    /\ UNCHANGED <<xdown, held, brokerVars, emergency, clientVars, w,
                   cancelled, alive, wireVars, guardianVars, xerrors, cancels>>

\* The service asks for the operation's soft cancellation.
Cancel ==
    /\ cancels < MaxCancels /\ cancels' = cancels + 1
    /\ alive /\ ~cancelled /\ w.kind = "correction"
    /\ w.pc \notin {"hello", "arm", "idle", "stopped", "commit"}
    /\ cancelled' = TRUE
    /\ UNCHANGED <<xdown, held, brokerVars, emergency, clientVars, w, expired,
                   alive, wireVars, guardianVars, losses, xerrors>>

-----------------------------------------------------------------------------

\* spawn_broker: the gate is closed until the emergency release is armed.
BrokerSpawned ==
    /\ failed = FALSE /\ accepting = FALSE /\ stopping = FALSE
    /\ broker = "idle" /\ cmd = None

\* EmergencyCoordinator::new.
Unarmed == [state |-> "Unarmed", mirrored |-> <<>>, todo |-> <<>>, proof |-> "none"]

Init ==
    /\ xdown = {} /\ held = {} /\ BrokerSpawned /\ emergency = Unarmed
    /\ prepared = {} /\ pendingMutation = None /\ call = None /\ reply = None
    /\ w = [pc |-> "hello", ret |-> "none", op |-> 0, kind |-> "none",
            steps |-> <<>>, frozen |-> <<>>, typed |-> <<>>, plan |-> <<>>,
            debts |-> <<>>, todo |-> <<>>, restores |-> <<>>,
            ledger |-> [m \in Modifiers |-> None], up |-> FALSE,
            mode |-> "none", bad |-> FALSE, outcome |-> "none"]
    /\ cancelled = FALSE /\ expired = FALSE /\ alive = TRUE
    /\ toGuardian = <<>> /\ toDaemon = <<>> /\ daemonEnd = TRUE
    /\ guardian = "start" /\ request = None /\ response = None
    /\ tokens = {} /\ nextToken = 1 /\ activeOperation = 0
    /\ pendingSync = None /\ cleanup = {} /\ confirmation = FALSE
    /\ losses = 0 /\ xerrors = 0 /\ cancels = 0

WriterStep ==
    \/ Connect \/ VerifyServer \/ Arm \/ Prepare \/ Activate \/ Release \/ Released
    \/ Press \/ Pressed \/ Settled \/ Unpress \/ Unpressed \/ Acknowledge
    \/ Unreleased \/ Restore \/ Restored \/ Adopt \/ Adopted \/ Cleanup
    \/ Cleaned \/ CleanedSync \/ Proof \/ Report \/ Commit
    \/ ClientReturn \/ SubmitTimeout
BrokerStep == BrokerSend \/ BrokerReceive \/ BrokerGivesUp \/ BrokerIdle
GuardianStep ==
    EstablishIdentity \/ Accept \/ Execute \/ Reply \/ PeerEof \/ CleanupOne \/ CleanupDone
EmergencyStep == StartPendingRelease \/ EmergencyRelease \/ EmergencyFinish

Next ==
    \/ WriterStep \/ BrokerStep \/ GuardianStep \/ EmergencyStep
    \/ StartCorrection \/ StartTypeKey \/ Shutdown
    \/ \E k \in Modifiers : Hold(k) \/ LetGo(k)
    \/ Signal \/ KillGuardian \/ KillDaemon \/ DeadlinePasses \/ Cancel

\* Threads and processes that can run do run.  The owner stops a writer whose
\* health has failed; it may let a healthy one idle for ever.
Fairness ==
    /\ WF_vars(WriterStep) /\ WF_vars(BrokerStep) /\ WF_vars(GuardianStep)
    /\ WF_vars(EmergencyStep) /\ WF_vars(failed /\ Shutdown)

Spec == Init /\ [][Next]_vars
LiveSpec == Spec /\ Fairness

-----------------------------------------------------------------------------
(* Properties.                                                             *)

GuardianOwes(k) ==
    ~GuardianGone /\ \E t \in Owed : t.token.key = k
DaemonOwes(k) ==
    /\ alive
    /\ \E t \in IF emergency.state = "Running" THEN Elements(emergency.todo)
                                               ELSE Mirrored : t.key = k
    /\ emergency.state \in {"Armed", "Pending", "Running"}
\* A failed X request or a clean-up cut short left the key's state in doubt,
\* and the daemon's proof or the guardian's terminal record says so.
Admitted ==
    \/ emergency.proof = "Unreconciled"
    \/ /\ guardian = "exited" /\ tokens # {}
       /\ ~alive \/ emergency.state \in {"Running", "Finished"}

\* A key that XTEST holds down is never forgotten: a running guardian has a
\* token for it, or the daemon still has it in the mirror it will release, or
\* a release failed and the published proof says Unreconciled.  While neither
\* side is lost the mirror covers every token the guardian may owe a release
\* for, so that killing the guardian at any moment leaves nothing unknown
\* (GuardianClient, with its EmergencyCoordinator).
NoOrphanKey ==
    /\ \A k \in xdown : GuardianOwes(k) \/ DaemonOwes(k) \/ Admitted
    /\ (emergency.state = "Armed" /\ ~GuardianGone) =>
         \A t \in Owed : t.token \in Mirrored

\* Once the daemon has noticed that the guardian failed, or is gone itself, no
\* synthetic key stays down: the guardian's clean-up or the emergency release
\* lifts it, or a failed X request or a clean-up cut short by its deadline is
\* admitted.  A guardian killed just before an orderly stop of the writer is not
\* noticed by anyone, and its keys stay down.
LostKeysComeUp ==
    (~alive \/ failed) ~>
      (xdown = {} \/ Admitted \/ (guardian = "exited" /\ tokens # {}))
=============================================================================
