------------------------- MODULE WriterTransaction -------------------------
(***************************************************************************)
(* The virtual keyboard writer of daemon/keyboard.rs: one writer thread    *)
(* that owns the uinput device, the bounded command queue in front of it,  *)
(* the threads that submit transactions and wait for them, and the code    *)
(* that starts the writer and shuts it down.                               *)
(*                                                                         *)
(* A transaction ends exactly once, as Completed (by the writer) or as     *)
(* TimedOut (by whichever thread first notices the deadline).  Everything  *)
(* that decides it is written under one mutex, the terminal gate, but is   *)
(* also read without it, so a section that writes twice under the gate is  *)
(* two steps here: the reply is visible before Completed is, and TimedOut  *)
(* is visible before the failure id is.  A section that writes once is one *)
(* step.                                                                   *)
(***************************************************************************)
EXTENDS Naturals, Sequences, FiniteSets

CONSTANTS
    Sync,      \* transactions run by run_transaction: the caller blocks
    Manual,    \* current-word corrections: the caller polls and may cancel
    Watched,   \* the synchronous ones that also watch the input worker
    Writer,    \* the writer thread, as a holder of the terminal gate
    None,      \* no transaction, no gate holder, no command
    Fast,      \* a queued ForwardEvent or TypeSeparator
    Shutdown,  \* the queued Shutdown command
    Capacity,  \* WRITER_QUEUE_CAPACITY
    PlanLen,   \* authorised key mutations in one transaction
    MaxSubmitted, \* bound on the transactions that are ever submitted
    Faults     \* the environment's failures this instance considers

Txns == Sync \cup Manual

ASSUME ConstantsAssumption ==
    /\ Sync \cap Manual = {}
    /\ Watched \subseteq Sync
    /\ Writer \notin Txns
    /\ {None, Fast, Shutdown} \cap (Txns \cup {Writer}) = {}
    /\ None # Fast /\ None # Shutdown /\ Fast # Shutdown
    /\ Capacity \in Nat \ {0}
    /\ PlanLen \in Nat /\ MaxSubmitted \in Nat
    /\ Faults \subseteq {"session", "inputWorker", "guardian"}

VARIABLES
    \* WriterTransactionControl, and the atomics shared by all of them
    state,           \* [Txns -> Pending, Completed, TimedOut]
    softCancel,      \* [Txns -> BOOLEAN], soft_cancel_requested
    failureId,       \* transaction_failure_request_id, None for 0
    stopRequested,
    gate,            \* holder of the terminal gate between two writes
    marking,         \* the transaction its holder has just timed out
    alive,           \* the writer's alive flag
    \* channels
    queue, connected,   \* the command queue; its receiver still exists
    reply,           \* [Txns -> none, ok, err, cancelled], the reply sent
    completions,     \* the completion channel of manual transactions
    \* the writer thread
    wpc, wcmd, wresult, done,
    \* the submitting threads
    cpc, held, result,
    pending, disc, pollErr,   \* pending_manual_current_word and its poll
    \* the owner that starts and stops the writer
    mpc,
    \* the environment
    deadlinePassed, session, inputLost, guardianFailed

ctl == <<state, softCancel, failureId, stopRequested, gate, marking>>
chans == <<queue, connected, reply, completions>>
wvars == <<wpc, wcmd, wresult, done>>
cvars == <<cpc, held, result>>
pvars == <<pending, disc, pollErr>>
env == <<deadlinePassed, session, inputLost, guardianFailed>>
vars == <<ctl, alive, chans, wvars, cvars, pvars, mpc, env>>

TxnState == {"Pending", "Completed", "TimedOut"}
Errors == {"session", "disconnected", "timedOut", "alreadyCompleted",
           "guardian", "saturated", "inputLost", "mismatch", "rejected"}
Replies == {"ok", "err", "cancelled"}

WaitPcs == {"readState", "readStop", "readFailure", "mark", "recv", "health",
            "stopInput", "recvTimeout"}
PollPcs == {"between", "polling", "active", "activeErr", "checkDisc",
            "pollHealth", "pollFinal"}
ClientPcs == {"idle", "send", "trySend", "resend", "retrySend", "saturate",
              "done"} \cup WaitPcs \cup PollPcs
WriterPcs == {"start", "setAlive", "sendReady", "idle", "check", "fast",
              "first", "plan", "mutate", "cleanup", "restore", "final",
              "publish", "cas", "exiting", "dropped", "exited"}
MainPcs == {"starting", "running", "failedStart", "shutdown", "joining",
            "stopped", "unresponsive"}

CtlType ==
    /\ state \in [Txns -> TxnState]
    /\ softCancel \in [Txns -> BOOLEAN]
    /\ failureId \in Txns \cup {None}
    /\ stopRequested \in BOOLEAN
    /\ gate \in Txns \cup {Writer, None}
    /\ marking \in Txns \cup {None}

ChanType ==
    /\ queue \in Seq(Txns \cup {Fast, Shutdown}) /\ Len(queue) <= Capacity
    /\ connected \in BOOLEAN
    /\ reply \in [Txns -> Replies \cup {"none"}]
    /\ completions \in Seq(Manual)

WriterType ==
    /\ wpc \in WriterPcs
    /\ wcmd \in Txns \cup {Fast, None}
    /\ wresult \in Replies
    /\ done \in 0..PlanLen

ClientType ==
    /\ cpc \in [Txns -> ClientPcs]
    /\ held \in [Txns -> BOOLEAN]
    /\ result \in [Txns -> Errors \cup Replies \cup {"none"}]
    /\ pending \in Manual \cup {None}
    /\ disc \in BOOLEAN
    /\ pollErr \in Errors \cup {"none"}

OtherType ==
    /\ alive \in BOOLEAN
    /\ mpc \in MainPcs
    /\ deadlinePassed \in [Txns -> BOOLEAN]
    /\ session \in BOOLEAN /\ inputLost \in BOOLEAN /\ guardianFailed \in BOOLEAN

TypeOK == CtlType /\ ChanType /\ WriterType /\ ClientType /\ OtherType

Init ==
    /\ state = [t \in Txns |-> "Pending"]
    /\ softCancel = [t \in Txns |-> FALSE]
    /\ failureId = None /\ stopRequested = FALSE
    /\ gate = None /\ marking = None
    /\ alive = FALSE
    /\ queue = <<>> /\ connected = TRUE
    /\ reply = [t \in Txns |-> "none"] /\ completions = <<>>
    /\ wpc = "start" /\ wcmd = None /\ wresult = "ok" /\ done = 0
    /\ cpc = [t \in Txns |-> "idle"]
    /\ held = [t \in Txns |-> FALSE]
    /\ result = [t \in Txns |-> "none"]
    /\ pending = None /\ disc = FALSE /\ pollErr = "none"
    /\ mpc = "starting"
    /\ deadlinePassed = [t \in Txns |-> FALSE]
    /\ session = TRUE /\ inputLost = FALSE /\ guardianFailed = FALSE

-----------------------------------------------------------------------------
(* The terminal gate and the checks made under it. *)

\* A thread inside a two-write section does nothing else until it is over.
Outside(p) == gate # p
GateFree == gate = None

\* try_mark_timed_out_while_terminal_gate_is_held: the first of its two
\* writes; FinishMark is the second.
MarkTimedOut(p, t) ==
    /\ state' = [state EXCEPT ![t] = "TimedOut"]
    /\ gate' = p
    /\ marking' = t
    /\ UNCHANGED <<softCancel, failureId, stopRequested>>

FinishMark ==
    /\ marking # None
    /\ failureId' = IF failureId = None THEN marking ELSE failureId
    /\ marking' = None
    /\ gate' = None
    /\ UNCHANGED <<state, softCancel, stopRequested, alive, chans, wvars,
                   cvars, pvars, mpc, env>>

Markable(t) == ~stopRequested /\ state[t] = "Pending"

\* Mutants of Active: a check that forgets the stop flag, and one that
\* forgets the deadline.
ActiveIgnoringStop(t) ==
    IF ~session THEN "session"
    ELSE IF failureId # None \/ state[t] = "TimedOut" THEN "timedOut"
    ELSE IF state[t] = "Completed" THEN "alreadyCompleted"
    ELSE IF deadlinePassed[t] THEN "timedOut"
    ELSE IF softCancel[t] THEN "cancelled"
    ELSE "ok"

ActiveIgnoringDeadline(t) ==
    IF ~session THEN "session"
    ELSE IF stopRequested THEN "disconnected"
    ELSE IF failureId # None \/ state[t] = "TimedOut" THEN "timedOut"
    ELSE IF state[t] = "Completed" THEN "alreadyCompleted"
    ELSE IF softCancel[t] THEN "cancelled"
    ELSE "ok"

\* ensure_active_while_terminal_gate_is_held, in the order of its returns.
Active(t) ==
    IF ~session THEN "session"
    ELSE IF stopRequested THEN "disconnected"
    ELSE IF failureId # None \/ state[t] = "TimedOut" THEN "timedOut"
    ELSE IF state[t] = "Completed" THEN "alreadyCompleted"
    ELSE IF deadlinePassed[t] THEN "timedOut"
    ELSE IF softCancel[t] THEN "cancelled"
    ELSE "ok"

EnsureActive(p, t) ==
    /\ GateFree
    /\ IF Active(t) = "timedOut" /\ Markable(t)
       THEN MarkTimedOut(p, t)
       ELSE UNCHANGED ctl

\* authorize_cleanup_mutation_start: no session and no soft-cancel check.
CleanupActive(t) ==
    IF stopRequested THEN "disconnected"
    ELSE IF failureId # None \/ state[t] = "TimedOut" THEN "timedOut"
    ELSE IF state[t] = "Completed" THEN "alreadyCompleted"
    ELSE IF deadlinePassed[t] THEN "timedOut"
    ELSE "ok"

\* VirtualKeyboardHandle::health_error
HealthError ==
    IF failureId # None THEN "timedOut"
    ELSE IF guardianFailed THEN "guardian"
    ELSE IF ~alive THEN "disconnected"
    ELSE "none"

Goto(t, pc) == cpc' = [cpc EXCEPT ![t] = pc]

MaySubmit == Cardinality({t \in Txns : cpc[t] # "idle"}) < MaxSubmitted

\* The call returns: its outcome is fixed and its thread is done with it.
Return(t, r) ==
    /\ Goto(t, "done")
    /\ result' = [result EXCEPT ![t] = r]

-----------------------------------------------------------------------------
(* Synchronous transactions: run_transaction and wait_for_reply. *)

\* ensure_alive and the input worker are checked before a control exists;
\* an input worker already lost by then is "rejected" here, so that
\* "inputLost" always means a queued transaction given up.
Start(t) ==
    /\ cpc[t] = "idle" /\ MaySubmit /\ mpc = "running"
    /\ \/ HealthError # "none" /\ Return(t, HealthError)
       \/ HealthError = "none" /\ t \in Watched /\ inputLost
          /\ Return(t, "rejected")
       \/ HealthError = "none" /\ ~(t \in Watched /\ inputLost)
          /\ Goto(t, "send") /\ UNCHANGED result
    /\ UNCHANGED <<ctl, alive, chans, wvars, held, pvars, mpc, env>>

\* One turn of the loop of send_transaction_command up to its try_send.
SendCheck(t) ==
    /\ cpc[t] \in {"send", "resend", "saturate"} /\ Outside(t)
    /\ EnsureActive(t, t)
    /\ \/ Active(t) # "ok" /\ Return(t, Active(t))
       \/ Active(t) = "ok" /\ cpc[t] = "saturate" /\ Return(t, "saturated")
       \/ /\ Active(t) = "ok" /\ cpc[t] # "saturate"
          /\ Goto(t, IF cpc[t] = "send" THEN "trySend" ELSE "retrySend")
          /\ UNCHANGED result
    /\ UNCHANGED <<alive, chans, wvars, held, pvars, mpc, env>>

\* A full queue is retried until the retry window closes ("saturate").
TrySend(t) ==
    /\ cpc[t] \in {"trySend", "retrySend"}  /\ Outside(t)
    /\ \/ HealthError # "none" /\ Return(t, HealthError) /\ UNCHANGED queue
       \/ /\ HealthError = "none" /\ ~connected
          /\ Return(t, "disconnected") /\ UNCHANGED queue
       \/ /\ HealthError = "none" /\ connected /\ Len(queue) < Capacity
          /\ queue' = Append(queue, t)
          /\ Goto(t, "readState") /\ UNCHANGED result
       \/ /\ HealthError = "none" /\ connected /\ Len(queue) = Capacity
          /\ Goto(t, "resend") /\ UNCHANGED <<result, queue>>
       \/ /\ HealthError = "none" /\ cpc[t] = "retrySend"
          /\ Goto(t, "saturate") /\ UNCHANGED <<result, queue>>
    /\ UNCHANGED <<ctl, alive, connected, reply, completions, wvars, held,
                   pvars, mpc, env>>

\* The reply sender lives in the queued command, then in the writer's hands.
SenderAlive(t) ==
    \/ \E i \in DOMAIN queue : queue[i] = t
    \/ wcmd = t

ReadState(t) ==
    /\ cpc[t] = "readState" /\ Outside(t)
    /\ \/ /\ state[t] = "Completed"
          /\ Return(t, IF reply[t] = "none" THEN "disconnected" ELSE reply[t])
       \/ state[t] = "TimedOut" /\ Return(t, "timedOut")
       \/ state[t] = "Pending" /\ Goto(t, "readStop") /\ UNCHANGED result
    /\ UNCHANGED <<ctl, alive, chans, wvars, held, pvars, mpc, env>>

ReadStop(t) ==
    /\ cpc[t] = "readStop"
    /\ \/ stopRequested /\ Return(t, "disconnected")
       \/ ~stopRequested /\ Goto(t, "readFailure") /\ UNCHANGED result
    /\ UNCHANGED <<ctl, alive, chans, wvars, held, pvars, mpc, env>>

\* Mutant of ReadFailure: only the writer's failure ends the wait.
ReadFailureIgnoringDeadline(t) ==
    /\ cpc[t] = "readFailure"
    /\ Goto(t, IF failureId # None THEN "mark" ELSE "recv")
    /\ UNCHANGED <<ctl, alive, chans, wvars, held, result, pvars, mpc, env>>

ReadFailure(t) ==
    /\ cpc[t] = "readFailure"
    /\ Goto(t, IF failureId # None \/ deadlinePassed[t] THEN "mark" ELSE "recv")
    /\ UNCHANGED <<ctl, alive, chans, wvars, held, result, pvars, mpc, env>>

\* Mutant of Mark: a plain store where the code has a compare-exchange.
MarkBlindly(t) ==
    /\ cpc[t] = "mark" /\ GateFree
    /\ MarkTimedOut(t, t) /\ Return(t, "timedOut")
    /\ UNCHANGED <<alive, chans, wvars, held, pvars, mpc, env>>

\* try_mark_timed_out; when somebody else ended the transaction, look again.
Mark(t) ==
    /\ cpc[t] = "mark" /\ GateFree
    /\ \/ Markable(t) /\ MarkTimedOut(t, t) /\ Return(t, "timedOut")
       \/ ~Markable(t) /\ Goto(t, "readState") /\ UNCHANGED <<ctl, result>>
    /\ UNCHANGED <<alive, chans, wvars, held, pvars, mpc, env>>

\* try_recv at "recv", recv_timeout at "recvTimeout".
Recv(t) ==
    /\ cpc[t] \in {"recv", "recvTimeout"}
    /\ LET next == IF cpc[t] = "recv" THEN "health" ELSE "readState"
       IN \/ /\ reply[t] # "none" /\ ~held[t]
             /\ held' = [held EXCEPT ![t] = TRUE]
             /\ Goto(t, next) /\ UNCHANGED result
          \/ /\ reply[t] = "none" \/ held[t]
             /\ (cpc[t] = "recv" /\ held[t]) \/ SenderAlive(t)
                \/ state[t] # "Pending" \/ failureId # None
             /\ Goto(t, next) /\ UNCHANGED <<held, result>>
          \/ /\ reply[t] = "none" \/ (held[t] /\ cpc[t] = "recvTimeout")
             /\ ~SenderAlive(t) /\ state[t] = "Pending" /\ failureId = None
             /\ Return(t, "disconnected") /\ UNCHANGED held
    /\ UNCHANGED <<ctl, alive, chans, wvars, pvars, mpc, env>>

CheckInputHealth(t) ==
    /\ cpc[t] = "health"
    /\ IF ~(t \in Watched /\ inputLost)
       THEN Goto(t, "recvTimeout") /\ UNCHANGED result
       ELSE IF held[t] /\ reply[t] = "err"
       THEN Return(t, "err")
       ELSE Goto(t, "stopInput") /\ UNCHANGED result
    /\ UNCHANGED <<ctl, alive, chans, wvars, held, pvars, mpc, env>>

\* try_request_stop_for_input_worker_loss
StopForInputLoss(t) ==
    /\ cpc[t] = "stopInput" /\ GateFree
    /\ IF stopRequested \/ failureId # None \/ state[t] # "Pending"
       THEN Goto(t, "readState") /\ UNCHANGED <<ctl, result>>
       ELSE IF deadlinePassed[t]
       THEN MarkTimedOut(t, t) /\ Goto(t, "readState") /\ UNCHANGED result
       ELSE /\ stopRequested' = TRUE
            /\ UNCHANGED <<state, softCancel, failureId, gate, marking>>
            /\ Return(t, "inputLost")
    /\ UNCHANGED <<alive, chans, wvars, held, pvars, mpc, env>>

ClientStep(t) ==
    \/ Start(t) \/ SendCheck(t) \/ TrySend(t) \/ ReadState(t) \/ ReadStop(t)
    \/ ReadFailure(t) \/ Mark(t) \/ Recv(t) \/ CheckInputHealth(t)
    \/ StopForInputLoss(t)

-----------------------------------------------------------------------------
(* Manual corrections: begin, poll and cancel, all on the input thread. *)

BeginManual(t) ==
    /\ cpc[t] = "idle" /\ MaySubmit /\ mpc = "running"
    /\ \/ /\ HealthError # "none" /\ Return(t, HealthError)
          /\ UNCHANGED <<queue, pending>>
       \/ /\ HealthError = "none"
          /\ pending # None \/ (connected /\ Len(queue) = Capacity)
          /\ Return(t, "rejected") /\ UNCHANGED <<queue, pending>>
       \/ /\ HealthError = "none" /\ pending = None /\ ~connected
          /\ Return(t, "disconnected") /\ UNCHANGED <<queue, pending>>
       \/ /\ HealthError = "none" /\ pending = None
          /\ connected /\ Len(queue) < Capacity
          /\ queue' = Append(queue, t)
          /\ pending' = t
          /\ Goto(t, "between") /\ UNCHANGED result
    /\ UNCHANGED <<ctl, alive, connected, reply, completions, wvars, held,
                   disc, pollErr, mpc, env>>

\* request_soft_cancel
RequestSoftCancel(t) ==
    /\ cpc[t] = "between" /\ Outside(t) /\ GateFree
    /\ failureId = None /\ Markable(t)
    /\ \/ deadlinePassed[t] /\ MarkTimedOut(t, t)
       \/ /\ ~deadlinePassed[t]
          /\ softCancel' = [softCancel EXCEPT ![t] = TRUE]
          /\ UNCHANGED <<state, failureId, stopRequested, gate, marking>>
    /\ UNCHANGED <<alive, chans, wvars, cvars, pvars, mpc, env>>

\* poll_manual_current_word_completion: drain one completion, then loop.
PollReceive(t) ==
    /\ cpc[t] = "between" /\ Outside(t)
    /\ IF completions # <<>>
       THEN /\ completions' = Tail(completions)
            /\ IF Head(completions) = t
               THEN /\ held' = [held EXCEPT ![t] = TRUE]
                    /\ Goto(t, "polling") /\ UNCHANGED result
               ELSE Return(t, "mismatch") /\ UNCHANGED held
       ELSE Goto(t, "polling") /\ UNCHANGED <<completions, held, result>>
    /\ disc' = (completions = <<>> /\ ~connected)
    /\ pollErr' = "none"
    /\ UNCHANGED <<ctl, alive, queue, connected, reply, wvars, pending, mpc, env>>

PollState(t) ==
    /\ cpc[t] = "polling"
    /\ \/ /\ state[t] = "Pending"
          /\ Goto(t, "active") /\ UNCHANGED <<held, result, pending, completions>>
       \/ /\ state[t] = "TimedOut"
          /\ Return(t, "timedOut") /\ UNCHANGED <<held, pending, completions>>
       \/ /\ state[t] = "Completed" /\ held[t]
          /\ Return(t, reply[t]) /\ pending' = None
          /\ UNCHANGED <<held, completions>>
       \/ /\ state[t] = "Completed" /\ ~held[t] /\ completions # <<>>
          /\ completions' = Tail(completions)
          /\ held' = [held EXCEPT ![t] = Head(completions) = t]
          /\ IF Head(completions) = t
             THEN Return(t, reply[t]) /\ pending' = None
             ELSE Return(t, "mismatch") /\ UNCHANGED pending
       \/ /\ state[t] = "Completed" /\ ~held[t] /\ completions = <<>>
          /\ Return(t, "disconnected") /\ UNCHANGED <<held, pending, completions>>
    /\ UNCHANGED <<ctl, alive, queue, connected, reply, wvars, disc, pollErr,
                   mpc, env>>

\* The poll's own ensure_active; a cancellation it asked for is not an error.
PollActive(t) ==
    /\ cpc[t] = "active" /\ Outside(t)
    /\ EnsureActive(t, t)
    /\ IF Active(t) \in {"ok", "cancelled"}
       THEN Goto(t, "checkDisc") /\ UNCHANGED pollErr
       ELSE Goto(t, "activeErr") /\ pollErr' = Active(t)
    /\ UNCHANGED <<alive, chans, wvars, held, result, pending, disc, mpc, env>>

\* A completion that overtook the failed check wins over its error.
PollRecheck(t) ==
    /\ cpc[t] \in {"activeErr", "checkDisc"} /\ Outside(t)
    /\ LET error == IF cpc[t] = "activeErr" THEN pollErr
                    ELSE IF disc THEN "disconnected" ELSE "none"
       IN IF error = "none"
          THEN Goto(t, "pollHealth") /\ UNCHANGED result
          ELSE IF state[t] = "Completed"
          THEN Goto(t, "polling") /\ UNCHANGED result
          ELSE Return(t, error)
    /\ UNCHANGED <<ctl, alive, chans, wvars, held, pvars, mpc, env>>

PollHealth(t) ==
    /\ cpc[t] = "pollHealth"
    /\ pollErr' = HealthError
    /\ Goto(t, "pollFinal")
    /\ UNCHANGED <<ctl, alive, chans, wvars, held, result, pending, disc, mpc, env>>

PollFinal(t) ==
    /\ cpc[t] = "pollFinal"
    /\ \/ state[t] = "Completed" /\ Goto(t, "polling") /\ UNCHANGED result
       \/ state[t] = "TimedOut" /\ Return(t, "timedOut")
       \/ state[t] = "Pending" /\ pollErr # "none" /\ Return(t, pollErr)
       \/ /\ state[t] = "Pending" /\ pollErr = "none"
          /\ Goto(t, "between") /\ UNCHANGED result
    /\ UNCHANGED <<ctl, alive, chans, wvars, held, pvars, mpc, env>>

PollStep(t) ==
    \/ PollReceive(t) \/ PollState(t) \/ PollActive(t) \/ PollRecheck(t)
    \/ PollHealth(t) \/ PollFinal(t)

\* A fast command (forward_event, type_separator) is queued or refused.
SendFast ==
    /\ mpc = "running" /\ HealthError = "none"
    /\ connected /\ Len(queue) < Capacity
    /\ queue' = Append(queue, Fast)
    /\ UNCHANGED <<ctl, alive, connected, reply, completions, wvars, cvars,
                   pvars, mpc, env>>

-----------------------------------------------------------------------------
(* The writer thread. *)

WGoto(pc) == wpc' = pc /\ UNCHANGED <<wcmd, wresult, done>>
WExit == wpc' = "exiting" /\ wcmd' = None /\ wresult' = "ok" /\ done' = 0
WFail(r) == wpc' = "publish" /\ wresult' = r /\ UNCHANGED <<wcmd, done>>

\* The error of a failed check, as classify_manual_current_word_result and
\* is_matching_soft_cancel see it: only an own cancellation is not an error.
ErrorKind(t) == IF Active(t) = "cancelled" THEN "cancelled" ELSE "err"

\* ensure_writer_running, on startup and before every command; the backends
\* may also fail to initialise.
WriterStart ==
    /\ wpc = "start"
    /\ \/ GateFree /\ ~stopRequested /\ failureId = None /\ WGoto("setAlive")
       \/ WExit
    /\ UNCHANGED <<ctl, alive, chans, cvars, pvars, mpc, env>>

\* publish_writer_ready: alive is set before the rendezvous on ready_tx.
WriterSetAlive ==
    /\ wpc = "setAlive"
    /\ alive' = TRUE
    /\ WGoto("sendReady")
    /\ UNCHANGED <<ctl, chans, cvars, pvars, mpc, env>>

WriterReady ==
    /\ wpc = "sendReady"
    /\ \/ mpc = "starting" /\ mpc' = "running" /\ WGoto("idle") /\ UNCHANGED alive
       \/ mpc # "starting" /\ alive' = FALSE /\ WExit /\ UNCHANGED mpc
    /\ UNCHANGED <<ctl, chans, cvars, pvars, env>>

WriterReceive ==
    /\ wpc = "idle" /\ Outside(Writer) /\ queue # <<>>
    /\ queue' = Tail(queue)
    /\ IF Head(queue) = Shutdown
       THEN WExit
       ELSE wcmd' = Head(queue) /\ wpc' = "check" /\ UNCHANGED <<wresult, done>>
    /\ UNCHANGED <<ctl, alive, connected, reply, completions, cvars, pvars, mpc, env>>

WriterCheck ==
    /\ wpc = "check" /\ GateFree
    /\ IF stopRequested \/ failureId # None
       THEN WExit
       ELSE WGoto(IF wcmd = Fast THEN "fast" ELSE "first")
    /\ UNCHANGED <<ctl, alive, chans, cvars, pvars, mpc, env>>

\* authorize_writer_mutation_start
WriterFast ==
    /\ wpc = "fast" /\ GateFree
    /\ IF ~session \/ stopRequested \/ failureId # None
       THEN WExit
       ELSE WGoto("mutate")
    /\ UNCHANGED <<ctl, alive, chans, cvars, pvars, mpc, env>>

\* ensure_active before the plan ("first"), authorize_mutation_start before
\* each mutation of it ("plan"), ensure_active after it ("final").
WriterActive ==
    /\ wpc \in {"first", "plan", "final"} /\ Outside(Writer)
    /\ EnsureActive(Writer, wcmd)
    /\ \/ /\ Active(wcmd) # "ok"
          /\ wpc = "plan" /\ ErrorKind(wcmd) = "cancelled"
          /\ wpc' = "cleanup" /\ wresult' = "cancelled" /\ UNCHANGED <<wcmd, done>>
       \/ /\ Active(wcmd) # "ok"
          /\ ~(wpc = "plan" /\ ErrorKind(wcmd) = "cancelled")
          /\ WFail(ErrorKind(wcmd))
       \/ Active(wcmd) = "ok" /\ wpc = "first" /\ WGoto("plan")
       \/ Active(wcmd) = "ok" /\ wpc = "plan" /\ done < PlanLen /\ WGoto("mutate")
       \/ Active(wcmd) = "ok" /\ wpc = "plan" /\ done = PlanLen /\ WGoto("cleanup")
       \/ Active(wcmd) = "ok" /\ wpc = "final" /\ WFail("ok")
    /\ UNCHANGED <<alive, chans, cvars, pvars, mpc, env>>

\* Restoring a temporarily released modifier is a key press too, and needs
\* authorize_cleanup_mutation_start; there may be none to restore.
WriterCleanup ==
    /\ wpc = "cleanup" /\ Outside(Writer)
    /\ \/ /\ WGoto(IF wresult = "ok" THEN "final" ELSE "publish")
          /\ UNCHANGED ctl
       \/ /\ GateFree
          /\ IF CleanupActive(wcmd) = "timedOut" /\ Markable(wcmd)
             THEN MarkTimedOut(Writer, wcmd)
             ELSE UNCHANGED ctl
          /\ IF CleanupActive(wcmd) = "ok" THEN WGoto("restore") ELSE WFail("err")
    /\ UNCHANGED <<alive, chans, cvars, pvars, mpc, env>>

\* The device write happens outside the gate; it may fail or panic.
WriterMutate ==
    /\ wpc \in {"mutate", "restore"} /\ Outside(Writer)
    /\ \/ WExit
       \/ wcmd \in Txns /\ WFail("err")
       \/ /\ wpc = "mutate" /\ wcmd \in Txns
          /\ wpc' = "plan" /\ done' = done + 1 /\ UNCHANGED <<wcmd, wresult>>
       \/ /\ wpc = "mutate" /\ wcmd = Fast
          /\ wpc' = "idle" /\ wcmd' = None /\ wresult' = "ok" /\ done' = 0
       \/ wpc = "restore" /\ WGoto("cleanup")
    /\ UNCHANGED <<ctl, alive, chans, cvars, pvars, mpc, env>>

\* What publish_completed_with, publish_soft_cancelled_with and
\* publish_failed_with require of the soft-cancel flag.
CancelFlagAllows(t) ==
    \/ wresult = "ok" /\ ~softCancel[t]
    \/ wresult = "cancelled" /\ softCancel[t]
    \/ wresult = "err" /\ (t \in Manual \/ ~softCancel[t])

Undecided(t) == ~stopRequested /\ failureId = None /\ state[t] = "Pending"

\* The reply is sent while the gate is held; the receiver may be gone.
WriterPublish ==
    /\ wpc = "publish" /\ Outside(Writer) /\ GateFree
    /\ LET t == wcmd
       IN \/ /\ Undecided(t) /\ ~deadlinePassed[t] /\ CancelFlagAllows(t)
             /\ IF t \in Sync /\ cpc[t] = "done"
                THEN WExit /\ UNCHANGED <<ctl, chans>>
                ELSE /\ gate' = Writer
                     /\ UNCHANGED <<state, softCancel, failureId,
                                    stopRequested, marking>>
                     /\ reply' = [reply EXCEPT ![t] = wresult]
                     /\ completions' = IF t \in Manual
                                       THEN Append(completions, t)
                                       ELSE completions
                     /\ UNCHANGED <<queue, connected>>
                     /\ WGoto("cas")
          \/ /\ Undecided(t) /\ ~deadlinePassed[t] /\ ~CancelFlagAllows(t)
             /\ IF t \in Manual /\ wresult = "ok"
                THEN WFail("cancelled")
                ELSE WExit
             /\ UNCHANGED <<ctl, chans>>
          \/ /\ Undecided(t) /\ deadlinePassed[t]
             /\ MarkTimedOut(Writer, t) /\ WExit /\ UNCHANGED chans
          \/ ~Undecided(t) /\ WExit /\ UNCHANGED <<ctl, chans>>
    /\ UNCHANGED <<alive, cvars, pvars, mpc, env>>

\* The compare-exchange to Completed; a failed transaction ends the writer.
WriterCas ==
    /\ wpc = "cas"
    /\ state' = [state EXCEPT ![wcmd] = "Completed"]
    /\ gate' = None
    /\ wcmd' = None /\ wresult' = "ok" /\ done' = 0
    /\ wpc' = IF wresult = "err" THEN "exiting" ELSE "idle"
    /\ UNCHANGED <<softCancel, failureId, stopRequested, marking, alive, chans,
                   cvars, pvars, mpc, env>>

\* The loop returns: the device and both channel ends are dropped, and only
\* then is alive cleared and the terminal report sent.
WriterDrop ==
    /\ wpc = "exiting" /\ Outside(Writer)
    /\ queue' = <<>> /\ connected' = FALSE
    /\ WGoto("dropped")
    /\ UNCHANGED <<ctl, alive, reply, completions, cvars, pvars, mpc, env>>

WriterFinish ==
    /\ wpc = "dropped"
    /\ alive' = FALSE
    /\ WGoto("exited")
    /\ UNCHANGED <<ctl, chans, cvars, pvars, mpc, env>>

WriterStep ==
    \/ WriterStart \/ WriterSetAlive \/ WriterReady \/ WriterReceive
    \/ WriterCheck \/ WriterFast \/ WriterActive \/ WriterCleanup
    \/ WriterMutate \/ WriterPublish \/ WriterCas \/ WriterDrop \/ WriterFinish

-----------------------------------------------------------------------------
(* Starting and stopping the writer. *)

\* finish_startup: no readiness in time, or the writer is gone; ready_rx is
\* dropped before the writer is stopped.
StartupFails ==
    /\ mpc = "starting"
    /\ mpc' = "failedStart"
    /\ UNCHANGED <<ctl, alive, chans, wvars, cvars, pvars, env>>

RequestStop ==
    /\ mpc \in {"running", "failedStart"} /\ GateFree
    /\ stopRequested' = TRUE
    /\ alive' = FALSE
    /\ mpc' = "shutdown"
    /\ UNCHANGED <<state, softCancel, failureId, gate, marking, chans, wvars,
                   cvars, pvars, env>>

\* Mutant of SendShutdown: the stop flag alone, which a writer that waits for
\* a command does not see.
SendNoShutdown ==
    /\ mpc = "shutdown"
    /\ mpc' = "joining"
    /\ UNCHANGED <<ctl, alive, chans, wvars, cvars, pvars, env>>

\* send_shutdown_command_with_timeout: a full queue may end the attempt.
SendShutdown ==
    /\ mpc = "shutdown"
    /\ IF connected /\ Len(queue) < Capacity
       THEN queue' = Append(queue, Shutdown)
       ELSE UNCHANGED queue
    /\ mpc' = "joining"
    /\ UNCHANGED <<ctl, alive, connected, reply, completions, wvars, cvars,
                   pvars, env>>

JoinWriter ==
    /\ mpc = "joining"
    /\ wpc = "exited"
    /\ mpc' = "stopped"
    /\ UNCHANGED <<ctl, alive, chans, wvars, cvars, pvars, env>>

JoinTimesOut ==
    /\ mpc = "joining"
    /\ wpc # "exited"
    /\ mpc' = "unresponsive"
    /\ UNCHANGED <<ctl, alive, chans, wvars, cvars, pvars, env>>

MainStep == RequestStop \/ SendShutdown \/ JoinWriter \/ JoinTimesOut

(* The environment: clocks, logind, the input worker, the guardian. *)

DeadlinePasses(t) ==
    /\ cpc[t] # "idle" /\ ~deadlinePassed[t]
    /\ deadlinePassed' = [deadlinePassed EXCEPT ![t] = TRUE]
    /\ UNCHANGED <<ctl, alive, chans, wvars, cvars, pvars, mpc,
                   session, inputLost, guardianFailed>>

SessionChanges ==
    /\ "session" \in Faults
    /\ session' = ~session
    /\ UNCHANGED <<ctl, alive, chans, wvars, cvars, pvars, mpc,
                   deadlinePassed, inputLost, guardianFailed>>

InputWorkerLost ==
    /\ "inputWorker" \in Faults /\ ~inputLost
    /\ inputLost' = TRUE
    /\ UNCHANGED <<ctl, alive, chans, wvars, cvars, pvars, mpc,
                   deadlinePassed, session, guardianFailed>>

GuardianFails ==
    /\ "guardian" \in Faults /\ ~guardianFailed
    /\ guardianFailed' = TRUE
    /\ UNCHANGED <<ctl, alive, chans, wvars, cvars, pvars, mpc,
                   deadlinePassed, session, inputLost>>

Next ==
    \/ FinishMark
    \/ \E t \in Sync : ClientStep(t)
    \/ \E t \in Manual : BeginManual(t) \/ RequestSoftCancel(t) \/ PollStep(t)
    \/ SendFast
    \/ WriterStep
    \/ StartupFails \/ MainStep
    \/ \E t \in Txns : DeadlinePasses(t)
    \/ SessionChanges \/ InputWorkerLost \/ GuardianFails

Spec == Init /\ [][Next]_vars

-----------------------------------------------------------------------------
(* Safety. *)

\* What a caller is told when the writer it used is finished for good.
Fatal == {"timedOut", "disconnected", "err", "inputLost"}

MutationAuthorised ==
    /\ wpc \notin {"mutate", "restore"}
    /\ wpc' \in {"mutate", "restore"}

\* Fail-stop: once any caller of the writer has been told that a transaction
\* timed out, failed or was given up, or that the writer is gone, no
\* authorize_*_mutation_start ever succeeds again, whatever is still queued or
\* half done; nor does the writer touch the keyboard for a synchronous
\* transaction whose caller has returned.
NoMutationAfterFailure ==
    MutationAuthorised =>
        /\ \A t \in Txns : result[t] \notin Fatal
        /\ wcmd \in Sync => cpc[wcmd] # "done"

FailStop == [][NoMutationAfterFailure]_vars

\* The caller and the writer agree on how a transaction ended: a caller told
\* of a timeout or of the loss of the input worker is never contradicted by a
\* reply the writer published, and one told of success or of its own
\* cancellation got it from a transaction that is Completed.
Agreement ==
    \A t \in Txns :
        /\ result[t] \in {"timedOut", "inputLost"} =>
               reply[t] = "none" /\ state[t] # "Completed"
        /\ result[t] \in {"ok", "cancelled"} =>
               reply[t] = result[t] /\ state[t] = "Completed"

\* A manual correction whose cancellation was accepted (request_soft_cancel
\* returned Requested) is never reported as Succeeded, and none is reported
\* as Cancelled that nobody asked to cancel.
CancelHonoured ==
    \A t \in Txns :
        /\ softCancel[t] => reply[t] # "ok"
        /\ reply[t] = "cancelled" => softCancel[t]

\* Whoever sees Completed finds the reply: wait_for_reply and the poll take
\* it with a non-blocking receive that must not come too early, and the
\* completion that a poll drains is the one it is waiting for.
NoLostCompletion ==
    \A t \in Txns :
        /\ result[t] # "mismatch"
        /\ state[t] = "Completed" /\ cpc[t] # "done" =>
              IF t \in Sync THEN reply[t] # "none"
              ELSE held[t] \/ (completions # <<>> /\ Head(completions) = t)

\* A transaction has one outcome, and caller and writer both know it: neither
\* a passed deadline, nor a soft cancellation, nor a completion taken too early
\* or too late makes one of them believe something else (WriterTransactionControl,
\* publish_completed_with, poll_manual_current_word_completion).
OneVerdict == Agreement /\ CancelHonoured /\ NoLostCompletion

-----------------------------------------------------------------------------
(* Liveness. *)

\* The callers' threads run and time passes.  A holder of the gate leaves it.
\* Nothing is assumed of the writer: a device write may hang for ever.
ClientFairness ==
    /\ WF_vars(FinishMark) /\ WF_vars(WriterCas)
    /\ \A t \in Sync : WF_vars(ClientStep(t))
    /\ \A t \in Manual : WF_vars(PollStep(t))
    /\ \A t \in Txns : WF_vars(DeadlinePasses(t))

\* A shutdown once begun goes on, because each of its waits has a timeout.
MainFairness == WF_vars(mpc # "running" /\ MainStep)

LiveSpec == Spec /\ ClientFairness /\ MainFairness

\* No caller waits for ever, even if the writer hangs in a device write: a
\* submitted transaction is answered, or times out, and its call returns; and
\* run_keyboard_shutdown_sequence ends, by joining the writer or by reporting
\* it unresponsive.
CallerReturns ==
    /\ \A t \in Txns : cpc[t] \notin {"idle", "done"} ~> cpc[t] = "done"
    /\ mpc = "shutdown" ~> mpc \in {"stopped", "unresponsive"}

\* A stop request reaches a writer that is not hung (its device writes return),
\* even when the queue was too full for the Shutdown command or startup failed
\* half-way.
StopReachesWriter ==
    WF_vars(WriterStep) => (stopRequested ~> wpc = "exited")
=============================================================================
