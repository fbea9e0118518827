---------------------- MODULE WriterTransactionProofs ----------------------
(***************************************************************************)
(* Proofs about WriterTransaction, for any number of transactions, any     *)
(* queue capacity, any plan length and any combination of faults, and      *)
(* about the clipboard transaction of SelectedText, for any texts and any  *)
(* number of jobs, copies and faults, with the conversion of a text and    *)
(* the correction of a typed word, which MC_SelectedText puts beside it.   *)
(***************************************************************************)
EXTENDS WriterTransaction, MC_SelectedText, FiniteSetTheorems, WellFoundedInduction, TLAPS

-----------------------------------------------------------------------------
(* The inductive invariant, by parts. *)

TxnPcs == {"first", "plan", "cleanup", "restore", "final", "publish", "cas"}
OverPcs == {"exiting", "dropped", "exited"}
UnsentPcs == {"idle", "send", "trySend", "resend", "retrySend", "saturate"}

\* What the writer holds at each point of its loop.
WriterInv ==
    /\ wpc \in TxnPcs => wcmd \in Txns
    /\ wpc = "fast" => wcmd = Fast
    /\ wpc \in {"check", "mutate"} => wcmd \in Txns \cup {Fast}
    /\ wpc \in {"start", "setAlive", "sendReady", "idle"} \cup OverPcs => wcmd = None
    /\ wpc = "mutate" /\ wcmd \in Txns => done < PlanLen
    /\ wpc \notin {"cleanup", "restore", "publish", "cas"} => wresult = "ok"

\* Somebody holds the gate exactly while a two-write section is half done.
GateInv ==
    /\ marking # None => gate # None
    /\ gate # None => marking # None \/ wpc = "cas"
    /\ wpc = "cas" => gate = Writer /\ marking = None /\ ~stopRequested
                      /\ failureId = None /\ state[wcmd] = "Pending"
                      /\ reply[wcmd] = wresult

\* The writer is finished, or has become unable to authorise a mutation.
Doomed ==
    \/ stopRequested
    \/ failureId # None
    \/ marking # None
    \/ wpc \in OverPcs
    \/ wpc = "cas" /\ wresult = "err"

StartInv ==
    /\ mpc = "running" \/ (\E t \in Txns : cpc[t] # "idle") =>
          wpc \notin {"start", "setAlive", "sendReady"}
    /\ ~alive => wpc \in {"start", "setAlive"} \/ Doomed
    /\ ~connected => wpc \in {"dropped", "exited"}
    /\ disc => ~connected

Queued(t) == \E i \in DOMAIN queue : queue[i] = t

\* No transaction is queued twice.
QueueOnce ==
    \A i, j \in DOMAIN queue : queue[i] \in Txns /\ queue[i] = queue[j] => i = j

\* A transaction is in one place at a time, and undecided while it is there.
Place(t) ==
    /\ Queued(t) => wcmd # t /\ reply[t] = "none" /\ state[t] # "Completed"
    /\ wcmd = t => /\ state[t] # "Completed"
                   /\ wpc # "cas" => reply[t] = "none"
    /\ cpc[t] \in UnsentPcs => /\ ~Queued(t) /\ wcmd # t
                               /\ reply[t] = "none" /\ state[t] # "Completed"
    /\ t \in Sync /\ cpc[t] \in WaitPcs /\ state[t] = "Pending" =>
          Queued(t) \/ wcmd = t \/ Doomed

PlaceInv == QueueOnce /\ \A t \in Txns : Place(t)

\* The completion channel holds at most the completion of the pending manual
\* correction, and until that is published or again once it is held, nothing.
Completion(t) ==
    /\ cpc[t] \in {"idle", "done"} \cup PollPcs
    /\ cpc[t] \in PollPcs => pending = t
    /\ Queued(t) \/ wcmd = t => pending = t
    /\ cpc[t] \in PollPcs /\ reply[t] # "none" => held[t] \/ completions = <<t>>
    /\ held[t] => reply[t] # "none" /\ (pending = t => completions = <<>>)

CompletionInv ==
    /\ completions # <<>> =>
          pending # None /\ completions = <<pending>> /\ reply[pending] # "none"
    /\ \A t \in Manual : Completion(t)

TimedOutSomewhere == failureId # None \/ marking # None

\* What the poll found out before it looked at the state again.
PollInv ==
    /\ pollErr = "timedOut" => TimedOutSomewhere
    /\ pollErr = "disconnected" => Doomed
    /\ pollErr \notin {"inputLost", "mismatch"}

\* How the state, the reply and what the caller was told fit together.
Outcome(t) ==
    /\ state[t] = "TimedOut" => TimedOutSomewhere /\ reply[t] = "none"
    /\ state[t] = "Completed" => reply[t] # "none"
    /\ state[t] = "Pending" /\ reply[t] # "none" => wpc = "cas" /\ wcmd = t
    /\ reply[t] = "err" => Doomed
    /\ softCancel[t] => reply[t] # "ok"
    /\ reply[t] = "cancelled" => softCancel[t]
    /\ held[t] => reply[t] # "none"
    /\ t \in Sync => ~softCancel[t]

Told(t) ==
    /\ cpc[t] # "done" => result[t] = "none"
    /\ result[t] \in Fatal => Doomed
    /\ result[t] = "timedOut" =>
          TimedOutSomewhere /\ reply[t] = "none" /\ state[t] # "Completed"
    /\ result[t] = "inputLost" =>
          stopRequested /\ reply[t] = "none" /\ state[t] # "Completed"
    /\ result[t] \in {"ok", "cancelled"} => reply[t] = result[t] /\ state[t] = "Completed"
    /\ result[t] # "mismatch"
    /\ t \in Sync /\ cpc[t] = "done" /\ (Queued(t) \/ wcmd = t) => result[t] \in Fatal

OutcomeInv == \A t \in Txns : Outcome(t)
ToldInv == \A t \in Txns : Told(t)

Inv == /\ TypeOK /\ WriterInv /\ GateInv /\ StartInv /\ PlaceInv
       /\ CompletionInv /\ PollInv /\ OutcomeInv /\ ToldInv

-----------------------------------------------------------------------------
(* Type correctness. *)

USE ConstantsAssumption
USE DEF Txns, Outside, GateFree, MarkTimedOut, Goto, Return, WGoto, WExit, WFail,
        ctl, chans, wvars, cvars, pvars, env

\* A writer of the right type that holds what its place in the loop requires.
WType == WriterType /\ WriterInv

TInv == CtlType /\ ChanType /\ WType /\ ClientType /\ OtherType

LEMMA TInvInit == Init => TInv
<1> SUFFICES ASSUME Init PROVE TInv
  OBVIOUS
<1>1. CtlType
  BY DEF Init, CtlType, TxnState
<1>2. ChanType
  BY DEF Init, ChanType
<1>3. WriterType
  BY DEF Init, WriterType, WriterPcs, Replies
<1>4. WriterInv
  BY DEF Init, WriterInv, TxnPcs, OverPcs
<1>5. ClientType
  BY DEF Init, ClientType, ClientPcs, Errors
<1>6. OtherType
  BY DEF Init, OtherType, MainPcs
<1> QED
  BY <1>1, <1>2, <1>3, <1>4, <1>5, <1>6 DEF TInv, WType

LEMMA CtlSame == CtlType /\ UNCHANGED ctl => CtlType'
BY DEF CtlType

LEMMA ChanSame == ChanType /\ UNCHANGED chans => ChanType'
BY DEF ChanType

LEMMA WriterSame == WType /\ UNCHANGED wvars => WType'
BY DEF WType, WriterType, WriterInv

LEMMA ClientSame == ClientType /\ UNCHANGED <<cvars, pvars>> => ClientType'
BY DEF ClientType

LEMMA OtherSame == OtherType /\ UNCHANGED <<alive, mpc, env>> => OtherType'
BY DEF OtherType

LEMMA AppendType ==
    ASSUME NEW q \in Seq(Txns \cup {Fast, Shutdown}), Len(q) < Capacity,
           NEW c \in Txns \cup {Fast, Shutdown}
    PROVE  /\ Append(q, c) \in Seq(Txns \cup {Fast, Shutdown})
           /\ Len(Append(q, c)) <= Capacity
OBVIOUS

LEMMA TailType ==
    ASSUME ChanType, completions # <<>>
    PROVE  Head(completions) \in Manual /\ Tail(completions) \in Seq(Manual)
BY DEF ChanType

LEMMA HeadType ==
    ASSUME ChanType, queue # <<>>
    PROVE  /\ Head(queue) \in Txns \cup {Fast, Shutdown}
           /\ Tail(queue) \in Seq(Txns \cup {Fast, Shutdown})
           /\ Len(Tail(queue)) = Len(queue) - 1
BY DEF ChanType

LEMMA TInvNext == TInv /\ [Next]_vars => TInv'
<1> SUFFICES ASSUME TInv, [Next]_vars PROVE TInv'
  OBVIOUS
<1> USE DEF TInv
<1>1. CASE FinishMark
  <2>1. CtlType'
    BY <1>1 DEF FinishMark, CtlType, TxnState
  <2> QED
    BY <1>1, <2>1,
       ChanSame, WriterSame, ClientSame, OtherSame
       DEF FinishMark
<1>2. ASSUME NEW t \in Sync, Start(t) PROVE TInv'
  <2>1. ClientType'
    BY <1>2 DEF Start, HealthError, ClientType, ClientPcs, WaitPcs, PollPcs, Errors, Replies
  <2> QED
    BY <1>2, <2>1,
       CtlSame, ChanSame, WriterSame, OtherSame
       DEF Start
<1>3. ASSUME NEW t \in Sync, SendCheck(t) PROVE TInv'
  <2>1. CtlType'
    BY <1>3 DEF SendCheck, EnsureActive, Active, CtlType, TxnState
  <2>2. ClientType'
    BY <1>3 DEF SendCheck, EnsureActive, Active, ClientType, ClientPcs, WaitPcs, PollPcs, Errors, Replies
  <2> QED
    BY <1>3, <2>1, <2>2,
       ChanSame, WriterSame, OtherSame
       DEF SendCheck
<1>4. ASSUME NEW t \in Sync, TrySend(t) PROVE TInv'
  <2>1. ChanType'
    <3>1. CASE UNCHANGED queue
      BY <1>4, <3>1 DEF TrySend, ChanType
    <3>2. CASE Len(queue) < Capacity /\ queue' = Append(queue, t)
      BY <1>4, <3>2, AppendType DEF TrySend, ChanType
    <3> QED
      BY <1>4, <3>1, <3>2 DEF TrySend
  <2>2. ClientType'
    BY <1>4 DEF TrySend, HealthError, ClientType, ClientPcs, WaitPcs, PollPcs, Errors, Replies
  <2> QED
    BY <1>4, <2>1, <2>2,
       CtlSame, WriterSame, OtherSame
       DEF TrySend
<1>5. ASSUME NEW t \in Sync, ReadState(t) PROVE TInv'
  <2>1. ClientType'
    <3>1. reply[t] \in Replies \cup {"none"}
      BY DEF ChanType
    <3> QED
      BY <1>5, <3>1 DEF ReadState, ClientType, ClientPcs, WaitPcs, Errors, Replies
  <2> QED
    BY <1>5, <2>1,
       CtlSame, ChanSame, WriterSame, OtherSame
       DEF ReadState
<1>6. ASSUME NEW t \in Sync, ReadStop(t) PROVE TInv'
  <2>1. ClientType'
    BY <1>6 DEF ReadStop, ClientType, ClientPcs, WaitPcs, PollPcs, Errors, Replies
  <2> QED
    BY <1>6, <2>1,
       CtlSame, ChanSame, WriterSame, OtherSame
       DEF ReadStop
<1>7. ASSUME NEW t \in Sync, ReadFailure(t) PROVE TInv'
  <2>1. ClientType'
    BY <1>7 DEF ReadFailure, ClientType, ClientPcs, WaitPcs, PollPcs, Errors, Replies
  <2> QED
    BY <1>7, <2>1,
       CtlSame, ChanSame, WriterSame, OtherSame
       DEF ReadFailure
<1>8. ASSUME NEW t \in Sync, Mark(t) PROVE TInv'
  <2>1. CtlType'
    BY <1>8 DEF Mark, CtlType, TxnState
  <2>2. ClientType'
    BY <1>8 DEF Mark, ClientType, ClientPcs, WaitPcs, PollPcs, Errors, Replies
  <2> QED
    BY <1>8, <2>1, <2>2,
       ChanSame, WriterSame, OtherSame
       DEF Mark
<1>9. ASSUME NEW t \in Sync, Recv(t) PROVE TInv'
  <2>1. ClientType'
    BY <1>9, ZenonT(30) DEF Recv, ClientType, ClientPcs, WaitPcs, PollPcs, Errors, Replies
  <2> QED
    BY <1>9, <2>1,
       CtlSame, ChanSame, WriterSame, OtherSame
       DEF Recv
<1>10. ASSUME NEW t \in Sync, CheckInputHealth(t) PROVE TInv'
  <2>1. ClientType'
    BY <1>10 DEF CheckInputHealth, ClientType, ClientPcs, WaitPcs, PollPcs, Errors, Replies
  <2> QED
    BY <1>10, <2>1,
       CtlSame, ChanSame, WriterSame, OtherSame
       DEF CheckInputHealth
<1>11. ASSUME NEW t \in Sync, StopForInputLoss(t) PROVE TInv'
  <2>1. CtlType'
    BY <1>11 DEF StopForInputLoss, CtlType, TxnState
  <2>2. ClientType'
    BY <1>11 DEF StopForInputLoss, ClientType, ClientPcs, WaitPcs, PollPcs, Errors, Replies
  <2> QED
    BY <1>11, <2>1, <2>2,
       ChanSame, WriterSame, OtherSame
       DEF StopForInputLoss
<1>12. ASSUME NEW t \in Manual, BeginManual(t) PROVE TInv'
  <2>1. ChanType'
    BY <1>12 DEF BeginManual, HealthError, ChanType, Replies
  <2>2. ClientType'
    BY <1>12 DEF BeginManual, HealthError, ClientType, ClientPcs, WaitPcs, PollPcs, Errors, Replies
  <2> QED
    BY <1>12, <2>1, <2>2,
       CtlSame, WriterSame, OtherSame
       DEF BeginManual
<1>13. ASSUME NEW t \in Manual, RequestSoftCancel(t) PROVE TInv'
  <2>1. CtlType'
    BY <1>13 DEF RequestSoftCancel, CtlType, TxnState
  <2> QED
    BY <1>13, <2>1,
       ChanSame, WriterSame, ClientSame, OtherSame
       DEF RequestSoftCancel
<1>14. ASSUME NEW t \in Manual, PollReceive(t) PROVE TInv'
  <2>1. ChanType'
    <3>1. completions' \in Seq(Manual)
      BY <1>14, TailType DEF PollReceive, ChanType
    <3> QED
      BY <1>14, <3>1 DEF PollReceive, ChanType
  <2>2. ClientType'
    BY <1>14, ZenonT(30) DEF PollReceive, ClientType, ClientPcs, WaitPcs, PollPcs, Errors, Replies
  <2> QED
    BY <1>14, <2>1, <2>2,
       CtlSame, WriterSame, OtherSame
       DEF PollReceive
<1>15. ASSUME NEW t \in Manual, PollState(t) PROVE TInv'
  <2>1. ChanType'
    <3>1. completions' = completions \/ (completions # <<>> /\ completions' = Tail(completions))
      BY <1>15 DEF PollState
    <3>2. completions' \in Seq(Manual)
      BY <3>1, TailType DEF ChanType
    <3> QED
      BY <1>15, <3>2 DEF PollState, ChanType
  <2>2. ClientType'
    <3>1. reply[t] \in Replies \cup {"none"}
      BY DEF ChanType
    <3>2. held' \in [Txns -> BOOLEAN] /\ pending' \in Manual \cup {None}
      BY <1>15 DEF PollState, ClientType
    <3>3. cpc' \in [Txns -> ClientPcs]
      BY <1>15 DEF PollState, ClientType, ClientPcs, PollPcs
    <3>4. result' \in [Txns -> Errors \cup Replies \cup {"none"}]
      BY <1>15, <3>1 DEF PollState, ClientType, Errors, Replies
    <3> QED
      BY <1>15, <3>2, <3>3, <3>4 DEF PollState, ClientType
  <2> QED
    BY <1>15, <2>1, <2>2,
       CtlSame, WriterSame, OtherSame
       DEF PollState
<1>16. ASSUME NEW t \in Manual, PollActive(t) PROVE TInv'
  <2>1. CtlType'
    BY <1>16 DEF PollActive, EnsureActive, Active, CtlType, TxnState
  <2>2. ClientType'
    BY <1>16 DEF PollActive, EnsureActive, Active, ClientType, ClientPcs, WaitPcs, PollPcs, Errors, Replies
  <2> QED
    BY <1>16, <2>1, <2>2,
       ChanSame, WriterSame, OtherSame
       DEF PollActive
<1>17. ASSUME NEW t \in Manual, PollRecheck(t) PROVE TInv'
  <2>1. ClientType'
    BY <1>17 DEF PollRecheck, ClientType, ClientPcs, WaitPcs, PollPcs, Errors, Replies
  <2> QED
    BY <1>17, <2>1,
       CtlSame, ChanSame, WriterSame, OtherSame
       DEF PollRecheck
<1>18. ASSUME NEW t \in Manual, PollHealth(t) PROVE TInv'
  <2>1. ClientType'
    BY <1>18 DEF PollHealth, HealthError, ClientType, ClientPcs, WaitPcs, PollPcs, Errors, Replies
  <2> QED
    BY <1>18, <2>1,
       CtlSame, ChanSame, WriterSame, OtherSame
       DEF PollHealth
<1>19. ASSUME NEW t \in Manual, PollFinal(t) PROVE TInv'
  <2>1. ClientType'
    BY <1>19 DEF PollFinal, ClientType, ClientPcs, WaitPcs, PollPcs, Errors, Replies
  <2> QED
    BY <1>19, <2>1,
       CtlSame, ChanSame, WriterSame, OtherSame
       DEF PollFinal
<1>20. CASE SendFast
  <2>1. ChanType'
    BY <1>20 DEF SendFast, ChanType, Replies
  <2> QED
    BY <1>20, <2>1,
       CtlSame, WriterSame, ClientSame, OtherSame
       DEF SendFast
<1>21. CASE WriterStart
  <2>1. WType'
    BY <1>21 DEF WriterStart, WType, WriterType, WriterInv, WriterPcs, Replies, TxnPcs, OverPcs
  <2> QED
    BY <1>21, <2>1,
       CtlSame, ChanSame, ClientSame, OtherSame
       DEF WriterStart
<1>22. CASE WriterSetAlive
  <2>1. WType'
    BY <1>22 DEF WriterSetAlive, WType, WriterType, WriterInv, WriterPcs, Replies, TxnPcs, OverPcs
  <2>2. OtherType'
    BY <1>22 DEF WriterSetAlive, OtherType, MainPcs
  <2> QED
    BY <1>22, <2>1, <2>2,
       CtlSame, ChanSame, ClientSame
       DEF WriterSetAlive
<1>23. CASE WriterReady
  <2>1. WType'
    BY <1>23 DEF WriterReady, WType, WriterType, WriterInv, WriterPcs, Replies, TxnPcs, OverPcs
  <2>2. OtherType'
    BY <1>23 DEF WriterReady, OtherType, MainPcs
  <2> QED
    BY <1>23, <2>1, <2>2,
       CtlSame, ChanSame, ClientSame
       DEF WriterReady
<1>24. CASE WriterReceive
  <2>1. ChanType'
    BY <1>24 DEF WriterReceive, ChanType, Replies
  <2>2. WType'
    <3>1. Head(queue) \in Txns \cup {Fast, Shutdown}
      BY <1>24, HeadType DEF WriterReceive
    <3>2. CASE Head(queue) = Shutdown
      BY <1>24, <3>2 DEF WriterReceive, WType, WriterType, WriterInv, WriterPcs, Replies, TxnPcs, OverPcs
    <3>3. CASE Head(queue) # Shutdown
      BY <1>24, <3>1, <3>3 DEF WriterReceive, WType, WriterType, WriterInv, WriterPcs, Replies, TxnPcs, OverPcs
    <3> QED
      BY <3>2, <3>3
  <2> QED
    BY <1>24, <2>1, <2>2,
       CtlSame, ClientSame, OtherSame
       DEF WriterReceive
<1>25. CASE WriterCheck
  <2>1. WType'
    <3>1. CASE WExit
      BY <3>1 DEF WType, WriterType, WriterInv, WriterPcs, Replies, TxnPcs, OverPcs
    <3>2. CASE wcmd = Fast /\ WGoto("fast")
      BY <3>2 DEF WType, WriterType, WriterInv, WriterPcs, Replies, TxnPcs, OverPcs
    <3>3. CASE wcmd # Fast /\ WGoto("first")
      BY <1>25, <3>3 DEF WriterCheck, WType, WriterType, WriterInv, WriterPcs, Replies, TxnPcs, OverPcs
    <3> QED
      BY <1>25, <3>1, <3>2, <3>3 DEF WriterCheck
  <2> QED
    BY <1>25, <2>1,
       CtlSame, ChanSame, ClientSame, OtherSame
       DEF WriterCheck
<1>26. CASE WriterFast
  <2>1. WType'
    <3>1. CASE WExit
      BY <3>1 DEF WType, WriterType, WriterInv, WriterPcs, Replies, TxnPcs, OverPcs
    <3>2. CASE WGoto("mutate")
      BY <1>26, <3>2 DEF WriterFast, WType, WriterType, WriterInv, WriterPcs, Replies, TxnPcs, OverPcs
    <3> QED
      BY <1>26, <3>1, <3>2 DEF WriterFast
  <2> QED
    BY <1>26, <2>1,
       CtlSame, ChanSame, ClientSame, OtherSame
       DEF WriterFast
<1>27. CASE WriterActive
  <2>1. CtlType'
    <3>1. wcmd \in Txns
      BY <1>27 DEF WriterActive, WType, WriterInv, TxnPcs
    <3> QED
      BY <1>27, <3>1 DEF WriterActive, EnsureActive, CtlType, TxnState
  <2>2. WType'
    BY <1>27 DEF WriterActive, EnsureActive, Active, ErrorKind, WType, WriterType, WriterInv, WriterPcs, Replies, TxnPcs, OverPcs
  <2> QED
    BY <1>27, <2>1, <2>2,
       ChanSame, ClientSame, OtherSame
       DEF WriterActive
<1>28. CASE WriterCleanup
  <2>1. CtlType'
    <3>1. wcmd \in Txns
      BY <1>28 DEF WriterCleanup, WType, WriterInv, TxnPcs
    <3> QED
      BY <1>28, <3>1 DEF WriterCleanup, CtlType, TxnState
  <2>2. WType'
    BY <1>28 DEF WriterCleanup, CleanupActive, WType, WriterType, WriterInv, WriterPcs, Replies, TxnPcs, OverPcs
  <2> QED
    BY <1>28, <2>1, <2>2,
       ChanSame, ClientSame, OtherSame
       DEF WriterCleanup
<1>29. CASE WriterMutate
  <2>1. WType'
    BY <1>29 DEF WriterMutate, WType, WriterType, WriterInv, WriterPcs, Replies, TxnPcs, OverPcs
  <2> QED
    BY <1>29, <2>1,
       CtlSame, ChanSame, ClientSame, OtherSame
       DEF WriterMutate
<1>30. CASE WriterPublish
  <2>1. CtlType'
    <3>1. wcmd \in Txns
      BY <1>30 DEF WriterPublish, WType, WriterInv, TxnPcs
    <3>2. CASE UNCHANGED ctl
      BY <3>2, CtlSame
    <3>3. CASE gate' = Writer /\ UNCHANGED <<state, softCancel, failureId, stopRequested, marking>>
      BY <3>3 DEF CtlType
    <3>4. CASE MarkTimedOut(Writer, wcmd)
      BY <3>1, <3>4 DEF CtlType, TxnState
    <3> QED
      BY <1>30, <3>2, <3>3, <3>4 DEF WriterPublish
  <2>2. ChanType'
    <3>1. CASE UNCHANGED chans
      BY <3>1, ChanSame
    <3>2. CASE /\ reply' = [reply EXCEPT ![wcmd] = wresult]
               /\ completions' = IF wcmd \in Manual THEN Append(completions, wcmd)
                                 ELSE completions
               /\ UNCHANGED <<queue, connected>>
      <4>1. reply' \in [Txns -> Replies \cup {"none"}]
        BY <3>2 DEF ChanType, WType, WriterType
      <4>2. completions' \in Seq(Manual)
        BY <3>2 DEF ChanType
      <4> QED
        BY <3>2, <4>1, <4>2 DEF ChanType
    <3> QED
      BY <1>30, <3>1, <3>2 DEF WriterPublish
  <2>3. WType'
    BY <1>30 DEF WriterPublish, WType, WriterType, WriterInv, WriterPcs, Replies, TxnPcs, OverPcs
  <2> QED
    BY <1>30, <2>1, <2>2, <2>3,
       ClientSame, OtherSame
       DEF WriterPublish
<1>31. CASE WriterCas
  <2>1. CtlType'
    BY <1>31 DEF WriterCas, CtlType, TxnState
  <2>2. WType'
    BY <1>31 DEF WriterCas, WType, WriterType, WriterInv, WriterPcs, Replies, TxnPcs, OverPcs
  <2> QED
    BY <1>31, <2>1, <2>2,
       ChanSame, ClientSame, OtherSame
       DEF WriterCas
<1>32. CASE WriterDrop
  <2>1. ChanType'
    <3>1. queue' \in Seq(Txns \cup {Fast, Shutdown}) /\ Len(queue') <= Capacity
      BY <1>32 DEF WriterDrop
    <3> QED
      BY <1>32, <3>1 DEF WriterDrop, ChanType
  <2>2. WType'
    BY <1>32 DEF WriterDrop, WType, WriterType, WriterInv, WriterPcs, Replies, TxnPcs, OverPcs
  <2> QED
    BY <1>32, <2>1, <2>2,
       CtlSame, ClientSame, OtherSame
       DEF WriterDrop
<1>33. CASE WriterFinish
  <2>1. WType'
    BY <1>33 DEF WriterFinish, WType, WriterType, WriterInv, WriterPcs, Replies, TxnPcs, OverPcs
  <2>2. OtherType'
    BY <1>33 DEF WriterFinish, OtherType, MainPcs
  <2> QED
    BY <1>33, <2>1, <2>2,
       CtlSame, ChanSame, ClientSame
       DEF WriterFinish
<1>34. CASE StartupFails
  <2>1. OtherType'
    BY <1>34 DEF StartupFails, OtherType, MainPcs
  <2> QED
    BY <1>34, <2>1,
       CtlSame, ChanSame, WriterSame, ClientSame
       DEF StartupFails
<1>35. CASE RequestStop
  <2>1. CtlType'
    BY <1>35 DEF RequestStop, CtlType, TxnState
  <2>2. OtherType'
    BY <1>35 DEF RequestStop, OtherType, MainPcs
  <2> QED
    BY <1>35, <2>1, <2>2,
       ChanSame, WriterSame, ClientSame
       DEF RequestStop
<1>36. CASE SendShutdown
  <2>1. ChanType'
    BY <1>36, SMTT(30) DEF SendShutdown, ChanType, Replies
  <2>2. OtherType'
    BY <1>36 DEF SendShutdown, OtherType, MainPcs
  <2> QED
    BY <1>36, <2>1, <2>2,
       CtlSame, WriterSame, ClientSame
       DEF SendShutdown
<1>37. CASE JoinWriter
  <2>1. OtherType'
    BY <1>37 DEF JoinWriter, OtherType, MainPcs
  <2> QED
    BY <1>37, <2>1,
       CtlSame, ChanSame, WriterSame, ClientSame
       DEF JoinWriter
<1>38. CASE JoinTimesOut
  <2>1. OtherType'
    BY <1>38 DEF JoinTimesOut, OtherType, MainPcs
  <2> QED
    BY <1>38, <2>1,
       CtlSame, ChanSame, WriterSame, ClientSame
       DEF JoinTimesOut
<1>39. ASSUME NEW t \in Txns, DeadlinePasses(t) PROVE TInv'
  <2>1. OtherType'
    BY <1>39 DEF DeadlinePasses, OtherType, MainPcs
  <2> QED
    BY <1>39, <2>1,
       CtlSame, ChanSame, WriterSame, ClientSame
       DEF DeadlinePasses
<1>40. CASE SessionChanges
  <2>1. OtherType'
    BY <1>40 DEF SessionChanges, OtherType, MainPcs
  <2> QED
    BY <1>40, <2>1,
       CtlSame, ChanSame, WriterSame, ClientSame
       DEF SessionChanges
<1>41. CASE InputWorkerLost
  <2>1. OtherType'
    BY <1>41 DEF InputWorkerLost, OtherType, MainPcs
  <2> QED
    BY <1>41, <2>1,
       CtlSame, ChanSame, WriterSame, ClientSame
       DEF InputWorkerLost
<1>42. CASE GuardianFails
  <2>1. OtherType'
    BY <1>42 DEF GuardianFails, OtherType, MainPcs
  <2> QED
    BY <1>42, <2>1,
       CtlSame, ChanSame, WriterSame, ClientSame
       DEF GuardianFails
<1>43. CASE UNCHANGED vars
  BY <1>43, CtlSame, ChanSame, WriterSame, ClientSame, OtherSame DEF vars
<1> QED
  BY <1>1, <1>2, <1>3, <1>4, <1>5, <1>6, <1>7, <1>8, <1>9, <1>10, <1>11,
     <1>12, <1>13, <1>14, <1>15, <1>16, <1>17, <1>18, <1>19, <1>20, <1>21,
     <1>22, <1>23, <1>24, <1>25, <1>26, <1>27, <1>28, <1>29, <1>30, <1>31,
     <1>32, <1>33, <1>34, <1>35, <1>36, <1>37, <1>38, <1>39, <1>40, <1>41,
     <1>42, <1>43
     DEF Next, ClientStep, PollStep, WriterStep, MainStep

\* The writer never leaves its types: in particular the queue never holds
\* more than WRITER_QUEUE_CAPACITY commands and a plan is never overrun.
THEOREM TypeCorrect == Spec => []TypeOK
<1>1. TInv => TypeOK
  BY DEF TInv, WType, TypeOK
<1> QED
  BY TInvInit, TInvNext, <1>1, PTL DEF Spec
-----------------------------------------------------------------------------
(* The terminal gate. *)

\* The three things WriterPublish can do.
Delivers ==
    /\ Undecided(wcmd) /\ CancelFlagAllows(wcmd)
    /\ wcmd \in Sync => cpc[wcmd] # "done"
    /\ gate' = Writer
    /\ UNCHANGED <<state, softCancel, failureId, stopRequested, marking, queue,
                   connected, wcmd, wresult, done>>
    /\ reply' = [reply EXCEPT ![wcmd] = wresult]
    /\ completions' = IF wcmd \in Manual THEN Append(completions, wcmd)
                      ELSE completions
    /\ wpc' = "cas"

GivesUp == (WExit \/ WFail("cancelled")) /\ UNCHANGED <<ctl, chans>>

TimesOut ==
    Undecided(wcmd) /\ MarkTimedOut(Writer, wcmd) /\ WExit /\ UNCHANGED chans

LEMMA PublishCases ==
    ASSUME TInv, WriterPublish
    PROVE  /\ wpc = "publish" /\ gate = None /\ wcmd \in Txns
           /\ UNCHANGED <<alive, cvars, pvars, mpc, env>>
           /\ Delivers \/ GivesUp \/ TimesOut
<1>1. wpc = "publish" /\ gate = None /\ UNCHANGED <<alive, cvars, pvars, mpc, env>>
  BY DEF WriterPublish
<1>2. wcmd \in Txns
  BY <1>1 DEF TInv, WType, WriterInv, TxnPcs
<1>3. Delivers \/ GivesUp \/ TimesOut
  BY DEF WriterPublish, Delivers, GivesUp, TimesOut
<1> QED
  BY <1>1, <1>2, <1>3

LEMMA GateSame ==
    GateInv /\ UNCHANGED <<ctl, wvars, reply>> => GateInv'
BY DEF GateInv

LEMMA GateInvNext == TInv /\ GateInv /\ [Next]_vars => GateInv'
<1> SUFFICES ASSUME TInv, GateInv, [Next]_vars PROVE GateInv'
  OBVIOUS
<1> USE DEF TInv
<1>1. CASE FinishMark
  BY <1>1 DEF FinishMark, GateInv, CtlType, WType, WriterType, WriterInv, TxnPcs, OverPcs
<1>2. ASSUME NEW t \in Sync, Start(t) PROVE GateInv'
  BY <1>2, GateSame DEF Start
<1>3. ASSUME NEW t \in Sync, SendCheck(t) PROVE GateInv'
  BY <1>3 DEF SendCheck, EnsureActive, Active, Markable, GateInv, CtlType, WType, WriterType, WriterInv, TxnPcs, OverPcs
<1>4. ASSUME NEW t \in Sync, TrySend(t) PROVE GateInv'
  BY <1>4, GateSame DEF TrySend
<1>5. ASSUME NEW t \in Sync, ReadState(t) PROVE GateInv'
  BY <1>5, GateSame DEF ReadState
<1>6. ASSUME NEW t \in Sync, ReadStop(t) PROVE GateInv'
  BY <1>6, GateSame DEF ReadStop
<1>7. ASSUME NEW t \in Sync, ReadFailure(t) PROVE GateInv'
  BY <1>7, GateSame DEF ReadFailure
<1>8. ASSUME NEW t \in Sync, Mark(t) PROVE GateInv'
  BY <1>8 DEF Mark, Markable, GateInv, CtlType, WType, WriterType, WriterInv, TxnPcs, OverPcs
<1>9. ASSUME NEW t \in Sync, Recv(t) PROVE GateInv'
  BY <1>9, GateSame DEF Recv
<1>10. ASSUME NEW t \in Sync, CheckInputHealth(t) PROVE GateInv'
  BY <1>10, GateSame DEF CheckInputHealth
<1>11. ASSUME NEW t \in Sync, StopForInputLoss(t) PROVE GateInv'
  BY <1>11 DEF StopForInputLoss, GateInv, CtlType, WType, WriterType, WriterInv, TxnPcs, OverPcs
<1>12. ASSUME NEW t \in Manual, BeginManual(t) PROVE GateInv'
  BY <1>12, GateSame DEF BeginManual
<1>13. ASSUME NEW t \in Manual, RequestSoftCancel(t) PROVE GateInv'
  BY <1>13 DEF RequestSoftCancel, Markable, GateInv, CtlType, WType, WriterType, WriterInv, TxnPcs, OverPcs
<1>14. ASSUME NEW t \in Manual, PollReceive(t) PROVE GateInv'
  BY <1>14, GateSame DEF PollReceive
<1>15. ASSUME NEW t \in Manual, PollState(t) PROVE GateInv'
  BY <1>15, GateSame DEF PollState
<1>16. ASSUME NEW t \in Manual, PollActive(t) PROVE GateInv'
  BY <1>16 DEF PollActive, EnsureActive, Active, Markable, GateInv, CtlType, WType, WriterType, WriterInv, TxnPcs, OverPcs
<1>17. ASSUME NEW t \in Manual, PollRecheck(t) PROVE GateInv'
  BY <1>17, GateSame DEF PollRecheck
<1>18. ASSUME NEW t \in Manual, PollHealth(t) PROVE GateInv'
  BY <1>18, GateSame DEF PollHealth
<1>19. ASSUME NEW t \in Manual, PollFinal(t) PROVE GateInv'
  BY <1>19, GateSame DEF PollFinal
<1>20. CASE SendFast
  BY <1>20, GateSame DEF SendFast
<1>21. CASE WriterStart
  BY <1>21 DEF WriterStart, GateInv, CtlType, WType, WriterType, WriterInv, TxnPcs, OverPcs
<1>22. CASE WriterSetAlive
  BY <1>22 DEF WriterSetAlive, GateInv, CtlType, WType, WriterType, WriterInv, TxnPcs, OverPcs
<1>23. CASE WriterReady
  BY <1>23 DEF WriterReady, GateInv, CtlType, WType, WriterType, WriterInv, TxnPcs, OverPcs
<1>24. CASE WriterReceive
  BY <1>24 DEF WriterReceive, GateInv, CtlType, WType, WriterType, WriterInv, TxnPcs, OverPcs
<1>25. CASE WriterCheck
  BY <1>25 DEF WriterCheck, GateInv, CtlType, WType, WriterType, WriterInv, TxnPcs, OverPcs
<1>26. CASE WriterFast
  BY <1>26 DEF WriterFast, GateInv, CtlType, WType, WriterType, WriterInv, TxnPcs, OverPcs
<1>27. CASE WriterActive
  BY <1>27 DEF WriterActive, EnsureActive, Active, Markable, ErrorKind, GateInv, CtlType, WType, WriterType, WriterInv, TxnPcs, OverPcs
<1>28. CASE WriterCleanup
  BY <1>28 DEF WriterCleanup, CleanupActive, Markable, GateInv, CtlType, WType, WriterType, WriterInv, TxnPcs, OverPcs
<1>29. CASE WriterMutate
  BY <1>29 DEF WriterMutate, GateInv, CtlType, WType, WriterType, WriterInv, TxnPcs, OverPcs
<1>30. CASE WriterPublish
  <2>1. CASE Delivers
    BY <1>30, <2>1, PublishCases DEF Delivers, Undecided, GateInv, CtlType, ChanType, WType, WriterType, WriterInv, TxnPcs, OverPcs
  <2>2. CASE GivesUp
    BY <1>30, <2>2, PublishCases DEF GivesUp, GateInv
  <2>3. CASE TimesOut
    BY <1>30, <2>3, PublishCases DEF TimesOut, GateInv
  <2> QED
    BY <1>30, <2>1, <2>2, <2>3, PublishCases
<1>31. CASE WriterCas
  BY <1>31 DEF WriterCas, GateInv, CtlType, WType, WriterType, WriterInv, TxnPcs, OverPcs
<1>32. CASE WriterDrop
  BY <1>32 DEF WriterDrop, GateInv, CtlType, WType, WriterType, WriterInv, TxnPcs, OverPcs
<1>33. CASE WriterFinish
  BY <1>33 DEF WriterFinish, GateInv, CtlType, WType, WriterType, WriterInv, TxnPcs, OverPcs
<1>34. CASE StartupFails
  BY <1>34, GateSame DEF StartupFails
<1>35. CASE RequestStop
  BY <1>35 DEF RequestStop, GateInv, CtlType, WType, WriterType, WriterInv, TxnPcs, OverPcs
<1>36. CASE SendShutdown
  BY <1>36, GateSame DEF SendShutdown
<1>37. CASE JoinWriter
  BY <1>37, GateSame DEF JoinWriter
<1>38. CASE JoinTimesOut
  BY <1>38, GateSame DEF JoinTimesOut
<1>39. ASSUME NEW t \in Txns, DeadlinePasses(t) PROVE GateInv'
  BY <1>39, GateSame DEF DeadlinePasses
<1>40. CASE SessionChanges
  BY <1>40, GateSame DEF SessionChanges
<1>41. CASE InputWorkerLost
  BY <1>41, GateSame DEF InputWorkerLost
<1>42. CASE GuardianFails
  BY <1>42, GateSame DEF GuardianFails
<1>43. CASE UNCHANGED vars
  BY <1>43, GateSame DEF vars
<1> QED
  BY <1>1, <1>2, <1>3, <1>4, <1>5, <1>6, <1>7, <1>8, <1>9, <1>10, <1>11,
     <1>12, <1>13, <1>14, <1>15, <1>16, <1>17, <1>18, <1>19, <1>20, <1>21,
     <1>22, <1>23, <1>24, <1>25, <1>26, <1>27, <1>28, <1>29, <1>30, <1>31,
     <1>32, <1>33, <1>34, <1>35, <1>36, <1>37, <1>38, <1>39, <1>40, <1>41,
     <1>42, <1>43
     DEF Next, ClientStep, PollStep, WriterStep, MainStep


-----------------------------------------------------------------------------
(* A doomed writer stays doomed. *)

LEMMA DoomedSame == Doomed /\ UNCHANGED <<ctl, wvars>> => Doomed'
BY DEF Doomed

LEMMA DoomedStable == TInv /\ GateInv /\ Doomed /\ [Next]_vars => Doomed'
<1> SUFFICES ASSUME TInv, GateInv, Doomed, [Next]_vars PROVE Doomed'
  OBVIOUS
<1> USE DEF TInv
<1>1. CASE FinishMark
  BY <1>1 DEF FinishMark, Doomed, GateInv, WType, WriterInv, OverPcs, TxnPcs
<1>2. ASSUME NEW t \in Sync, Start(t) PROVE Doomed'
  BY <1>2, DoomedSame DEF Start
<1>3. ASSUME NEW t \in Sync, SendCheck(t) PROVE Doomed'
  BY <1>3 DEF SendCheck, EnsureActive, Active, Markable, Doomed, GateInv, WType, WriterInv, OverPcs, TxnPcs
<1>4. ASSUME NEW t \in Sync, TrySend(t) PROVE Doomed'
  BY <1>4, DoomedSame DEF TrySend
<1>5. ASSUME NEW t \in Sync, ReadState(t) PROVE Doomed'
  BY <1>5, DoomedSame DEF ReadState
<1>6. ASSUME NEW t \in Sync, ReadStop(t) PROVE Doomed'
  BY <1>6, DoomedSame DEF ReadStop
<1>7. ASSUME NEW t \in Sync, ReadFailure(t) PROVE Doomed'
  BY <1>7, DoomedSame DEF ReadFailure
<1>8. ASSUME NEW t \in Sync, Mark(t) PROVE Doomed'
  BY <1>8 DEF Mark, Markable, Doomed, GateInv, WType, WriterInv, OverPcs, TxnPcs
<1>9. ASSUME NEW t \in Sync, Recv(t) PROVE Doomed'
  BY <1>9, DoomedSame DEF Recv
<1>10. ASSUME NEW t \in Sync, CheckInputHealth(t) PROVE Doomed'
  BY <1>10, DoomedSame DEF CheckInputHealth
<1>11. ASSUME NEW t \in Sync, StopForInputLoss(t) PROVE Doomed'
  BY <1>11 DEF StopForInputLoss, Doomed, GateInv, WType, WriterInv, OverPcs, TxnPcs
<1>12. ASSUME NEW t \in Manual, BeginManual(t) PROVE Doomed'
  BY <1>12, DoomedSame DEF BeginManual
<1>13. ASSUME NEW t \in Manual, RequestSoftCancel(t) PROVE Doomed'
  BY <1>13 DEF RequestSoftCancel, Markable, Doomed, GateInv, WType, WriterInv, OverPcs, TxnPcs
<1>14. ASSUME NEW t \in Manual, PollReceive(t) PROVE Doomed'
  BY <1>14, DoomedSame DEF PollReceive
<1>15. ASSUME NEW t \in Manual, PollState(t) PROVE Doomed'
  BY <1>15, DoomedSame DEF PollState
<1>16. ASSUME NEW t \in Manual, PollActive(t) PROVE Doomed'
  BY <1>16 DEF PollActive, EnsureActive, Active, Markable, Doomed, GateInv, WType, WriterInv, OverPcs, TxnPcs
<1>17. ASSUME NEW t \in Manual, PollRecheck(t) PROVE Doomed'
  BY <1>17, DoomedSame DEF PollRecheck
<1>18. ASSUME NEW t \in Manual, PollHealth(t) PROVE Doomed'
  BY <1>18, DoomedSame DEF PollHealth
<1>19. ASSUME NEW t \in Manual, PollFinal(t) PROVE Doomed'
  BY <1>19, DoomedSame DEF PollFinal
<1>20. CASE SendFast
  BY <1>20, DoomedSame DEF SendFast
<1>21. CASE WriterStart
  BY <1>21 DEF WriterStart, Doomed, GateInv, WType, WriterInv, OverPcs, TxnPcs
<1>22. CASE WriterSetAlive
  BY <1>22 DEF WriterSetAlive, Doomed, GateInv, WType, WriterInv, OverPcs, TxnPcs
<1>23. CASE WriterReady
  BY <1>23 DEF WriterReady, Doomed, GateInv, WType, WriterInv, OverPcs, TxnPcs
<1>24. CASE WriterReceive
  BY <1>24 DEF WriterReceive, Doomed, GateInv, WType, WriterInv, OverPcs, TxnPcs
<1>25. CASE WriterCheck
  BY <1>25 DEF WriterCheck, Doomed, GateInv, WType, WriterInv, OverPcs, TxnPcs
<1>26. CASE WriterFast
  BY <1>26 DEF WriterFast, Doomed, GateInv, WType, WriterInv, OverPcs, TxnPcs
<1>27. CASE WriterActive
  BY <1>27 DEF WriterActive, EnsureActive, Active, Markable, ErrorKind, Doomed, GateInv, WType, WriterInv, OverPcs, TxnPcs
<1>28. CASE WriterCleanup
  BY <1>28 DEF WriterCleanup, CleanupActive, Markable, Doomed, GateInv, WType, WriterInv, OverPcs, TxnPcs
<1>29. CASE WriterMutate
  BY <1>29 DEF WriterMutate, Doomed, GateInv, WType, WriterInv, OverPcs, TxnPcs
<1>30. CASE WriterPublish
  BY <1>30, PublishCases DEF Delivers, GivesUp, TimesOut, Doomed, OverPcs, GateInv, Undecided
<1>31. CASE WriterCas
  BY <1>31 DEF WriterCas, Doomed, GateInv, WType, WriterInv, OverPcs, TxnPcs
<1>32. CASE WriterDrop
  BY <1>32 DEF WriterDrop, Doomed, GateInv, WType, WriterInv, OverPcs, TxnPcs
<1>33. CASE WriterFinish
  BY <1>33 DEF WriterFinish, Doomed, GateInv, WType, WriterInv, OverPcs, TxnPcs
<1>34. CASE StartupFails
  BY <1>34, DoomedSame DEF StartupFails
<1>35. CASE RequestStop
  BY <1>35 DEF RequestStop, Doomed, GateInv, WType, WriterInv, OverPcs, TxnPcs
<1>36. CASE SendShutdown
  BY <1>36, DoomedSame DEF SendShutdown
<1>37. CASE JoinWriter
  BY <1>37, DoomedSame DEF JoinWriter
<1>38. CASE JoinTimesOut
  BY <1>38, DoomedSame DEF JoinTimesOut
<1>39. ASSUME NEW t \in Txns, DeadlinePasses(t) PROVE Doomed'
  BY <1>39, DoomedSame DEF DeadlinePasses
<1>40. CASE SessionChanges
  BY <1>40, DoomedSame DEF SessionChanges
<1>41. CASE InputWorkerLost
  BY <1>41, DoomedSame DEF InputWorkerLost
<1>42. CASE GuardianFails
  BY <1>42, DoomedSame DEF GuardianFails
<1>43. CASE UNCHANGED vars
  BY <1>43, DoomedSame DEF vars
<1> QED
  BY <1>1, <1>2, <1>3, <1>4, <1>5, <1>6, <1>7, <1>8, <1>9, <1>10, <1>11,
     <1>12, <1>13, <1>14, <1>15, <1>16, <1>17, <1>18, <1>19, <1>20, <1>21,
     <1>22, <1>23, <1>24, <1>25, <1>26, <1>27, <1>28, <1>29, <1>30, <1>31,
     <1>32, <1>33, <1>34, <1>35, <1>36, <1>37, <1>38, <1>39, <1>40, <1>41,
     <1>42, <1>43
     DEF Next, ClientStep, PollStep, WriterStep, MainStep

-----------------------------------------------------------------------------
(* Startup, liveness flag and the channel ends. *)

LEMMA StartSame ==
    StartInv /\ UNCHANGED <<ctl, wvars, cpc, mpc, alive, connected, disc>> => StartInv'
BY DEF StartInv, Doomed

LEMMA StartInvNext == TInv /\ GateInv /\ StartInv /\ [Next]_vars => StartInv'
<1> SUFFICES ASSUME TInv, GateInv, StartInv, [Next]_vars PROVE StartInv'
  OBVIOUS
<1>0. Doomed => Doomed'
  BY DoomedStable
<1> USE DEF TInv
<1>1. CASE FinishMark
  BY <1>1, <1>0 DEF FinishMark, StartInv, ClientType, WType, WriterInv, OverPcs, TxnPcs
<1>2. ASSUME NEW t \in Sync, Start(t) PROVE StartInv'
  BY <1>2, <1>0 DEF Start, HealthError, StartInv, ClientType, WType, WriterInv, OverPcs, TxnPcs
<1>3. ASSUME NEW t \in Sync, SendCheck(t) PROVE StartInv'
  BY <1>3, <1>0 DEF SendCheck, EnsureActive, Active, Markable, StartInv, ClientType, WType, WriterInv, OverPcs, TxnPcs
<1>4. ASSUME NEW t \in Sync, TrySend(t) PROVE StartInv'
  BY <1>4, <1>0 DEF TrySend, HealthError, StartInv, ClientType, WType, WriterInv, OverPcs, TxnPcs
<1>5. ASSUME NEW t \in Sync, ReadState(t) PROVE StartInv'
  BY <1>5, <1>0 DEF ReadState, StartInv, ClientType, WType, WriterInv, OverPcs, TxnPcs
<1>6. ASSUME NEW t \in Sync, ReadStop(t) PROVE StartInv'
  BY <1>6, <1>0 DEF ReadStop, StartInv, ClientType, WType, WriterInv, OverPcs, TxnPcs
<1>7. ASSUME NEW t \in Sync, ReadFailure(t) PROVE StartInv'
  BY <1>7, <1>0 DEF ReadFailure, StartInv, ClientType, WType, WriterInv, OverPcs, TxnPcs
<1>8. ASSUME NEW t \in Sync, Mark(t) PROVE StartInv'
  BY <1>8, <1>0 DEF Mark, Markable, StartInv, ClientType, WType, WriterInv, OverPcs, TxnPcs
<1>9. ASSUME NEW t \in Sync, Recv(t) PROVE StartInv'
  BY <1>9, <1>0 DEF Recv, SenderAlive, StartInv, ClientType, WType, WriterInv, OverPcs, TxnPcs
<1>10. ASSUME NEW t \in Sync, CheckInputHealth(t) PROVE StartInv'
  BY <1>10, <1>0 DEF CheckInputHealth, StartInv, ClientType, WType, WriterInv, OverPcs, TxnPcs
<1>11. ASSUME NEW t \in Sync, StopForInputLoss(t) PROVE StartInv'
  BY <1>11, <1>0 DEF StopForInputLoss, StartInv, ClientType, WType, WriterInv, OverPcs, TxnPcs
<1>12. ASSUME NEW t \in Manual, BeginManual(t) PROVE StartInv'
  BY <1>12, <1>0 DEF BeginManual, HealthError, StartInv, ClientType, WType, WriterInv, OverPcs, TxnPcs
<1>13. ASSUME NEW t \in Manual, RequestSoftCancel(t) PROVE StartInv'
  BY <1>13, <1>0 DEF RequestSoftCancel, Markable, StartInv, ClientType, WType, WriterInv, OverPcs, TxnPcs
<1>14. ASSUME NEW t \in Manual, PollReceive(t) PROVE StartInv'
  BY <1>14, <1>0 DEF PollReceive, StartInv, ClientType, WType, WriterInv, OverPcs, TxnPcs
<1>15. ASSUME NEW t \in Manual, PollState(t) PROVE StartInv'
  BY <1>15, <1>0 DEF PollState, StartInv, ClientType, WType, WriterInv, OverPcs, TxnPcs
<1>16. ASSUME NEW t \in Manual, PollActive(t) PROVE StartInv'
  BY <1>16, <1>0 DEF PollActive, EnsureActive, Active, Markable, StartInv, ClientType, WType, WriterInv, OverPcs, TxnPcs
<1>17. ASSUME NEW t \in Manual, PollRecheck(t) PROVE StartInv'
  BY <1>17, <1>0 DEF PollRecheck, StartInv, ClientType, WType, WriterInv, OverPcs, TxnPcs
<1>18. ASSUME NEW t \in Manual, PollHealth(t) PROVE StartInv'
  BY <1>18, <1>0 DEF PollHealth, HealthError, StartInv, ClientType, WType, WriterInv, OverPcs, TxnPcs
<1>19. ASSUME NEW t \in Manual, PollFinal(t) PROVE StartInv'
  BY <1>19, <1>0 DEF PollFinal, StartInv, ClientType, WType, WriterInv, OverPcs, TxnPcs
<1>20. CASE SendFast
  BY <1>20, StartSame DEF SendFast
<1>21. CASE WriterStart
  BY <1>21, <1>0 DEF WriterStart, Doomed, StartInv, ClientType, WType, WriterInv, OverPcs, TxnPcs
<1>22. CASE WriterSetAlive
  BY <1>22, <1>0 DEF WriterSetAlive, StartInv, ClientType, WType, WriterInv, OverPcs, TxnPcs
<1>23. CASE WriterReady
  BY <1>23, <1>0 DEF WriterReady, Doomed, StartInv, ClientType, WType, WriterInv, OverPcs, TxnPcs
<1>24. CASE WriterReceive
  BY <1>24, <1>0 DEF WriterReceive, StartInv, ClientType, WType, WriterInv, OverPcs, TxnPcs
<1>25. CASE WriterCheck
  BY <1>25, <1>0 DEF WriterCheck, StartInv, ClientType, WType, WriterInv, OverPcs, TxnPcs
<1>26. CASE WriterFast
  BY <1>26, <1>0 DEF WriterFast, StartInv, ClientType, WType, WriterInv, OverPcs, TxnPcs
<1>27. CASE WriterActive
  BY <1>27, <1>0 DEF WriterActive, EnsureActive, Active, Markable, ErrorKind, StartInv, ClientType, WType, WriterInv, OverPcs, TxnPcs
<1>28. CASE WriterCleanup
  BY <1>28, <1>0 DEF WriterCleanup, CleanupActive, Markable, StartInv, ClientType, WType, WriterInv, OverPcs, TxnPcs
<1>29. CASE WriterMutate
  BY <1>29, <1>0 DEF WriterMutate, StartInv, ClientType, WType, WriterInv, OverPcs, TxnPcs
<1>30. CASE WriterPublish
  BY <1>30, <1>0 DEF WriterPublish, Undecided, StartInv, ClientType, WType, WriterInv, OverPcs, TxnPcs
<1>31. CASE WriterCas
  BY <1>31, <1>0 DEF WriterCas, StartInv, ClientType, WType, WriterInv, OverPcs, TxnPcs
<1>32. CASE WriterDrop
  BY <1>32, <1>0 DEF WriterDrop, StartInv, ClientType, WType, WriterInv, OverPcs, TxnPcs
<1>33. CASE WriterFinish
  BY <1>33, <1>0 DEF WriterFinish, Doomed, StartInv, ClientType, WType, WriterInv, OverPcs, TxnPcs
<1>34. CASE StartupFails
  BY <1>34, <1>0 DEF StartupFails, StartInv, ClientType, WType, WriterInv, OverPcs, TxnPcs
<1>35. CASE RequestStop
  BY <1>35, <1>0 DEF RequestStop, Doomed, StartInv, ClientType, WType, WriterInv, OverPcs, TxnPcs
<1>36. CASE SendShutdown
  BY <1>36, <1>0 DEF SendShutdown, StartInv, ClientType, WType, WriterInv, OverPcs, TxnPcs
<1>37. CASE JoinWriter
  BY <1>37, <1>0 DEF JoinWriter, StartInv, ClientType, WType, WriterInv, OverPcs, TxnPcs
<1>38. CASE JoinTimesOut
  BY <1>38, <1>0 DEF JoinTimesOut, StartInv, ClientType, WType, WriterInv, OverPcs, TxnPcs
<1>39. ASSUME NEW t \in Txns, DeadlinePasses(t) PROVE StartInv'
  BY <1>39, StartSame DEF DeadlinePasses
<1>40. CASE SessionChanges
  BY <1>40, StartSame DEF SessionChanges
<1>41. CASE InputWorkerLost
  BY <1>41, StartSame DEF InputWorkerLost
<1>42. CASE GuardianFails
  BY <1>42, StartSame DEF GuardianFails
<1>43. CASE UNCHANGED vars
  BY <1>43, StartSame DEF vars
<1> QED
  BY <1>1, <1>2, <1>3, <1>4, <1>5, <1>6, <1>7, <1>8, <1>9, <1>10, <1>11,
     <1>12, <1>13, <1>14, <1>15, <1>16, <1>17, <1>18, <1>19, <1>20, <1>21,
     <1>22, <1>23, <1>24, <1>25, <1>26, <1>27, <1>28, <1>29, <1>30, <1>31,
     <1>32, <1>33, <1>34, <1>35, <1>36, <1>37, <1>38, <1>39, <1>40, <1>41,
     <1>42, <1>43
     DEF Next, ClientStep, PollStep, WriterStep, MainStep


-----------------------------------------------------------------------------
(* Where a transaction is. *)

LEMMA QueueSame ==
    ASSUME queue' = queue
    PROVE  /\ \A x : Queued(x)' <=> Queued(x)
           /\ QueueOnce => QueueOnce'
BY DEF Queued, QueueOnce

LEMMA QueueAppend ==
    ASSUME ChanType, NEW c \in Txns \cup {Fast, Shutdown}, queue' = Append(queue, c)
    PROVE  /\ \A x : Queued(x)' <=> Queued(x) \/ x = c
           /\ QueueOnce /\ (c \in Txns => ~Queued(c)) => QueueOnce'
<1>1. /\ DOMAIN queue = 1..Len(queue) /\ Len(queue) \in Nat
      /\ DOMAIN queue' = 1..(Len(queue) + 1)
      /\ queue'[Len(queue) + 1] = c
      /\ \A i \in DOMAIN queue : queue'[i] = queue[i]
  BY DEF ChanType
<1>2. ASSUME NEW x PROVE Queued(x)' <=> Queued(x) \/ x = c
  BY <1>1 DEF Queued
<1>3. ASSUME QueueOnce, c \in Txns => ~Queued(c) PROVE QueueOnce'
  BY <1>1, <1>3 DEF QueueOnce, Queued
<1> QED
  BY <1>2, <1>3

LEMMA QueueTail ==
    ASSUME ChanType, queue # <<>>, queue' = Tail(queue)
    PROVE  /\ \A x : Queued(x)' => Queued(x)
           /\ \A x : Queued(x) => x = Head(queue) \/ Queued(x)'
           /\ Queued(Head(queue))
           /\ QueueOnce => QueueOnce'
           /\ \A x \in Txns : QueueOnce /\ x = Head(queue) => ~Queued(x)'
<1>1. /\ Len(queue) \in Nat /\ Len(queue) >= 1 /\ DOMAIN queue = 1..Len(queue)
      /\ DOMAIN queue' = 1..(Len(queue) - 1)
      /\ Head(queue) = queue[1]
      /\ \A i \in DOMAIN queue' : queue'[i] = queue[i + 1]
  BY DEF ChanType
<1>2. ASSUME NEW x, Queued(x)' PROVE Queued(x)
  BY <1>1, <1>2 DEF Queued
<1>3. ASSUME NEW x, Queued(x), x # Head(queue) PROVE Queued(x)'
  <2>1. PICK i \in DOMAIN queue : queue[i] = x
    BY <1>3 DEF Queued
  <2>2. i - 1 \in DOMAIN queue' /\ queue'[i - 1] = x
    BY <1>1, <1>3, <2>1
  <2> QED
    BY <2>2 DEF Queued
<1>4. Queued(Head(queue))
  BY <1>1 DEF Queued
<1>5. ASSUME QueueOnce PROVE QueueOnce'
  BY <1>1, <1>5 DEF QueueOnce
<1>6. ASSUME QueueOnce, NEW x \in Txns, x = Head(queue) PROVE ~Queued(x)'
  BY <1>1, <1>6 DEF QueueOnce, Queued
<1> QED
  BY <1>2, <1>3, <1>4, <1>5, <1>6

LEMMA PlaceSame ==
    PlaceInv /\ UNCHANGED <<ctl, wvars, cpc, queue, reply>> => PlaceInv'
<1> SUFFICES ASSUME PlaceInv, UNCHANGED <<ctl, wvars, cpc, queue, reply>>
             PROVE  PlaceInv'
  OBVIOUS
<1>1. Doomed <=> Doomed'
  BY DEF Doomed
<1> QED
  BY <1>1, QueueSame DEF PlaceInv, Place

LEMMA PlaceInvNext == TInv /\ GateInv /\ StartInv /\ PlaceInv /\ [Next]_vars => PlaceInv'
<1> SUFFICES ASSUME TInv, GateInv, StartInv, PlaceInv, [Next]_vars PROVE PlaceInv'
  OBVIOUS
<1>0. Doomed => Doomed'
  BY DoomedStable
<1> USE DEF TInv
<1>1. CASE FinishMark
  <2>1. QueueOnce' /\ (\A x : Queued(x)' <=> Queued(x))
    BY <1>1, QueueSame DEF PlaceInv, FinishMark
  <2> SUFFICES ASSUME NEW u \in Txns PROVE Place(u)'
    BY <2>1 DEF PlaceInv
  <2> QED
    BY <1>1, <1>0, <2>1 DEF FinishMark, PlaceInv, Place, CtlType, ChanType, ClientType, GateInv, UnsentPcs, WaitPcs, WType, WriterInv, TxnPcs, OverPcs
<1>2. ASSUME NEW t \in Sync, Start(t) PROVE PlaceInv'
  <2>1. QueueOnce' /\ (\A x : Queued(x)' <=> Queued(x))
    BY <1>2, QueueSame DEF PlaceInv, Start
  <2> SUFFICES ASSUME NEW u \in Txns PROVE Place(u)'
    BY <2>1 DEF PlaceInv
  <2> QED
    BY <1>2, <1>0, <2>1 DEF Start, HealthError, PlaceInv, Place, CtlType, ChanType, ClientType, GateInv, UnsentPcs, WaitPcs, WType, WriterInv, TxnPcs, OverPcs
<1>3. ASSUME NEW t \in Sync, SendCheck(t) PROVE PlaceInv'
  <2>1. QueueOnce' /\ (\A x : Queued(x)' <=> Queued(x))
    BY <1>3, QueueSame DEF PlaceInv, SendCheck
  <2> SUFFICES ASSUME NEW u \in Txns PROVE Place(u)'
    BY <2>1 DEF PlaceInv
  <2> QED
    BY <1>3, <1>0, <2>1 DEF SendCheck, EnsureActive, Active, Markable, PlaceInv, Place, CtlType, ChanType, ClientType, GateInv, UnsentPcs, WaitPcs, WType, WriterInv, TxnPcs, OverPcs
<1>4. ASSUME NEW t \in Sync, TrySend(t) PROVE PlaceInv'
  <2>1. CASE queue' = queue
    <3>1. QueueOnce' /\ (\A x : Queued(x)' <=> Queued(x))
      BY <2>1, QueueSame DEF PlaceInv
    <3> SUFFICES ASSUME NEW u \in Txns PROVE Place(u)'
      BY <3>1 DEF PlaceInv
    <3> QED
      BY <1>4, <1>0, <2>1, <3>1 DEF TrySend, HealthError, PlaceInv, Place, CtlType, ChanType, ClientType, GateInv, UnsentPcs, WaitPcs, WType, WriterInv, TxnPcs, OverPcs
  <2>2. CASE queue' = Append(queue, t) /\ cpc[t] \in UnsentPcs /\ cpc'[t] \in WaitPcs \cup PollPcs
    <3>1. QueueOnce' /\ (\A x : Queued(x)' <=> Queued(x) \/ x = t)
      BY <2>2, QueueAppend DEF PlaceInv, Place
    <3> SUFFICES ASSUME NEW u \in Txns PROVE Place(u)'
      BY <3>1 DEF PlaceInv
    <3> QED
      BY <1>4, <1>0, <2>2, <3>1 DEF TrySend, PlaceInv, PollPcs, Place, CtlType, ChanType, ClientType, GateInv, UnsentPcs, WaitPcs, WType, WriterInv, TxnPcs, OverPcs
  <2> QED
    BY <1>4, <2>1, <2>2 DEF TrySend, UnsentPcs, ClientType, WaitPcs, PollPcs
<1>5. ASSUME NEW t \in Sync, ReadState(t) PROVE PlaceInv'
  <2>1. QueueOnce' /\ (\A x : Queued(x)' <=> Queued(x))
    BY <1>5, QueueSame DEF PlaceInv, ReadState
  <2> SUFFICES ASSUME NEW u \in Txns PROVE Place(u)'
    BY <2>1 DEF PlaceInv
  <2> QED
    BY <1>5, <1>0, <2>1 DEF ReadState, PlaceInv, Place, CtlType, ChanType, ClientType, GateInv, UnsentPcs, WaitPcs, WType, WriterInv, TxnPcs, OverPcs
<1>6. ASSUME NEW t \in Sync, ReadStop(t) PROVE PlaceInv'
  <2>1. QueueOnce' /\ (\A x : Queued(x)' <=> Queued(x))
    BY <1>6, QueueSame DEF PlaceInv, ReadStop
  <2> SUFFICES ASSUME NEW u \in Txns PROVE Place(u)'
    BY <2>1 DEF PlaceInv
  <2> QED
    BY <1>6, <1>0, <2>1 DEF ReadStop, PlaceInv, Place, CtlType, ChanType, ClientType, GateInv, UnsentPcs, WaitPcs, WType, WriterInv, TxnPcs, OverPcs
<1>7. ASSUME NEW t \in Sync, ReadFailure(t) PROVE PlaceInv'
  <2>1. QueueOnce' /\ (\A x : Queued(x)' <=> Queued(x))
    BY <1>7, QueueSame DEF PlaceInv, ReadFailure
  <2> SUFFICES ASSUME NEW u \in Txns PROVE Place(u)'
    BY <2>1 DEF PlaceInv
  <2> QED
    BY <1>7, <1>0, <2>1 DEF ReadFailure, PlaceInv, Place, CtlType, ChanType, ClientType, GateInv, UnsentPcs, WaitPcs, WType, WriterInv, TxnPcs, OverPcs
<1>8. ASSUME NEW t \in Sync, Mark(t) PROVE PlaceInv'
  <2>1. QueueOnce' /\ (\A x : Queued(x)' <=> Queued(x))
    BY <1>8, QueueSame DEF PlaceInv, Mark
  <2> SUFFICES ASSUME NEW u \in Txns PROVE Place(u)'
    BY <2>1 DEF PlaceInv
  <2> QED
    BY <1>8, <1>0, <2>1 DEF Mark, Markable, PlaceInv, Place, CtlType, ChanType, ClientType, GateInv, UnsentPcs, WaitPcs, WType, WriterInv, TxnPcs, OverPcs
<1>9. ASSUME NEW t \in Sync, Recv(t) PROVE PlaceInv'
  <2>1. QueueOnce' /\ (\A x : Queued(x)' <=> Queued(x))
    BY <1>9, QueueSame DEF PlaceInv, Recv
  <2> SUFFICES ASSUME NEW u \in Txns PROVE Place(u)'
    BY <2>1 DEF PlaceInv
  <2> QED
    BY <1>9, <1>0, <2>1 DEF Recv, SenderAlive, PlaceInv, Place, CtlType, ChanType, ClientType, GateInv, UnsentPcs, WaitPcs, WType, WriterInv, TxnPcs, OverPcs
<1>10. ASSUME NEW t \in Sync, CheckInputHealth(t) PROVE PlaceInv'
  <2>1. QueueOnce' /\ (\A x : Queued(x)' <=> Queued(x))
    BY <1>10, QueueSame DEF PlaceInv, CheckInputHealth
  <2> SUFFICES ASSUME NEW u \in Txns PROVE Place(u)'
    BY <2>1 DEF PlaceInv
  <2> QED
    BY <1>10, <1>0, <2>1 DEF CheckInputHealth, PlaceInv, Place, CtlType, ChanType, ClientType, GateInv, UnsentPcs, WaitPcs, WType, WriterInv, TxnPcs, OverPcs
<1>11. ASSUME NEW t \in Sync, StopForInputLoss(t) PROVE PlaceInv'
  <2>1. QueueOnce' /\ (\A x : Queued(x)' <=> Queued(x))
    BY <1>11, QueueSame DEF PlaceInv, StopForInputLoss
  <2> SUFFICES ASSUME NEW u \in Txns PROVE Place(u)'
    BY <2>1 DEF PlaceInv
  <2> QED
    BY <1>11, <1>0, <2>1 DEF StopForInputLoss, PlaceInv, Place, CtlType, ChanType, ClientType, GateInv, UnsentPcs, WaitPcs, WType, WriterInv, TxnPcs, OverPcs
<1>12. ASSUME NEW t \in Manual, BeginManual(t) PROVE PlaceInv'
  <2>1. CASE queue' = queue
    <3>1. QueueOnce' /\ (\A x : Queued(x)' <=> Queued(x))
      BY <2>1, QueueSame DEF PlaceInv
    <3> SUFFICES ASSUME NEW u \in Txns PROVE Place(u)'
      BY <3>1 DEF PlaceInv
    <3> QED
      BY <1>12, <1>0, <2>1, <3>1 DEF BeginManual, HealthError, PlaceInv, Place, CtlType, ChanType, ClientType, GateInv, UnsentPcs, WaitPcs, WType, WriterInv, TxnPcs, OverPcs
  <2>2. CASE queue' = Append(queue, t) /\ cpc[t] \in UnsentPcs /\ cpc'[t] \in WaitPcs \cup PollPcs
    <3>1. QueueOnce' /\ (\A x : Queued(x)' <=> Queued(x) \/ x = t)
      BY <2>2, QueueAppend DEF PlaceInv, Place
    <3> SUFFICES ASSUME NEW u \in Txns PROVE Place(u)'
      BY <3>1 DEF PlaceInv
    <3> QED
      BY <1>12, <1>0, <2>2, <3>1 DEF BeginManual, PlaceInv, PollPcs, Place, CtlType, ChanType, ClientType, GateInv, UnsentPcs, WaitPcs, WType, WriterInv, TxnPcs, OverPcs
  <2> QED
    BY <1>12, <2>1, <2>2 DEF BeginManual, UnsentPcs, ClientType, WaitPcs, PollPcs
<1>13. ASSUME NEW t \in Manual, RequestSoftCancel(t) PROVE PlaceInv'
  <2>1. QueueOnce' /\ (\A x : Queued(x)' <=> Queued(x))
    BY <1>13, QueueSame DEF PlaceInv, RequestSoftCancel
  <2> SUFFICES ASSUME NEW u \in Txns PROVE Place(u)'
    BY <2>1 DEF PlaceInv
  <2> QED
    BY <1>13, <1>0, <2>1 DEF RequestSoftCancel, Markable, PlaceInv, Place, CtlType, ChanType, ClientType, GateInv, UnsentPcs, WaitPcs, WType, WriterInv, TxnPcs, OverPcs
<1>14. ASSUME NEW t \in Manual, PollReceive(t) PROVE PlaceInv'
  <2>1. QueueOnce' /\ (\A x : Queued(x)' <=> Queued(x))
    BY <1>14, QueueSame DEF PlaceInv, PollReceive
  <2> SUFFICES ASSUME NEW u \in Txns PROVE Place(u)'
    BY <2>1 DEF PlaceInv
  <2> QED
    BY <1>14, <1>0, <2>1 DEF PollReceive, PlaceInv, Place, CtlType, ChanType, ClientType, GateInv, UnsentPcs, WaitPcs, WType, WriterInv, TxnPcs, OverPcs
<1>15. ASSUME NEW t \in Manual, PollState(t) PROVE PlaceInv'
  <2>1. QueueOnce' /\ (\A x : Queued(x)' <=> Queued(x))
    BY <1>15, QueueSame DEF PlaceInv, PollState
  <2> SUFFICES ASSUME NEW u \in Txns PROVE Place(u)'
    BY <2>1 DEF PlaceInv
  <2> QED
    BY <1>15, <1>0, <2>1 DEF PollState, PlaceInv, Place, CtlType, ChanType, ClientType, GateInv, UnsentPcs, WaitPcs, WType, WriterInv, TxnPcs, OverPcs
<1>16. ASSUME NEW t \in Manual, PollActive(t) PROVE PlaceInv'
  <2>1. QueueOnce' /\ (\A x : Queued(x)' <=> Queued(x))
    BY <1>16, QueueSame DEF PlaceInv, PollActive
  <2> SUFFICES ASSUME NEW u \in Txns PROVE Place(u)'
    BY <2>1 DEF PlaceInv
  <2> QED
    BY <1>16, <1>0, <2>1 DEF PollActive, EnsureActive, Active, Markable, PlaceInv, Place, CtlType, ChanType, ClientType, GateInv, UnsentPcs, WaitPcs, WType, WriterInv, TxnPcs, OverPcs
<1>17. ASSUME NEW t \in Manual, PollRecheck(t) PROVE PlaceInv'
  <2>1. QueueOnce' /\ (\A x : Queued(x)' <=> Queued(x))
    BY <1>17, QueueSame DEF PlaceInv, PollRecheck
  <2> SUFFICES ASSUME NEW u \in Txns PROVE Place(u)'
    BY <2>1 DEF PlaceInv
  <2> QED
    BY <1>17, <1>0, <2>1 DEF PollRecheck, PlaceInv, Place, CtlType, ChanType, ClientType, GateInv, UnsentPcs, WaitPcs, WType, WriterInv, TxnPcs, OverPcs
<1>18. ASSUME NEW t \in Manual, PollHealth(t) PROVE PlaceInv'
  <2>1. QueueOnce' /\ (\A x : Queued(x)' <=> Queued(x))
    BY <1>18, QueueSame DEF PlaceInv, PollHealth
  <2> SUFFICES ASSUME NEW u \in Txns PROVE Place(u)'
    BY <2>1 DEF PlaceInv
  <2> QED
    BY <1>18, <1>0, <2>1 DEF PollHealth, HealthError, PlaceInv, Place, CtlType, ChanType, ClientType, GateInv, UnsentPcs, WaitPcs, WType, WriterInv, TxnPcs, OverPcs
<1>19. ASSUME NEW t \in Manual, PollFinal(t) PROVE PlaceInv'
  <2>1. QueueOnce' /\ (\A x : Queued(x)' <=> Queued(x))
    BY <1>19, QueueSame DEF PlaceInv, PollFinal
  <2> SUFFICES ASSUME NEW u \in Txns PROVE Place(u)'
    BY <2>1 DEF PlaceInv
  <2> QED
    BY <1>19, <1>0, <2>1 DEF PollFinal, PlaceInv, Place, CtlType, ChanType, ClientType, GateInv, UnsentPcs, WaitPcs, WType, WriterInv, TxnPcs, OverPcs
<1>20. CASE SendFast
  <2>1. QueueOnce' /\ (\A x : Queued(x)' <=> Queued(x) \/ x = Fast)
    BY <1>20, QueueAppend DEF SendFast, PlaceInv
  <2> SUFFICES ASSUME NEW u \in Txns PROVE Place(u)'
    BY <2>1 DEF PlaceInv
  <2> QED
    BY <1>20, <1>0, <2>1 DEF SendFast, PlaceInv, Place
<1>21. CASE WriterStart
  <2>1. QueueOnce' /\ (\A x : Queued(x)' <=> Queued(x))
    BY <1>21, QueueSame DEF PlaceInv, WriterStart
  <2> SUFFICES ASSUME NEW u \in Txns PROVE Place(u)'
    BY <2>1 DEF PlaceInv
  <2> QED
    BY <1>21, <1>0, <2>1 DEF WriterStart, PlaceInv, Place, CtlType, ChanType, ClientType, GateInv, UnsentPcs, WaitPcs, WType, WriterInv, TxnPcs, OverPcs
<1>22. CASE WriterSetAlive
  <2>1. QueueOnce' /\ (\A x : Queued(x)' <=> Queued(x))
    BY <1>22, QueueSame DEF PlaceInv, WriterSetAlive
  <2> SUFFICES ASSUME NEW u \in Txns PROVE Place(u)'
    BY <2>1 DEF PlaceInv
  <2> QED
    BY <1>22, <1>0, <2>1 DEF WriterSetAlive, PlaceInv, Place, CtlType, ChanType, ClientType, GateInv, UnsentPcs, WaitPcs, WType, WriterInv, TxnPcs, OverPcs
<1>23. CASE WriterReady
  <2>1. QueueOnce' /\ (\A x : Queued(x)' <=> Queued(x))
    BY <1>23, QueueSame DEF PlaceInv, WriterReady
  <2> SUFFICES ASSUME NEW u \in Txns PROVE Place(u)'
    BY <2>1 DEF PlaceInv
  <2> QED
    BY <1>23, <1>0, <2>1 DEF WriterReady, PlaceInv, Place, CtlType, ChanType, ClientType, GateInv, UnsentPcs, WaitPcs, WType, WriterInv, TxnPcs, OverPcs
<1>24. CASE WriterReceive
  <2>1. QueueOnce' /\ (\A x : Queued(x)' => Queued(x))
    BY <1>24, QueueTail DEF WriterReceive, PlaceInv
  <2>2. \A x : Queued(x) => x = Head(queue) \/ Queued(x)'
    BY <1>24, QueueTail DEF WriterReceive
  <2>3. Queued(Head(queue)) /\ (\A x \in Txns : x = Head(queue) => ~Queued(x)')
    BY <1>24, QueueTail DEF WriterReceive, PlaceInv
  <2> SUFFICES ASSUME NEW u \in Txns PROVE Place(u)'
    BY <2>1 DEF PlaceInv
  <2>4. CASE Head(queue) = Shutdown
    BY <1>24, <1>0, <2>1, <2>2, <2>4 DEF WriterReceive, PlaceInv, Place, WType, WriterInv
  <2>5. CASE Head(queue) # Shutdown
    BY <1>24, <1>0, <2>1, <2>2, <2>3, <2>5 DEF WriterReceive, PlaceInv, Place, WType, WriterInv
  <2> QED
    BY <2>4, <2>5
<1>25. CASE WriterCheck
  <2>1. QueueOnce' /\ (\A x : Queued(x)' <=> Queued(x))
    BY <1>25, QueueSame DEF PlaceInv, WriterCheck
  <2> SUFFICES ASSUME NEW u \in Txns PROVE Place(u)'
    BY <2>1 DEF PlaceInv
  <2> QED
    BY <1>25, <1>0, <2>1 DEF WriterCheck, PlaceInv, Place, CtlType, ChanType, ClientType, GateInv, UnsentPcs, Doomed, WaitPcs, WType, WriterInv, TxnPcs, OverPcs
<1>26. CASE WriterFast
  <2>1. QueueOnce' /\ (\A x : Queued(x)' <=> Queued(x))
    BY <1>26, QueueSame DEF PlaceInv, WriterFast
  <2> SUFFICES ASSUME NEW u \in Txns PROVE Place(u)'
    BY <2>1 DEF PlaceInv
  <2> QED
    BY <1>26, <1>0, <2>1 DEF WriterFast, PlaceInv, Place, CtlType, ChanType, ClientType, GateInv, UnsentPcs, WaitPcs, WType, WriterInv, TxnPcs, OverPcs
<1>27. CASE WriterActive
  <2>1. QueueOnce' /\ (\A x : Queued(x)' <=> Queued(x))
    BY <1>27, QueueSame DEF PlaceInv, WriterActive
  <2> SUFFICES ASSUME NEW u \in Txns PROVE Place(u)'
    BY <2>1 DEF PlaceInv
  <2> QED
    BY <1>27, <1>0, <2>1 DEF WriterActive, EnsureActive, Active, Markable, ErrorKind, PlaceInv, Place, CtlType, ChanType, ClientType, GateInv, UnsentPcs, WaitPcs, WType, WriterInv, TxnPcs, OverPcs
<1>28. CASE WriterCleanup
  <2>1. QueueOnce' /\ (\A x : Queued(x)' <=> Queued(x))
    BY <1>28, QueueSame DEF PlaceInv, WriterCleanup
  <2> SUFFICES ASSUME NEW u \in Txns PROVE Place(u)'
    BY <2>1 DEF PlaceInv
  <2> QED
    BY <1>28, <1>0, <2>1 DEF WriterCleanup, CleanupActive, Markable, PlaceInv, Place, CtlType, ChanType, ClientType, GateInv, UnsentPcs, WaitPcs, WType, WriterInv, TxnPcs, OverPcs
<1>29. CASE WriterMutate
  <2>1. QueueOnce' /\ (\A x : Queued(x)' <=> Queued(x))
    BY <1>29, QueueSame DEF PlaceInv, WriterMutate
  <2> SUFFICES ASSUME NEW u \in Txns PROVE Place(u)'
    BY <2>1 DEF PlaceInv
  <2> QED
    BY <1>29, <1>0, <2>1 DEF WriterMutate, PlaceInv, Place, CtlType, ChanType, ClientType, GateInv, UnsentPcs, Doomed, WaitPcs, WType, WriterInv, TxnPcs, OverPcs
<1>30. CASE WriterPublish
  <2>1. QueueOnce' /\ (\A x : Queued(x)' <=> Queued(x))
    BY <1>30, PublishCases, QueueSame DEF PlaceInv, Delivers, GivesUp, TimesOut
  <2> SUFFICES ASSUME NEW u \in Txns PROVE Place(u)'
    BY <2>1 DEF PlaceInv
  <2>2. CASE Delivers
    BY <1>30, <1>0, <2>1, <2>2, PublishCases DEF Delivers, PlaceInv, Place, ChanType, Doomed
  <2>3. CASE GivesUp
    BY <1>30, <1>0, <2>1, <2>3, PublishCases DEF GivesUp, PlaceInv, Place, Doomed, OverPcs
  <2>4. CASE TimesOut
    BY <1>30, <1>0, <2>1, <2>4, PublishCases DEF TimesOut, PlaceInv, Place, CtlType, Doomed, OverPcs
  <2> QED
    BY <1>30, <2>2, <2>3, <2>4, PublishCases
<1>31. CASE WriterCas
  <2>1. QueueOnce' /\ (\A x : Queued(x)' <=> Queued(x))
    BY <1>31, QueueSame DEF PlaceInv, WriterCas
  <2> SUFFICES ASSUME NEW u \in Txns PROVE Place(u)'
    BY <2>1 DEF PlaceInv
  <2> QED
    BY <1>31, <1>0, <2>1 DEF WriterCas, PlaceInv, Place, CtlType, ChanType, ClientType, GateInv, UnsentPcs, WaitPcs, WType, WriterInv, TxnPcs, OverPcs
<1>32. CASE WriterDrop
  <2>1. QueueOnce' /\ (\A x : ~Queued(x)')
    BY <1>32 DEF WriterDrop, QueueOnce, Queued
  <2>2. Doomed'
    BY <1>32, <1>0 DEF WriterDrop, Doomed, OverPcs
  <2> SUFFICES ASSUME NEW u \in Txns PROVE Place(u)'
    BY <2>1 DEF PlaceInv
  <2> QED
    BY <1>32, <2>1, <2>2 DEF WriterDrop, PlaceInv, Place
<1>33. CASE WriterFinish
  <2>1. QueueOnce' /\ (\A x : Queued(x)' <=> Queued(x))
    BY <1>33, QueueSame DEF PlaceInv, WriterFinish
  <2> SUFFICES ASSUME NEW u \in Txns PROVE Place(u)'
    BY <2>1 DEF PlaceInv
  <2> QED
    BY <1>33, <1>0, <2>1 DEF WriterFinish, PlaceInv, Place, CtlType, ChanType, ClientType, GateInv, UnsentPcs, WaitPcs, WType, WriterInv, TxnPcs, OverPcs
<1>34. CASE StartupFails
  BY <1>34, PlaceSame DEF StartupFails
<1>35. CASE RequestStop
  <2>1. QueueOnce' /\ (\A x : Queued(x)' <=> Queued(x))
    BY <1>35, QueueSame DEF PlaceInv, RequestStop
  <2> SUFFICES ASSUME NEW u \in Txns PROVE Place(u)'
    BY <2>1 DEF PlaceInv
  <2> QED
    BY <1>35, <1>0, <2>1 DEF RequestStop, PlaceInv, Place, CtlType, ChanType, ClientType, GateInv, UnsentPcs, WaitPcs, WType, WriterInv, TxnPcs, OverPcs
<1>36. CASE SendShutdown
  <2>1. CASE queue' = queue
    BY <1>36, <2>1, PlaceSame DEF SendShutdown
  <2>2. CASE queue' = Append(queue, Shutdown)
    <3>1. QueueOnce' /\ (\A x : Queued(x)' <=> Queued(x) \/ x = Shutdown)
      BY <2>2, QueueAppend DEF PlaceInv
    <3> SUFFICES ASSUME NEW u \in Txns PROVE Place(u)'
      BY <3>1 DEF PlaceInv
    <3> QED
      BY <1>36, <1>0, <3>1 DEF SendShutdown, PlaceInv, Place
  <2> QED
    BY <1>36, <2>1, <2>2 DEF SendShutdown
<1>37. CASE JoinWriter
  BY <1>37, PlaceSame DEF JoinWriter
<1>38. CASE JoinTimesOut
  BY <1>38, PlaceSame DEF JoinTimesOut
<1>39. ASSUME NEW t \in Txns, DeadlinePasses(t) PROVE PlaceInv'
  BY <1>39, PlaceSame DEF DeadlinePasses
<1>40. CASE SessionChanges
  BY <1>40, PlaceSame DEF SessionChanges
<1>41. CASE InputWorkerLost
  BY <1>41, PlaceSame DEF InputWorkerLost
<1>42. CASE GuardianFails
  BY <1>42, PlaceSame DEF GuardianFails
<1>43. CASE UNCHANGED vars
  BY <1>43, PlaceSame DEF vars
<1> QED
  BY <1>1, <1>2, <1>3, <1>4, <1>5, <1>6, <1>7, <1>8, <1>9, <1>10, <1>11,
     <1>12, <1>13, <1>14, <1>15, <1>16, <1>17, <1>18, <1>19, <1>20, <1>21,
     <1>22, <1>23, <1>24, <1>25, <1>26, <1>27, <1>28, <1>29, <1>30, <1>31,
     <1>32, <1>33, <1>34, <1>35, <1>36, <1>37, <1>38, <1>39, <1>40, <1>41,
     <1>42, <1>43
     DEF Next, ClientStep, PollStep, WriterStep, MainStep


-----------------------------------------------------------------------------
(* The completion channel. *)

LEMMA Singleton ==
    ASSUME NEW x
    PROVE  Head(<<x>>) = x /\ Tail(<<x>>) = <<>> /\ Append(<<>>, x) = <<x>>
OBVIOUS

LEMMA CompletionSame ==
    CompletionInv /\ UNCHANGED <<cvars, pending, wvars, queue, reply, completions>>
        => CompletionInv'
BY QueueSame DEF CompletionInv, Completion

LEMMA CompletionInvNext == TInv /\ GateInv /\ PlaceInv /\ CompletionInv /\ [Next]_vars => CompletionInv'
<1> SUFFICES ASSUME TInv, GateInv, PlaceInv, CompletionInv, [Next]_vars PROVE CompletionInv'
  OBVIOUS
<1> USE DEF TInv
<1>1. CASE FinishMark
  BY <1>1, CompletionSame DEF FinishMark
<1>2. ASSUME NEW t \in Sync, Start(t) PROVE CompletionInv'
  <2>1. \A u \in Manual : cpc'[u] = cpc[u] /\ held'[u] = held[u]
    BY <1>2 DEF Start, ClientType
  <2>2. \A u \in Manual : Queued(u)' <=> Queued(u)
    BY <1>2, QueueSame DEF Start
  <2> QED
    BY <1>2, <2>1, <2>2 DEF Start, CompletionInv, Completion
<1>3. ASSUME NEW t \in Sync, SendCheck(t) PROVE CompletionInv'
  <2>1. \A u \in Manual : cpc'[u] = cpc[u] /\ held'[u] = held[u]
    BY <1>3 DEF SendCheck, ClientType
  <2>2. \A u \in Manual : Queued(u)' <=> Queued(u)
    BY <1>3, QueueSame DEF SendCheck
  <2> QED
    BY <1>3, <2>1, <2>2 DEF SendCheck, CompletionInv, Completion
<1>4. ASSUME NEW t \in Sync, TrySend(t) PROVE CompletionInv'
  <2>1. \A u \in Manual : cpc'[u] = cpc[u] /\ held'[u] = held[u]
    BY <1>4 DEF TrySend, ClientType
  <2>2. \A u \in Manual : Queued(u)' <=> Queued(u)
    BY <1>4, QueueSame, QueueAppend DEF TrySend
  <2> QED
    BY <1>4, <2>1, <2>2 DEF TrySend, CompletionInv, Completion
<1>5. ASSUME NEW t \in Sync, ReadState(t) PROVE CompletionInv'
  <2>1. \A u \in Manual : cpc'[u] = cpc[u] /\ held'[u] = held[u]
    BY <1>5 DEF ReadState, ClientType
  <2>2. \A u \in Manual : Queued(u)' <=> Queued(u)
    BY <1>5, QueueSame DEF ReadState
  <2> QED
    BY <1>5, <2>1, <2>2 DEF ReadState, CompletionInv, Completion
<1>6. ASSUME NEW t \in Sync, ReadStop(t) PROVE CompletionInv'
  <2>1. \A u \in Manual : cpc'[u] = cpc[u] /\ held'[u] = held[u]
    BY <1>6 DEF ReadStop, ClientType
  <2>2. \A u \in Manual : Queued(u)' <=> Queued(u)
    BY <1>6, QueueSame DEF ReadStop
  <2> QED
    BY <1>6, <2>1, <2>2 DEF ReadStop, CompletionInv, Completion
<1>7. ASSUME NEW t \in Sync, ReadFailure(t) PROVE CompletionInv'
  <2>1. \A u \in Manual : cpc'[u] = cpc[u] /\ held'[u] = held[u]
    BY <1>7 DEF ReadFailure, ClientType
  <2>2. \A u \in Manual : Queued(u)' <=> Queued(u)
    BY <1>7, QueueSame DEF ReadFailure
  <2> QED
    BY <1>7, <2>1, <2>2 DEF ReadFailure, CompletionInv, Completion
<1>8. ASSUME NEW t \in Sync, Mark(t) PROVE CompletionInv'
  <2>1. \A u \in Manual : cpc'[u] = cpc[u] /\ held'[u] = held[u]
    BY <1>8 DEF Mark, ClientType
  <2>2. \A u \in Manual : Queued(u)' <=> Queued(u)
    BY <1>8, QueueSame DEF Mark
  <2> QED
    BY <1>8, <2>1, <2>2 DEF Mark, CompletionInv, Completion
<1>9. ASSUME NEW t \in Sync, Recv(t) PROVE CompletionInv'
  <2>1. \A u \in Manual : cpc'[u] = cpc[u] /\ held'[u] = held[u]
    BY <1>9 DEF Recv, ClientType
  <2>2. \A u \in Manual : Queued(u)' <=> Queued(u)
    BY <1>9, QueueSame DEF Recv
  <2> QED
    BY <1>9, <2>1, <2>2 DEF Recv, CompletionInv, Completion
<1>10. ASSUME NEW t \in Sync, CheckInputHealth(t) PROVE CompletionInv'
  <2>1. \A u \in Manual : cpc'[u] = cpc[u] /\ held'[u] = held[u]
    BY <1>10 DEF CheckInputHealth, ClientType
  <2>2. \A u \in Manual : Queued(u)' <=> Queued(u)
    BY <1>10, QueueSame DEF CheckInputHealth
  <2> QED
    BY <1>10, <2>1, <2>2 DEF CheckInputHealth, CompletionInv, Completion
<1>11. ASSUME NEW t \in Sync, StopForInputLoss(t) PROVE CompletionInv'
  <2>1. \A u \in Manual : cpc'[u] = cpc[u] /\ held'[u] = held[u]
    BY <1>11 DEF StopForInputLoss, ClientType
  <2>2. \A u \in Manual : Queued(u)' <=> Queued(u)
    BY <1>11, QueueSame DEF StopForInputLoss
  <2> QED
    BY <1>11, <2>1, <2>2 DEF StopForInputLoss, CompletionInv, Completion
<1>12. ASSUME NEW t \in Manual, BeginManual(t) PROVE CompletionInv'
  <2>0. \A u \in Manual : u # t => cpc'[u] = cpc[u]
    BY <1>12 DEF BeginManual, ClientType
  <2>1. CASE queue' = queue /\ pending' = pending
    <3>1. \A u \in Manual : Queued(u)' <=> Queued(u)
      BY <2>1, QueueSame
    <3>2. cpc'[t] = "done"
      BY <1>12, <2>1 DEF BeginManual, ClientType, ChanType
    <3> QED
      BY <1>12, <2>0, <2>1, <3>1, <3>2 DEF BeginManual, CompletionInv, Completion, PollPcs
  <2>2. CASE pending = None /\ queue' = Append(queue, t) /\ pending' = t /\ Goto(t, "between")
    <3>1. \A u \in Manual : Queued(u)' <=> Queued(u) \/ u = t
      BY <2>2, QueueAppend
    <3>2. completions = <<>>
      BY <2>2 DEF CompletionInv
    <3>3. reply[t] = "none" /\ ~held[t]
      BY <1>12 DEF BeginManual, PlaceInv, Place, UnsentPcs, CompletionInv, Completion
    <3>4. \A u \in Manual : cpc[u] \notin PollPcs /\ ~Queued(u) /\ wcmd # u
      BY <2>2 DEF CompletionInv, Completion
    <3>5. cpc'[t] = "between"
      BY <2>2 DEF ClientType
    <3> QED
      BY <1>12, <2>0, <2>2, <3>1, <3>2, <3>3, <3>4, <3>5 DEF BeginManual, CompletionInv, Completion, PollPcs
  <2> QED
    BY <1>12, <2>1, <2>2 DEF BeginManual
<1>13. ASSUME NEW t \in Manual, RequestSoftCancel(t) PROVE CompletionInv'
  BY <1>13, CompletionSame DEF RequestSoftCancel
<1>14. ASSUME NEW t \in Manual, PollReceive(t) PROVE CompletionInv'
  <2>0. pending = t
    BY <1>14 DEF PollReceive, CompletionInv, Completion, PollPcs
  <2>1. \A u \in Manual : Queued(u)' <=> Queued(u)
    BY <1>14, QueueSame DEF PollReceive
  <2>2. \A u \in Manual : u # t => cpc'[u] = cpc[u] /\ held'[u] = held[u]
    BY <1>14 DEF PollReceive, ClientType
  <2>3. completions # <<>> => completions = <<t>> /\ Tail(completions) = <<>> /\ Head(completions) = t /\ reply[t] # "none"
    BY <2>0, Singleton DEF CompletionInv
  <2>4. CASE completions = <<>>
    <3>1. cpc'[t] = "polling" /\ held' = held /\ completions' = <<>>
      BY <1>14, <2>4 DEF PollReceive, ClientType
    <3> QED
      BY <1>14, <2>0, <2>1, <2>2, <2>4, <3>1 DEF PollReceive, CompletionInv, Completion, PollPcs
  <2>5. CASE completions # <<>>
    <3>1. cpc'[t] = "polling" /\ held'[t] /\ completions' = <<>>
      BY <1>14, <2>3, <2>5 DEF PollReceive, ClientType
    <3> QED
      BY <1>14, <2>0, <2>1, <2>2, <2>3, <2>5, <3>1 DEF PollReceive, CompletionInv, Completion, PollPcs
  <2> QED
    BY <2>4, <2>5
<1>15. ASSUME NEW t \in Manual, PollState(t) PROVE CompletionInv'
  <2>0. pending = t
    BY <1>15 DEF PollState, CompletionInv, Completion, PollPcs
  <2>1. \A u \in Manual : Queued(u)' <=> Queued(u)
    BY <1>15, QueueSame DEF PollState
  <2>2. \A u \in Manual : u # t => cpc'[u] = cpc[u] /\ held'[u] = held[u]
    BY <1>15 DEF PollState, ClientType
  <2>3. completions # <<>> => completions = <<t>> /\ Tail(completions) = <<>> /\ Head(completions) = t /\ reply[t] # "none"
    BY <2>0, Singleton DEF CompletionInv
  <2>4. CASE state[t] = "Pending"
    <3>1. cpc'[t] = "active" /\ held' = held /\ completions' = completions /\ pending' = pending
      BY <1>15, <2>4 DEF PollState, ClientType
    <3> QED
      BY <1>15, <2>0, <2>1, <2>2, <3>1 DEF PollState, CompletionInv, Completion, PollPcs
  <2>5. CASE state[t] # "Pending" /\ held' = held /\ completions' = completions
    <3>1. cpc'[t] = "done" /\ (pending' = pending \/ (pending' = None /\ held[t]))
      BY <1>15, <2>5 DEF PollState, ClientType
    <3>2. \A u \in Manual : u # t => cpc[u] \notin PollPcs /\ ~Queued(u) /\ wcmd # u
      BY <2>0 DEF CompletionInv, Completion
    <3>3. pending' = None => ~Queued(t) /\ wcmd # t /\ completions = <<>>
      BY <1>15, <2>0, <2>5, <3>1 DEF PollState, PlaceInv, Place, CompletionInv, Completion, ClientType
    <3> QED
      BY <1>15, <2>0, <2>1, <2>2, <2>5, <3>1, <3>2, <3>3 DEF PollState, CompletionInv, Completion, PollPcs
  <2>6. CASE state[t] = "Completed" /\ ~held[t] /\ completions # <<>>
    <3>1. cpc'[t] = "done" /\ held'[t] /\ completions' = <<>> /\ pending' = None
      <4>1. held' = [held EXCEPT ![t] = Head(completions) = t] /\ Head(completions) = t
        BY <1>15, <2>3, <2>6 DEF PollState
      <4>2. held'[t]
        BY <4>1 DEF ClientType
      <4>3. cpc'[t] = "done" /\ completions' = <<>> /\ pending' = None
        BY <1>15, <2>3, <2>6 DEF PollState, ClientType
      <4> QED
        BY <4>2, <4>3
    <3>2. \A u \in Manual : u # t => cpc[u] \notin PollPcs /\ ~Queued(u) /\ wcmd # u
      BY <2>0 DEF CompletionInv, Completion
    <3>3. ~Queued(t) /\ wcmd # t
      BY <2>6 DEF PlaceInv, Place
    <3> QED
      BY <1>15, <2>0, <2>1, <2>2, <2>3, <3>1, <3>2, <3>3 DEF PollState, CompletionInv, Completion, PollPcs
  <2> QED
    BY <1>15, <2>4, <2>5, <2>6 DEF PollState, CtlType, TxnState
<1>16. ASSUME NEW t \in Manual, PollActive(t) PROVE CompletionInv'
  <2>0. \A u \in Manual : u # t => cpc'[u] = cpc[u]
    BY <1>16 DEF PollActive, ClientType
  <2>1. cpc'[t] \in PollPcs \cup {"done"} /\ cpc[t] \in PollPcs
    BY <1>16 DEF PollActive, ClientType, PollPcs
  <2>2. \A u \in Manual : Queued(u)' <=> Queued(u)
    BY <1>16, QueueSame DEF PollActive
  <2> QED
    BY <1>16, <2>0, <2>1, <2>2 DEF PollActive, CompletionInv, Completion
<1>17. ASSUME NEW t \in Manual, PollRecheck(t) PROVE CompletionInv'
  <2>0. \A u \in Manual : u # t => cpc'[u] = cpc[u]
    BY <1>17 DEF PollRecheck, ClientType
  <2>1. cpc'[t] \in PollPcs \cup {"done"} /\ cpc[t] \in PollPcs
    BY <1>17 DEF PollRecheck, ClientType, PollPcs
  <2>2. \A u \in Manual : Queued(u)' <=> Queued(u)
    BY <1>17, QueueSame DEF PollRecheck
  <2> QED
    BY <1>17, <2>0, <2>1, <2>2 DEF PollRecheck, CompletionInv, Completion
<1>18. ASSUME NEW t \in Manual, PollHealth(t) PROVE CompletionInv'
  <2>0. \A u \in Manual : u # t => cpc'[u] = cpc[u]
    BY <1>18 DEF PollHealth, ClientType
  <2>1. cpc'[t] \in PollPcs \cup {"done"} /\ cpc[t] \in PollPcs
    BY <1>18 DEF PollHealth, ClientType, PollPcs
  <2>2. \A u \in Manual : Queued(u)' <=> Queued(u)
    BY <1>18, QueueSame DEF PollHealth
  <2> QED
    BY <1>18, <2>0, <2>1, <2>2 DEF PollHealth, CompletionInv, Completion
<1>19. ASSUME NEW t \in Manual, PollFinal(t) PROVE CompletionInv'
  <2>0. \A u \in Manual : u # t => cpc'[u] = cpc[u]
    BY <1>19 DEF PollFinal, ClientType
  <2>1. cpc'[t] \in PollPcs \cup {"done"} /\ cpc[t] \in PollPcs
    BY <1>19 DEF PollFinal, ClientType, PollPcs
  <2>2. \A u \in Manual : Queued(u)' <=> Queued(u)
    BY <1>19, QueueSame DEF PollFinal
  <2> QED
    BY <1>19, <2>0, <2>1, <2>2 DEF PollFinal, CompletionInv, Completion
<1>20. CASE SendFast
  <2>1. \A u \in Manual : (Queued(u) \/ wcmd = u)' => Queued(u) \/ wcmd = u
    BY <1>20, QueueAppend DEF SendFast
  <2> QED
    BY <1>20, <2>1 DEF SendFast, CompletionInv, Completion
<1>21. CASE WriterStart
  <2>1. \A u \in Manual : (Queued(u) \/ wcmd = u)' => Queued(u) \/ wcmd = u
    BY <1>21, QueueSame DEF WriterStart
  <2> QED
    BY <1>21, <2>1 DEF WriterStart, CompletionInv, Completion
<1>22. CASE WriterSetAlive
  <2>1. \A u \in Manual : (Queued(u) \/ wcmd = u)' => Queued(u) \/ wcmd = u
    BY <1>22, QueueSame DEF WriterSetAlive
  <2> QED
    BY <1>22, <2>1 DEF WriterSetAlive, CompletionInv, Completion
<1>23. CASE WriterReady
  <2>1. \A u \in Manual : (Queued(u) \/ wcmd = u)' => Queued(u) \/ wcmd = u
    BY <1>23, QueueSame DEF WriterReady
  <2> QED
    BY <1>23, <2>1 DEF WriterReady, CompletionInv, Completion
<1>24. CASE WriterReceive
  <2>1. \A u \in Manual : (Queued(u) \/ wcmd = u)' => Queued(u) \/ wcmd = u
    BY <1>24, QueueTail DEF WriterReceive
  <2> QED
    BY <1>24, <2>1 DEF WriterReceive, CompletionInv, Completion
<1>25. CASE WriterCheck
  <2>1. \A u \in Manual : (Queued(u) \/ wcmd = u)' => Queued(u) \/ wcmd = u
    BY <1>25, QueueSame DEF WriterCheck
  <2> QED
    BY <1>25, <2>1 DEF WriterCheck, CompletionInv, Completion
<1>26. CASE WriterFast
  <2>1. \A u \in Manual : (Queued(u) \/ wcmd = u)' => Queued(u) \/ wcmd = u
    BY <1>26, QueueSame DEF WriterFast
  <2> QED
    BY <1>26, <2>1 DEF WriterFast, CompletionInv, Completion
<1>27. CASE WriterActive
  <2>1. \A u \in Manual : (Queued(u) \/ wcmd = u)' => Queued(u) \/ wcmd = u
    BY <1>27, QueueSame DEF WriterActive
  <2> QED
    BY <1>27, <2>1 DEF WriterActive, CompletionInv, Completion
<1>28. CASE WriterCleanup
  <2>1. \A u \in Manual : (Queued(u) \/ wcmd = u)' => Queued(u) \/ wcmd = u
    BY <1>28, QueueSame DEF WriterCleanup
  <2> QED
    BY <1>28, <2>1 DEF WriterCleanup, CompletionInv, Completion
<1>29. CASE WriterMutate
  <2>1. \A u \in Manual : (Queued(u) \/ wcmd = u)' => Queued(u) \/ wcmd = u
    BY <1>29, QueueSame DEF WriterMutate
  <2> QED
    BY <1>29, <2>1 DEF WriterMutate, CompletionInv, Completion
<1>30. CASE WriterPublish
  <2>1. \A u \in Manual : (Queued(u) \/ wcmd = u)' => Queued(u) \/ wcmd = u
    BY <1>30, QueueSame, PublishCases DEF Delivers, GivesUp, TimesOut
  <2>2. reply[wcmd] = "none"
    BY <1>30, PublishCases DEF PlaceInv, Place
  <2>3. CASE Delivers
    <3>1. CASE wcmd \in Manual
      <4>1. pending = wcmd /\ completions = <<>> /\ completions' = <<wcmd>>
        BY <2>2, <2>3, <3>1, Singleton DEF Delivers, CompletionInv, Completion
      <4>2. reply'[wcmd] # "none" /\ \A u \in Txns : u # wcmd => reply'[u] = reply[u]
        BY <2>3, <3>1 DEF Delivers, ChanType, WType, WriterType, Replies
      <4>3. ~held[wcmd]
        BY <2>2, <3>1 DEF CompletionInv, Completion
      <4> QED
        BY <1>30, <2>1, <2>3, <3>1, <4>1, <4>2, <4>3, PublishCases DEF Delivers, CompletionInv, Completion
    <3>2. CASE wcmd \notin Manual
      <4>1. \A u \in Manual : reply'[u] = reply[u]
        BY <2>3, <3>2 DEF Delivers, ChanType
      <4>2. completions # <<>> => pending \in Manual
        BY DEF CompletionInv, ClientType
      <4> QED
        BY <1>30, <2>1, <2>3, <3>2, <4>1, <4>2, PublishCases DEF Delivers, CompletionInv, Completion
    <3> QED
      BY <3>1, <3>2
  <2>4. CASE GivesUp \/ TimesOut
    BY <1>30, <2>1, <2>4, PublishCases DEF GivesUp, TimesOut, CompletionInv, Completion
  <2> QED
    BY <1>30, <2>3, <2>4, PublishCases
<1>31. CASE WriterCas
  <2>1. \A u \in Manual : (Queued(u) \/ wcmd = u)' => Queued(u) \/ wcmd = u
    BY <1>31, QueueSame DEF WriterCas
  <2> QED
    BY <1>31, <2>1 DEF WriterCas, CompletionInv, Completion
<1>32. CASE WriterDrop
  <2>1. \A u \in Manual : ~Queued(u)'
    BY <1>32 DEF WriterDrop, Queued
  <2> QED
    BY <1>32, <2>1 DEF WriterDrop, CompletionInv, Completion
<1>33. CASE WriterFinish
  <2>1. \A u \in Manual : (Queued(u) \/ wcmd = u)' => Queued(u) \/ wcmd = u
    BY <1>33, QueueSame DEF WriterFinish
  <2> QED
    BY <1>33, <2>1 DEF WriterFinish, CompletionInv, Completion
<1>34. CASE StartupFails
  BY <1>34, CompletionSame DEF StartupFails
<1>35. CASE RequestStop
  BY <1>35, CompletionSame DEF RequestStop
<1>36. CASE SendShutdown
  <2>1. \A u \in Manual : (Queued(u) \/ wcmd = u)' => Queued(u) \/ wcmd = u
    BY <1>36, QueueSame, QueueAppend DEF SendShutdown
  <2> QED
    BY <1>36, <2>1 DEF SendShutdown, CompletionInv, Completion
<1>37. CASE JoinWriter
  BY <1>37, CompletionSame DEF JoinWriter
<1>38. CASE JoinTimesOut
  BY <1>38, CompletionSame DEF JoinTimesOut
<1>39. ASSUME NEW t \in Txns, DeadlinePasses(t) PROVE CompletionInv'
  BY <1>39, CompletionSame DEF DeadlinePasses
<1>40. CASE SessionChanges
  BY <1>40, CompletionSame DEF SessionChanges
<1>41. CASE InputWorkerLost
  BY <1>41, CompletionSame DEF InputWorkerLost
<1>42. CASE GuardianFails
  BY <1>42, CompletionSame DEF GuardianFails
<1>43. CASE UNCHANGED vars
  BY <1>43, CompletionSame DEF vars
<1> QED
  BY <1>1, <1>2, <1>3, <1>4, <1>5, <1>6, <1>7, <1>8, <1>9, <1>10, <1>11,
     <1>12, <1>13, <1>14, <1>15, <1>16, <1>17, <1>18, <1>19, <1>20, <1>21,
     <1>22, <1>23, <1>24, <1>25, <1>26, <1>27, <1>28, <1>29, <1>30, <1>31,
     <1>32, <1>33, <1>34, <1>35, <1>36, <1>37, <1>38, <1>39, <1>40, <1>41,
     <1>42, <1>43
     DEF Next, ClientStep, PollStep, WriterStep, MainStep


-----------------------------------------------------------------------------
(* State, reply and cancellation. *)

LEMMA OutcomeSame ==
    OutcomeInv /\ UNCHANGED <<ctl, wvars, reply, held>> => OutcomeInv'
BY DEF OutcomeInv, Outcome, Doomed, TimedOutSomewhere

LEMMA OutcomeInvNext == TInv /\ GateInv /\ PlaceInv /\ CompletionInv /\ OutcomeInv /\ [Next]_vars => OutcomeInv'
<1> SUFFICES ASSUME TInv, GateInv, PlaceInv, CompletionInv, OutcomeInv, [Next]_vars PROVE OutcomeInv'
  OBVIOUS
<1>0. Doomed => Doomed'
  BY DoomedStable
<1> USE DEF TInv
<1>1. CASE FinishMark
  <2> SUFFICES ASSUME NEW u \in Txns PROVE Outcome(u)'
    BY DEF OutcomeInv
  <2> QED
    BY <1>1, <1>0 DEF FinishMark, OutcomeInv, Outcome, TimedOutSomewhere, CtlType, ChanType, ClientType, GateInv, WType, WriterInv, TxnPcs, OverPcs
<1>2. ASSUME NEW t \in Sync, Start(t) PROVE OutcomeInv'
  BY <1>2, OutcomeSame DEF Start
<1>3. ASSUME NEW t \in Sync, SendCheck(t) PROVE OutcomeInv'
  <2> SUFFICES ASSUME NEW u \in Txns PROVE Outcome(u)'
    BY DEF OutcomeInv
  <2> QED
    BY <1>3, <1>0 DEF SendCheck, EnsureActive, Active, Markable, OutcomeInv, Outcome, TimedOutSomewhere, CtlType, ChanType, ClientType, GateInv, WType, WriterInv, TxnPcs, OverPcs
<1>4. ASSUME NEW t \in Sync, TrySend(t) PROVE OutcomeInv'
  BY <1>4, OutcomeSame DEF TrySend
<1>5. ASSUME NEW t \in Sync, ReadState(t) PROVE OutcomeInv'
  BY <1>5, OutcomeSame DEF ReadState
<1>6. ASSUME NEW t \in Sync, ReadStop(t) PROVE OutcomeInv'
  BY <1>6, OutcomeSame DEF ReadStop
<1>7. ASSUME NEW t \in Sync, ReadFailure(t) PROVE OutcomeInv'
  BY <1>7, OutcomeSame DEF ReadFailure
<1>8. ASSUME NEW t \in Sync, Mark(t) PROVE OutcomeInv'
  <2> SUFFICES ASSUME NEW u \in Txns PROVE Outcome(u)'
    BY DEF OutcomeInv
  <2> QED
    BY <1>8, <1>0 DEF Mark, Markable, OutcomeInv, Outcome, TimedOutSomewhere, CtlType, ChanType, ClientType, GateInv, WType, WriterInv, TxnPcs, OverPcs
<1>9. ASSUME NEW t \in Sync, Recv(t) PROVE OutcomeInv'
  <2> SUFFICES ASSUME NEW u \in Txns PROVE Outcome(u)'
    BY DEF OutcomeInv
  <2> QED
    BY <1>9, <1>0 DEF Recv, SenderAlive, OutcomeInv, Outcome, TimedOutSomewhere, CtlType, ChanType, ClientType, GateInv, WType, WriterInv, TxnPcs, OverPcs
<1>10. ASSUME NEW t \in Sync, CheckInputHealth(t) PROVE OutcomeInv'
  BY <1>10, OutcomeSame DEF CheckInputHealth
<1>11. ASSUME NEW t \in Sync, StopForInputLoss(t) PROVE OutcomeInv'
  <2> SUFFICES ASSUME NEW u \in Txns PROVE Outcome(u)'
    BY DEF OutcomeInv
  <2> QED
    BY <1>11, <1>0 DEF StopForInputLoss, OutcomeInv, Outcome, TimedOutSomewhere, CtlType, ChanType, ClientType, GateInv, WType, WriterInv, TxnPcs, OverPcs
<1>12. ASSUME NEW t \in Manual, BeginManual(t) PROVE OutcomeInv'
  BY <1>12, OutcomeSame DEF BeginManual
<1>13. ASSUME NEW t \in Manual, RequestSoftCancel(t) PROVE OutcomeInv'
  <2> SUFFICES ASSUME NEW u \in Txns PROVE Outcome(u)'
    BY DEF OutcomeInv
  <2> QED
    BY <1>13, <1>0 DEF RequestSoftCancel, Markable, OutcomeInv, Outcome, TimedOutSomewhere, CtlType, ChanType, ClientType, GateInv, WType, WriterInv, TxnPcs, OverPcs
<1>14. ASSUME NEW t \in Manual, PollReceive(t) PROVE OutcomeInv'
  <2>1. held'[t] => held[t] \/ reply[t] # "none"
    BY <1>14 DEF PollReceive, CompletionInv, ClientType
  <2>2. \A u \in Txns : u # t => held'[u] = held[u]
    BY <1>14 DEF PollReceive, ClientType
  <2> SUFFICES ASSUME NEW u \in Txns PROVE Outcome(u)'
    BY DEF OutcomeInv
  <2> QED
    BY <1>14, <1>0, <2>1, <2>2 DEF PollReceive, OutcomeInv, Outcome, TimedOutSomewhere, CtlType, ChanType
<1>15. ASSUME NEW t \in Manual, PollState(t) PROVE OutcomeInv'
  <2>1. held'[t] => held[t] \/ reply[t] # "none"
    BY <1>15 DEF PollState, CompletionInv, ClientType
  <2>2. \A u \in Txns : u # t => held'[u] = held[u]
    BY <1>15 DEF PollState, ClientType
  <2> SUFFICES ASSUME NEW u \in Txns PROVE Outcome(u)'
    BY DEF OutcomeInv
  <2> QED
    BY <1>15, <1>0, <2>1, <2>2 DEF PollState, OutcomeInv, Outcome, TimedOutSomewhere, CtlType, ChanType
<1>16. ASSUME NEW t \in Manual, PollActive(t) PROVE OutcomeInv'
  <2> SUFFICES ASSUME NEW u \in Txns PROVE Outcome(u)'
    BY DEF OutcomeInv
  <2> QED
    BY <1>16, <1>0 DEF PollActive, EnsureActive, Active, Markable, OutcomeInv, Outcome, TimedOutSomewhere, CtlType, ChanType, ClientType, GateInv, WType, WriterInv, TxnPcs, OverPcs
<1>17. ASSUME NEW t \in Manual, PollRecheck(t) PROVE OutcomeInv'
  BY <1>17, OutcomeSame DEF PollRecheck
<1>18. ASSUME NEW t \in Manual, PollHealth(t) PROVE OutcomeInv'
  BY <1>18, OutcomeSame DEF PollHealth
<1>19. ASSUME NEW t \in Manual, PollFinal(t) PROVE OutcomeInv'
  BY <1>19, OutcomeSame DEF PollFinal
<1>20. CASE SendFast
  BY <1>20, OutcomeSame DEF SendFast
<1>21. CASE WriterStart
  <2> SUFFICES ASSUME NEW u \in Txns PROVE Outcome(u)'
    BY DEF OutcomeInv
  <2> QED
    BY <1>21, <1>0 DEF WriterStart, OutcomeInv, Outcome, TimedOutSomewhere, CtlType, ChanType, ClientType, GateInv, WType, WriterInv, TxnPcs, OverPcs
<1>22. CASE WriterSetAlive
  <2> SUFFICES ASSUME NEW u \in Txns PROVE Outcome(u)'
    BY DEF OutcomeInv
  <2> QED
    BY <1>22, <1>0 DEF WriterSetAlive, OutcomeInv, Outcome, TimedOutSomewhere, CtlType, ChanType, ClientType, GateInv, WType, WriterInv, TxnPcs, OverPcs
<1>23. CASE WriterReady
  <2> SUFFICES ASSUME NEW u \in Txns PROVE Outcome(u)'
    BY DEF OutcomeInv
  <2> QED
    BY <1>23, <1>0 DEF WriterReady, OutcomeInv, Outcome, TimedOutSomewhere, CtlType, ChanType, ClientType, GateInv, WType, WriterInv, TxnPcs, OverPcs
<1>24. CASE WriterReceive
  <2> SUFFICES ASSUME NEW u \in Txns PROVE Outcome(u)'
    BY DEF OutcomeInv
  <2> QED
    BY <1>24, <1>0 DEF WriterReceive, OutcomeInv, Outcome, TimedOutSomewhere, CtlType, ChanType, ClientType, GateInv, WType, WriterInv, TxnPcs, OverPcs
<1>25. CASE WriterCheck
  <2> SUFFICES ASSUME NEW u \in Txns PROVE Outcome(u)'
    BY DEF OutcomeInv
  <2> QED
    BY <1>25, <1>0 DEF WriterCheck, OutcomeInv, Outcome, TimedOutSomewhere, CtlType, ChanType, ClientType, GateInv, WType, WriterInv, TxnPcs, OverPcs
<1>26. CASE WriterFast
  <2> SUFFICES ASSUME NEW u \in Txns PROVE Outcome(u)'
    BY DEF OutcomeInv
  <2> QED
    BY <1>26, <1>0 DEF WriterFast, OutcomeInv, Outcome, TimedOutSomewhere, CtlType, ChanType, ClientType, GateInv, WType, WriterInv, TxnPcs, OverPcs
<1>27. CASE WriterActive
  <2> SUFFICES ASSUME NEW u \in Txns PROVE Outcome(u)'
    BY DEF OutcomeInv
  <2> QED
    BY <1>27, <1>0 DEF WriterActive, EnsureActive, Active, Markable, ErrorKind, OutcomeInv, Outcome, TimedOutSomewhere, CtlType, ChanType, ClientType, GateInv, WType, WriterInv, TxnPcs, OverPcs
<1>28. CASE WriterCleanup
  <2> SUFFICES ASSUME NEW u \in Txns PROVE Outcome(u)'
    BY DEF OutcomeInv
  <2> QED
    BY <1>28, <1>0 DEF WriterCleanup, CleanupActive, Markable, OutcomeInv, Outcome, TimedOutSomewhere, CtlType, ChanType, ClientType, GateInv, WType, WriterInv, TxnPcs, OverPcs
<1>29. CASE WriterMutate
  <2> SUFFICES ASSUME NEW u \in Txns PROVE Outcome(u)'
    BY DEF OutcomeInv
  <2> QED
    BY <1>29, <1>0 DEF WriterMutate, OutcomeInv, Outcome, TimedOutSomewhere, CtlType, ChanType, ClientType, GateInv, WType, WriterInv, TxnPcs, OverPcs
<1>30. CASE WriterPublish
  <2> SUFFICES ASSUME NEW u \in Txns PROVE Outcome(u)'
    BY DEF OutcomeInv
  <2>0. reply[wcmd] = "none"
    BY <1>30, PublishCases DEF PlaceInv, Place
  <2>2. CASE Delivers
    BY <1>30, <1>0, <2>0, <2>2, PublishCases
       DEF Delivers, Undecided, CancelFlagAllows, ChanType, Doomed, OutcomeInv, Outcome,
           TimedOutSomewhere, WType, WriterType, Replies
  <2>3. CASE GivesUp
    BY <1>30, <1>0, <2>3, PublishCases DEF GivesUp, OutcomeInv, Outcome, TimedOutSomewhere
  <2>4. CASE TimesOut
    BY <1>30, <1>0, <2>0, <2>4, PublishCases DEF TimesOut, OutcomeInv, Outcome, TimedOutSomewhere, CtlType
  <2> QED
    BY <1>30, <2>2, <2>3, <2>4, PublishCases
<1>31. CASE WriterCas
  <2> SUFFICES ASSUME NEW u \in Txns PROVE Outcome(u)'
    BY DEF OutcomeInv
  <2> QED
    BY <1>31, <1>0 DEF WriterCas, OutcomeInv, Outcome, TimedOutSomewhere, CtlType, ChanType, ClientType, GateInv, WType, WriterType, Replies, WriterInv, TxnPcs, OverPcs
<1>32. CASE WriterDrop
  <2> SUFFICES ASSUME NEW u \in Txns PROVE Outcome(u)'
    BY DEF OutcomeInv
  <2> QED
    BY <1>32, <1>0 DEF WriterDrop, OutcomeInv, Outcome, TimedOutSomewhere, CtlType, ChanType, ClientType, GateInv, WType, WriterInv, TxnPcs, OverPcs
<1>33. CASE WriterFinish
  <2> SUFFICES ASSUME NEW u \in Txns PROVE Outcome(u)'
    BY DEF OutcomeInv
  <2> QED
    BY <1>33, <1>0 DEF WriterFinish, OutcomeInv, Outcome, TimedOutSomewhere, CtlType, ChanType, ClientType, GateInv, WType, WriterInv, TxnPcs, OverPcs
<1>34. CASE StartupFails
  BY <1>34, OutcomeSame DEF StartupFails
<1>35. CASE RequestStop
  <2> SUFFICES ASSUME NEW u \in Txns PROVE Outcome(u)'
    BY DEF OutcomeInv
  <2> QED
    BY <1>35, <1>0 DEF RequestStop, OutcomeInv, Outcome, TimedOutSomewhere, CtlType, ChanType, ClientType, GateInv, WType, WriterInv, TxnPcs, OverPcs
<1>36. CASE SendShutdown
  BY <1>36, OutcomeSame DEF SendShutdown
<1>37. CASE JoinWriter
  BY <1>37, OutcomeSame DEF JoinWriter
<1>38. CASE JoinTimesOut
  BY <1>38, OutcomeSame DEF JoinTimesOut
<1>39. ASSUME NEW t \in Txns, DeadlinePasses(t) PROVE OutcomeInv'
  BY <1>39, OutcomeSame DEF DeadlinePasses
<1>40. CASE SessionChanges
  BY <1>40, OutcomeSame DEF SessionChanges
<1>41. CASE InputWorkerLost
  BY <1>41, OutcomeSame DEF InputWorkerLost
<1>42. CASE GuardianFails
  BY <1>42, OutcomeSame DEF GuardianFails
<1>43. CASE UNCHANGED vars
  BY <1>43, OutcomeSame DEF vars
<1> QED
  BY <1>1, <1>2, <1>3, <1>4, <1>5, <1>6, <1>7, <1>8, <1>9, <1>10, <1>11,
     <1>12, <1>13, <1>14, <1>15, <1>16, <1>17, <1>18, <1>19, <1>20, <1>21,
     <1>22, <1>23, <1>24, <1>25, <1>26, <1>27, <1>28, <1>29, <1>30, <1>31,
     <1>32, <1>33, <1>34, <1>35, <1>36, <1>37, <1>38, <1>39, <1>40, <1>41,
     <1>42, <1>43
     DEF Next, ClientStep, PollStep, WriterStep, MainStep


-----------------------------------------------------------------------------
(* What a poll found out, and what callers were told. *)

LEMMA TimedOutSame == TimedOutSomewhere /\ UNCHANGED ctl => TimedOutSomewhere'
BY DEF TimedOutSomewhere

LEMMA TimedOutStable == TInv /\ GateInv /\ TimedOutSomewhere /\ [Next]_vars => TimedOutSomewhere'
<1> SUFFICES ASSUME TInv, GateInv, TimedOutSomewhere, [Next]_vars PROVE TimedOutSomewhere'
  OBVIOUS
<1> USE DEF TInv
<1>1. CASE FinishMark
  BY <1>1 DEF FinishMark, TimedOutSomewhere, GateInv, WType, WriterInv, TxnPcs
<1>2. ASSUME NEW t \in Sync, Start(t) PROVE TimedOutSomewhere'
  BY <1>2, TimedOutSame DEF Start
<1>3. ASSUME NEW t \in Sync, SendCheck(t) PROVE TimedOutSomewhere'
  BY <1>3 DEF SendCheck, EnsureActive, Active, Markable, TimedOutSomewhere, GateInv, WType, WriterInv, TxnPcs
<1>4. ASSUME NEW t \in Sync, TrySend(t) PROVE TimedOutSomewhere'
  BY <1>4, TimedOutSame DEF TrySend
<1>5. ASSUME NEW t \in Sync, ReadState(t) PROVE TimedOutSomewhere'
  BY <1>5, TimedOutSame DEF ReadState
<1>6. ASSUME NEW t \in Sync, ReadStop(t) PROVE TimedOutSomewhere'
  BY <1>6, TimedOutSame DEF ReadStop
<1>7. ASSUME NEW t \in Sync, ReadFailure(t) PROVE TimedOutSomewhere'
  BY <1>7, TimedOutSame DEF ReadFailure
<1>8. ASSUME NEW t \in Sync, Mark(t) PROVE TimedOutSomewhere'
  BY <1>8 DEF Mark, Markable, TimedOutSomewhere, GateInv, WType, WriterInv, TxnPcs
<1>9. ASSUME NEW t \in Sync, Recv(t) PROVE TimedOutSomewhere'
  BY <1>9, TimedOutSame DEF Recv
<1>10. ASSUME NEW t \in Sync, CheckInputHealth(t) PROVE TimedOutSomewhere'
  BY <1>10, TimedOutSame DEF CheckInputHealth
<1>11. ASSUME NEW t \in Sync, StopForInputLoss(t) PROVE TimedOutSomewhere'
  BY <1>11 DEF StopForInputLoss, TimedOutSomewhere, GateInv, WType, WriterInv, TxnPcs
<1>12. ASSUME NEW t \in Manual, BeginManual(t) PROVE TimedOutSomewhere'
  BY <1>12, TimedOutSame DEF BeginManual
<1>13. ASSUME NEW t \in Manual, RequestSoftCancel(t) PROVE TimedOutSomewhere'
  BY <1>13 DEF RequestSoftCancel, Markable, TimedOutSomewhere, GateInv, WType, WriterInv, TxnPcs
<1>14. ASSUME NEW t \in Manual, PollReceive(t) PROVE TimedOutSomewhere'
  BY <1>14, TimedOutSame DEF PollReceive
<1>15. ASSUME NEW t \in Manual, PollState(t) PROVE TimedOutSomewhere'
  BY <1>15, TimedOutSame DEF PollState
<1>16. ASSUME NEW t \in Manual, PollActive(t) PROVE TimedOutSomewhere'
  BY <1>16 DEF PollActive, EnsureActive, Active, Markable, TimedOutSomewhere, GateInv, WType, WriterInv, TxnPcs
<1>17. ASSUME NEW t \in Manual, PollRecheck(t) PROVE TimedOutSomewhere'
  BY <1>17, TimedOutSame DEF PollRecheck
<1>18. ASSUME NEW t \in Manual, PollHealth(t) PROVE TimedOutSomewhere'
  BY <1>18, TimedOutSame DEF PollHealth
<1>19. ASSUME NEW t \in Manual, PollFinal(t) PROVE TimedOutSomewhere'
  BY <1>19, TimedOutSame DEF PollFinal
<1>20. CASE SendFast
  BY <1>20, TimedOutSame DEF SendFast
<1>21. CASE WriterStart
  BY <1>21, TimedOutSame DEF WriterStart
<1>22. CASE WriterSetAlive
  BY <1>22, TimedOutSame DEF WriterSetAlive
<1>23. CASE WriterReady
  BY <1>23, TimedOutSame DEF WriterReady
<1>24. CASE WriterReceive
  BY <1>24, TimedOutSame DEF WriterReceive
<1>25. CASE WriterCheck
  BY <1>25, TimedOutSame DEF WriterCheck
<1>26. CASE WriterFast
  BY <1>26, TimedOutSame DEF WriterFast
<1>27. CASE WriterActive
  BY <1>27 DEF WriterActive, EnsureActive, Active, Markable, ErrorKind, TimedOutSomewhere, GateInv, WType, WriterInv, TxnPcs
<1>28. CASE WriterCleanup
  BY <1>28 DEF WriterCleanup, CleanupActive, Markable, TimedOutSomewhere, GateInv, WType, WriterInv, TxnPcs
<1>29. CASE WriterMutate
  BY <1>29, TimedOutSame DEF WriterMutate
<1>30. CASE WriterPublish
  BY <1>30, PublishCases DEF Delivers, GivesUp, TimesOut, TimedOutSomewhere
<1>31. CASE WriterCas
  BY <1>31 DEF WriterCas, TimedOutSomewhere, GateInv, WType, WriterInv, TxnPcs
<1>32. CASE WriterDrop
  BY <1>32, TimedOutSame DEF WriterDrop
<1>33. CASE WriterFinish
  BY <1>33, TimedOutSame DEF WriterFinish
<1>34. CASE StartupFails
  BY <1>34, TimedOutSame DEF StartupFails
<1>35. CASE RequestStop
  BY <1>35 DEF RequestStop, TimedOutSomewhere, GateInv, WType, WriterInv, TxnPcs
<1>36. CASE SendShutdown
  BY <1>36, TimedOutSame DEF SendShutdown
<1>37. CASE JoinWriter
  BY <1>37, TimedOutSame DEF JoinWriter
<1>38. CASE JoinTimesOut
  BY <1>38, TimedOutSame DEF JoinTimesOut
<1>39. ASSUME NEW t \in Txns, DeadlinePasses(t) PROVE TimedOutSomewhere'
  BY <1>39, TimedOutSame DEF DeadlinePasses
<1>40. CASE SessionChanges
  BY <1>40, TimedOutSame DEF SessionChanges
<1>41. CASE InputWorkerLost
  BY <1>41, TimedOutSame DEF InputWorkerLost
<1>42. CASE GuardianFails
  BY <1>42, TimedOutSame DEF GuardianFails
<1>43. CASE UNCHANGED vars
  BY <1>43, TimedOutSame DEF vars
<1> QED
  BY <1>1, <1>2, <1>3, <1>4, <1>5, <1>6, <1>7, <1>8, <1>9, <1>10, <1>11,
     <1>12, <1>13, <1>14, <1>15, <1>16, <1>17, <1>18, <1>19, <1>20, <1>21,
     <1>22, <1>23, <1>24, <1>25, <1>26, <1>27, <1>28, <1>29, <1>30, <1>31,
     <1>32, <1>33, <1>34, <1>35, <1>36, <1>37, <1>38, <1>39, <1>40, <1>41,
     <1>42, <1>43
     DEF Next, ClientStep, PollStep, WriterStep, MainStep

LEMMA PollSame ==
    PollInv /\ (Doomed => Doomed') /\ (TimedOutSomewhere => TimedOutSomewhere')
    /\ pollErr' = pollErr => PollInv'
BY DEF PollInv

LEMMA PollInvNext == TInv /\ GateInv /\ StartInv /\ OutcomeInv /\ PollInv /\ [Next]_vars => PollInv'
<1> SUFFICES ASSUME TInv, GateInv, StartInv, OutcomeInv, PollInv, [Next]_vars PROVE PollInv'
  OBVIOUS
<1>0. (Doomed => Doomed') /\ (TimedOutSomewhere => TimedOutSomewhere')
  BY DoomedStable, TimedOutStable
<1> USE DEF TInv
<1>1. CASE FinishMark
  BY <1>1, <1>0, PollSame DEF FinishMark
<1>2. ASSUME NEW t \in Sync, Start(t) PROVE PollInv'
  BY <1>2, <1>0, PollSame DEF Start
<1>3. ASSUME NEW t \in Sync, SendCheck(t) PROVE PollInv'
  BY <1>3, <1>0, PollSame DEF SendCheck
<1>4. ASSUME NEW t \in Sync, TrySend(t) PROVE PollInv'
  BY <1>4, <1>0, PollSame DEF TrySend
<1>5. ASSUME NEW t \in Sync, ReadState(t) PROVE PollInv'
  BY <1>5, <1>0, PollSame DEF ReadState
<1>6. ASSUME NEW t \in Sync, ReadStop(t) PROVE PollInv'
  BY <1>6, <1>0, PollSame DEF ReadStop
<1>7. ASSUME NEW t \in Sync, ReadFailure(t) PROVE PollInv'
  BY <1>7, <1>0, PollSame DEF ReadFailure
<1>8. ASSUME NEW t \in Sync, Mark(t) PROVE PollInv'
  BY <1>8, <1>0, PollSame DEF Mark
<1>9. ASSUME NEW t \in Sync, Recv(t) PROVE PollInv'
  BY <1>9, <1>0, PollSame DEF Recv
<1>10. ASSUME NEW t \in Sync, CheckInputHealth(t) PROVE PollInv'
  BY <1>10, <1>0, PollSame DEF CheckInputHealth
<1>11. ASSUME NEW t \in Sync, StopForInputLoss(t) PROVE PollInv'
  BY <1>11, <1>0, PollSame DEF StopForInputLoss
<1>12. ASSUME NEW t \in Manual, BeginManual(t) PROVE PollInv'
  BY <1>12, <1>0, PollSame DEF BeginManual
<1>13. ASSUME NEW t \in Manual, RequestSoftCancel(t) PROVE PollInv'
  BY <1>13, <1>0, PollSame DEF RequestSoftCancel
<1>14. ASSUME NEW t \in Manual, PollReceive(t) PROVE PollInv'
  BY <1>14 DEF PollReceive, PollInv
<1>15. ASSUME NEW t \in Manual, PollState(t) PROVE PollInv'
  BY <1>15, <1>0, PollSame DEF PollState
<1>16. ASSUME NEW t \in Manual, PollActive(t) PROVE PollInv'
  <2>1. stopRequested => Doomed
    BY DEF Doomed
  <2>2. Active(t) = "timedOut" => TimedOutSomewhere'
    BY <1>16, <1>0 DEF PollActive, EnsureActive, Active, Markable, TimedOutSomewhere, OutcomeInv, Outcome, CtlType, TxnState
  <2>3. Active(t) = "disconnected" => stopRequested
    BY DEF Active
  <2>4. Active(t) \notin {"inputLost", "mismatch"}
    BY DEF Active
  <2>5. pollErr' = pollErr \/ pollErr' = Active(t)
    BY <1>16 DEF PollActive
  <2> QED
    BY <1>0, <2>1, <2>2, <2>3, <2>4, <2>5 DEF PollInv
<1>17. ASSUME NEW t \in Manual, PollRecheck(t) PROVE PollInv'
  BY <1>17, <1>0, PollSame DEF PollRecheck
<1>18. ASSUME NEW t \in Manual, PollHealth(t) PROVE PollInv'
  <2>1. ~alive => Doomed
    BY <1>18 DEF PollHealth, StartInv
  <2>2. failureId # None => TimedOutSomewhere
    BY DEF TimedOutSomewhere
  <2> QED
    BY <1>18, <1>0, <2>1, <2>2 DEF PollHealth, HealthError, PollInv
<1>19. ASSUME NEW t \in Manual, PollFinal(t) PROVE PollInv'
  BY <1>19, <1>0, PollSame DEF PollFinal
<1>20. CASE SendFast
  BY <1>20, <1>0, PollSame DEF SendFast
<1>21. CASE WriterStart
  BY <1>21, <1>0, PollSame DEF WriterStart
<1>22. CASE WriterSetAlive
  BY <1>22, <1>0, PollSame DEF WriterSetAlive
<1>23. CASE WriterReady
  BY <1>23, <1>0, PollSame DEF WriterReady
<1>24. CASE WriterReceive
  BY <1>24, <1>0, PollSame DEF WriterReceive
<1>25. CASE WriterCheck
  BY <1>25, <1>0, PollSame DEF WriterCheck
<1>26. CASE WriterFast
  BY <1>26, <1>0, PollSame DEF WriterFast
<1>27. CASE WriterActive
  BY <1>27, <1>0, PollSame DEF WriterActive
<1>28. CASE WriterCleanup
  BY <1>28, <1>0, PollSame DEF WriterCleanup
<1>29. CASE WriterMutate
  BY <1>29, <1>0, PollSame DEF WriterMutate
<1>30. CASE WriterPublish
  BY <1>30, <1>0, PollSame DEF WriterPublish
<1>31. CASE WriterCas
  BY <1>31, <1>0, PollSame DEF WriterCas
<1>32. CASE WriterDrop
  BY <1>32, <1>0, PollSame DEF WriterDrop
<1>33. CASE WriterFinish
  BY <1>33, <1>0, PollSame DEF WriterFinish
<1>34. CASE StartupFails
  BY <1>34, <1>0, PollSame DEF StartupFails
<1>35. CASE RequestStop
  BY <1>35, <1>0, PollSame DEF RequestStop
<1>36. CASE SendShutdown
  BY <1>36, <1>0, PollSame DEF SendShutdown
<1>37. CASE JoinWriter
  BY <1>37, <1>0, PollSame DEF JoinWriter
<1>38. CASE JoinTimesOut
  BY <1>38, <1>0, PollSame DEF JoinTimesOut
<1>39. ASSUME NEW t \in Txns, DeadlinePasses(t) PROVE PollInv'
  BY <1>39, <1>0, PollSame DEF DeadlinePasses
<1>40. CASE SessionChanges
  BY <1>40, <1>0, PollSame DEF SessionChanges
<1>41. CASE InputWorkerLost
  BY <1>41, <1>0, PollSame DEF InputWorkerLost
<1>42. CASE GuardianFails
  BY <1>42, <1>0, PollSame DEF GuardianFails
<1>43. CASE UNCHANGED vars
  BY <1>43, <1>0, PollSame DEF vars
<1> QED
  BY <1>1, <1>2, <1>3, <1>4, <1>5, <1>6, <1>7, <1>8, <1>9, <1>10, <1>11,
     <1>12, <1>13, <1>14, <1>15, <1>16, <1>17, <1>18, <1>19, <1>20, <1>21,
     <1>22, <1>23, <1>24, <1>25, <1>26, <1>27, <1>28, <1>29, <1>30, <1>31,
     <1>32, <1>33, <1>34, <1>35, <1>36, <1>37, <1>38, <1>39, <1>40, <1>41,
     <1>42, <1>43
     DEF Next, ClientStep, PollStep, WriterStep, MainStep

\* The facts on which a caller's answer rests.
LEMMA TimedOutDooms == TimedOutSomewhere => Doomed
BY DEF TimedOutSomewhere, Doomed

LEMMA UnsentFacts ==
    ASSUME PlaceInv, NEW t \in Txns, cpc[t] \in UnsentPcs
    PROVE  reply[t] = "none" /\ state[t] # "Completed" /\ ~Queued(t) /\ wcmd # t
BY DEF PlaceInv, Place

LEMMA UnpublishedFacts ==
    ASSUME GateInv, OutcomeInv, NEW t \in Txns, state[t] # "Completed",
           TimedOutSomewhere \/ gate = None, TInv
    PROVE  reply[t] = "none"
BY DEF GateInv, OutcomeInv, Outcome, TimedOutSomewhere, TInv, CtlType, TxnState

LEMMA HealthFacts ==
    ASSUME StartInv, mpc = "running" \/ \E t \in Txns : cpc[t] # "idle"
    PROVE  /\ HealthError = "timedOut" => TimedOutSomewhere
           /\ HealthError = "disconnected" => Doomed
           /\ HealthError \in {"timedOut", "guardian", "disconnected", "none"}
BY DEF StartInv, HealthError, TimedOutSomewhere

LEMMA ActiveFacts ==
    ASSUME TInv, OutcomeInv, NEW t \in Txns, NEW p, EnsureActive(p, t)
    PROVE  /\ Active(t) = "timedOut" => TimedOutSomewhere'
           /\ Active(t) = "disconnected" => Doomed
           /\ Active(t) \in {"session", "disconnected", "timedOut",
                             "alreadyCompleted", "cancelled", "ok"}
           /\ \A u \in Txns : state'[u] = "Completed" <=> state[u] = "Completed"
           /\ UNCHANGED stopRequested
<1>1. Active(t) = "timedOut" => TimedOutSomewhere'
  BY DEF EnsureActive, Active, Markable, TimedOutSomewhere, OutcomeInv, Outcome,
         TInv, CtlType, TxnState
<1>2. Active(t) = "disconnected" => Doomed
  BY DEF Active, Doomed
<1>3. Active(t) \in {"session", "disconnected", "timedOut",
                     "alreadyCompleted", "cancelled", "ok"}
  BY DEF Active
<1>4. \A u \in Txns : state'[u] = "Completed" <=> state[u] = "Completed"
  BY DEF EnsureActive, Markable, TInv, CtlType
<1>5. UNCHANGED stopRequested
  BY DEF EnsureActive
<1> QED
  BY <1>1, <1>2, <1>3, <1>4, <1>5

LEMMA ToldSame ==
    ToldInv /\ UNCHANGED <<ctl, wvars, cpc, result, queue, reply>> => ToldInv'
<1>1. ASSUME UNCHANGED <<ctl, wvars>> PROVE Doomed' = Doomed
  BY <1>1 DEF Doomed
<1> QED
  BY <1>1, QueueSame DEF ToldInv, Told, TimedOutSomewhere

LEMMA ToldInvNext == TInv /\ GateInv /\ StartInv /\ PlaceInv /\ CompletionInv /\ OutcomeInv /\ PollInv /\ ToldInv /\ [Next]_vars => ToldInv'
<1> SUFFICES ASSUME TInv, GateInv, StartInv, PlaceInv, CompletionInv, OutcomeInv, PollInv, ToldInv, [Next]_vars PROVE ToldInv'
  OBVIOUS
<1>0. (Doomed => Doomed') /\ (TimedOutSomewhere => TimedOutSomewhere')
  BY DoomedStable, TimedOutStable
<1>00. TimedOutSomewhere' => Doomed'
  BY DEF TimedOutSomewhere, Doomed
<1> USE DEF TInv
<1>1. CASE FinishMark
  <2> SUFFICES ASSUME NEW u \in Txns PROVE Told(u)'
    BY DEF ToldInv
  <2>1. Queued(u)' \/ wcmd' = u => Queued(u) \/ wcmd = u
    BY <1>1, QueueSame DEF FinishMark
  <2> QED
    BY <1>1, <1>0, <2>1 DEF FinishMark, ToldInv, Told, Fatal, CtlType
<1>2. ASSUME NEW t \in Sync, Start(t) PROVE ToldInv'
  <2> SUFFICES ASSUME NEW u \in Txns PROVE Told(u)'
    BY DEF ToldInv
  <2>1. Queued(u)' <=> Queued(u)
    BY <1>2, QueueSame DEF Start
  <2>2. CASE u # t
    BY <1>2, <1>0, <2>1, <2>2 DEF Start, ToldInv, Told, CtlType, ClientType
  <2>3. CASE u = t
    <3>0. result[t] = "none"
      BY <1>2 DEF Start, ToldInv, Told
    <3>1. reply[t] = "none" /\ state[t] # "Completed" /\ ~Queued(t) /\ wcmd # t
      BY <1>2, UnsentFacts DEF Start, UnsentPcs
    <3>2. /\ HealthError = "timedOut" => TimedOutSomewhere
          /\ HealthError = "disconnected" => Doomed
          /\ HealthError \in {"timedOut", "guardian", "disconnected", "none"}
      BY <1>2, HealthFacts DEF Start
    <3> QED
      BY <1>2, <1>0, <1>00, <2>1, <2>3, <3>0, <3>1, <3>2 DEF Start, Told, Fatal, CtlType, ClientType
  <2> QED
    BY <2>2, <2>3
<1>3. ASSUME NEW t \in Sync, SendCheck(t) PROVE ToldInv'
  <2> SUFFICES ASSUME NEW u \in Txns PROVE Told(u)'
    BY DEF ToldInv
  <2>1. Queued(u)' <=> Queued(u)
    BY <1>3, QueueSame DEF SendCheck
  <2>2. CASE u # t
    BY <1>3, <1>0, <2>1, <2>2, ActiveFacts DEF SendCheck, ToldInv, Told, CtlType, ClientType
  <2>3. CASE u = t
    <3>0. result[t] = "none"
      BY <1>3 DEF SendCheck, ToldInv, Told
    <3>1. reply[t] = "none" /\ state[t] # "Completed" /\ ~Queued(t) /\ wcmd # t
      BY <1>3, UnsentFacts DEF SendCheck, UnsentPcs
    <3>2. /\ Active(t) = "timedOut" => TimedOutSomewhere'
          /\ Active(t) = "disconnected" => Doomed
          /\ Active(t) \in {"session", "disconnected", "timedOut",
                            "alreadyCompleted", "cancelled", "ok"}
          /\ state'[t] = "Completed" <=> state[t] = "Completed"
      BY <1>3, ActiveFacts DEF SendCheck
    <3>3. Active(t) # "cancelled"
      BY DEF Active, OutcomeInv, Outcome
    <3> QED
      BY <1>3, <1>0, <1>00, <2>1, <2>3, <3>0, <3>1, <3>2, <3>3 DEF SendCheck, Told, Fatal, CtlType, ClientType
  <2> QED
    BY <2>2, <2>3
<1>4. ASSUME NEW t \in Sync, TrySend(t) PROVE ToldInv'
  <2> SUFFICES ASSUME NEW u \in Txns PROVE Told(u)'
    BY DEF ToldInv
  <2>1. Queued(u)' => Queued(u) \/ (u = t /\ cpc'[t] # "done")
    BY <1>4, QueueSame, QueueAppend DEF TrySend, ClientType
  <2>2. CASE u # t
    BY <1>4, <1>0, <2>1, <2>2 DEF TrySend, ToldInv, Told, CtlType, ClientType
  <2>3. CASE u = t
    <3>0. result[t] = "none"
      BY <1>4 DEF TrySend, ToldInv, Told
    <3>1. reply[t] = "none" /\ state[t] # "Completed" /\ ~Queued(t) /\ wcmd # t
      BY <1>4, UnsentFacts DEF TrySend, UnsentPcs
    <3>2. /\ HealthError = "timedOut" => TimedOutSomewhere
          /\ HealthError = "disconnected" => Doomed
          /\ HealthError \in {"timedOut", "guardian", "disconnected", "none"}
      BY <1>4, HealthFacts DEF TrySend
    <3>3. ~connected => Doomed
      BY DEF StartInv, Doomed, OverPcs
    <3> QED
      BY <1>4, <1>0, <1>00, <2>1, <2>3, <3>0, <3>1, <3>2, <3>3 DEF TrySend, Told, Fatal, CtlType, ClientType
  <2> QED
    BY <2>2, <2>3
<1>5. ASSUME NEW t \in Sync, ReadState(t) PROVE ToldInv'
  <2> SUFFICES ASSUME NEW u \in Txns PROVE Told(u)'
    BY DEF ToldInv
  <2>1. Queued(u)' <=> Queued(u)
    BY <1>5, QueueSame DEF ReadState
  <2>2. CASE u # t
    BY <1>5, <1>0, <2>1, <2>2 DEF ReadState, ToldInv, Told, CtlType, ClientType
  <2>3. CASE u = t
    <3>0. result[t] = "none"
      BY <1>5 DEF ReadState, ToldInv, Told
    <3>1. state[t] = "TimedOut" => TimedOutSomewhere /\ reply[t] = "none"
      BY DEF OutcomeInv, Outcome
    <3>2. state[t] = "Completed" =>
             /\ reply[t] \in {"ok", "err", "cancelled"} /\ (reply[t] = "err" => Doomed)
             /\ ~Queued(t) /\ wcmd # t
      BY DEF OutcomeInv, Outcome, PlaceInv, Place, ChanType, Replies
    <3> QED
      BY <1>5, <1>0, <1>00, <2>1, <2>3, <3>0, <3>1, <3>2 DEF ReadState, Told, Fatal, CtlType, ClientType
  <2> QED
    BY <2>2, <2>3
<1>6. ASSUME NEW t \in Sync, ReadStop(t) PROVE ToldInv'
  <2> SUFFICES ASSUME NEW u \in Txns PROVE Told(u)'
    BY DEF ToldInv
  <2>1. Queued(u)' <=> Queued(u)
    BY <1>6, QueueSame DEF ReadStop
  <2>2. CASE u # t
    BY <1>6, <1>0, <2>1, <2>2 DEF ReadStop, ToldInv, Told, CtlType, ClientType
  <2>3. CASE u = t
    <3>0. result[t] = "none"
      BY <1>6 DEF ReadStop, ToldInv, Told
    <3>1. stopRequested => Doomed
      BY DEF Doomed
    <3> QED
      BY <1>6, <1>0, <1>00, <2>1, <2>3, <3>0, <3>1 DEF ReadStop, Told, Fatal, CtlType, ClientType
  <2> QED
    BY <2>2, <2>3
<1>7. ASSUME NEW t \in Sync, ReadFailure(t) PROVE ToldInv'
  <2> SUFFICES ASSUME NEW u \in Txns PROVE Told(u)'
    BY DEF ToldInv
  <2>1. Queued(u)' <=> Queued(u)
    BY <1>7, QueueSame DEF ReadFailure
  <2>2. CASE u # t
    BY <1>7, <1>0, <2>1, <2>2 DEF ReadFailure, ToldInv, Told, CtlType, ClientType
  <2>3. CASE u = t
    <3>0. result[t] = "none"
      BY <1>7 DEF ReadFailure, ToldInv, Told
    <3> QED
      BY <1>7, <1>0, <1>00, <2>1, <2>3, <3>0 DEF ReadFailure, Told, Fatal, CtlType, ClientType
  <2> QED
    BY <2>2, <2>3
<1>8. ASSUME NEW t \in Sync, Mark(t) PROVE ToldInv'
  <2> SUFFICES ASSUME NEW u \in Txns PROVE Told(u)'
    BY DEF ToldInv
  <2>1. Queued(u)' <=> Queued(u)
    BY <1>8, QueueSame DEF Mark
  <2>2. CASE u # t
    BY <1>8, <1>0, <2>1, <2>2 DEF Mark, Markable, ToldInv, Told, CtlType, ClientType
  <2>3. CASE u = t
    <3>0. result[t] = "none"
      BY <1>8 DEF Mark, ToldInv, Told
    <3>1. state[t] = "Pending" => reply[t] = "none"
      BY <1>8, UnpublishedFacts DEF Mark
    <3>2. marking' = t => TimedOutSomewhere'
      BY DEF TimedOutSomewhere
    <3> QED
      BY <1>8, <1>0, <1>00, <2>1, <2>3, <3>0, <3>1, <3>2 DEF Mark, Markable, Told, Fatal, CtlType, ClientType
  <2> QED
    BY <2>2, <2>3
<1>9. ASSUME NEW t \in Sync, Recv(t) PROVE ToldInv'
  <2> SUFFICES ASSUME NEW u \in Txns PROVE Told(u)'
    BY DEF ToldInv
  <2>1. Queued(u)' <=> Queued(u)
    BY <1>9, QueueSame DEF Recv
  <2>2. CASE u # t
    BY <1>9, <1>0, <2>1, <2>2 DEF Recv, ToldInv, Told, CtlType, ClientType
  <2>3. CASE u = t
    <3>0. result[t] = "none"
      BY <1>9 DEF Recv, ToldInv, Told
    <3>1. ~SenderAlive(t) /\ state[t] = "Pending" => Doomed
      BY <1>9 DEF Recv, PlaceInv, Place, SenderAlive, Queued, WaitPcs
    <3> QED
      BY <1>9, <1>0, <1>00, <2>1, <2>3, <3>0, <3>1 DEF Recv, Told, Fatal, CtlType, ClientType
  <2> QED
    BY <2>2, <2>3
<1>10. ASSUME NEW t \in Sync, CheckInputHealth(t) PROVE ToldInv'
  <2> SUFFICES ASSUME NEW u \in Txns PROVE Told(u)'
    BY DEF ToldInv
  <2>1. Queued(u)' <=> Queued(u)
    BY <1>10, QueueSame DEF CheckInputHealth
  <2>2. CASE u # t
    BY <1>10, <1>0, <2>1, <2>2 DEF CheckInputHealth, ToldInv, Told, CtlType, ClientType
  <2>3. CASE u = t
    <3>0. result[t] = "none"
      BY <1>10 DEF CheckInputHealth, ToldInv, Told
    <3>1. reply[t] = "err" => Doomed
      BY DEF OutcomeInv, Outcome
    <3> QED
      BY <1>10, <1>0, <1>00, <2>1, <2>3, <3>0, <3>1 DEF CheckInputHealth, Told, Fatal, CtlType, ClientType
  <2> QED
    BY <2>2, <2>3
<1>11. ASSUME NEW t \in Sync, StopForInputLoss(t) PROVE ToldInv'
  <2> SUFFICES ASSUME NEW u \in Txns PROVE Told(u)'
    BY DEF ToldInv
  <2>1. Queued(u)' <=> Queued(u)
    BY <1>11, QueueSame DEF StopForInputLoss
  <2>2. CASE u # t
    BY <1>11, <1>0, <2>1, <2>2 DEF StopForInputLoss, ToldInv, Told, CtlType, ClientType
  <2>3. CASE u = t
    <3>0. result[t] = "none"
      BY <1>11 DEF StopForInputLoss, ToldInv, Told
    <3>1. state[t] = "Pending" => reply[t] = "none"
      BY <1>11, UnpublishedFacts DEF StopForInputLoss
    <3>2. stopRequested' => Doomed'
      BY DEF Doomed
    <3> QED
      BY <1>11, <1>0, <1>00, <2>1, <2>3, <3>0, <3>1, <3>2 DEF StopForInputLoss, Told, Fatal, CtlType, ClientType
  <2> QED
    BY <2>2, <2>3
<1>12. ASSUME NEW t \in Manual, BeginManual(t) PROVE ToldInv'
  <2> SUFFICES ASSUME NEW u \in Txns PROVE Told(u)'
    BY DEF ToldInv
  <2>1. Queued(u)' => Queued(u) \/ (u = t /\ cpc'[t] # "done")
    BY <1>12, QueueSame, QueueAppend DEF BeginManual, ClientType
  <2>2. CASE u # t
    BY <1>12, <1>0, <2>1, <2>2 DEF BeginManual, ToldInv, Told, CtlType, ClientType
  <2>3. CASE u = t
    <3>0. result[t] = "none"
      BY <1>12 DEF BeginManual, ToldInv, Told
    <3>1. reply[t] = "none" /\ state[t] # "Completed" /\ ~Queued(t) /\ wcmd # t
      BY <1>12, UnsentFacts DEF BeginManual, UnsentPcs
    <3>2. /\ HealthError = "timedOut" => TimedOutSomewhere
          /\ HealthError = "disconnected" => Doomed
          /\ HealthError \in {"timedOut", "guardian", "disconnected", "none"}
      BY <1>12, HealthFacts DEF BeginManual
    <3>3. ~connected => Doomed
      BY DEF StartInv, Doomed, OverPcs
    <3> QED
      BY <1>12, <1>0, <1>00, <2>1, <2>3, <3>0, <3>1, <3>2, <3>3 DEF BeginManual, Told, Fatal, CtlType, ClientType
  <2> QED
    BY <2>2, <2>3
<1>13. ASSUME NEW t \in Manual, RequestSoftCancel(t) PROVE ToldInv'
  <2> SUFFICES ASSUME NEW u \in Txns PROVE Told(u)'
    BY DEF ToldInv
  <2>1. Queued(u)' <=> Queued(u)
    BY <1>13, QueueSame DEF RequestSoftCancel
  <2> QED
    BY <1>13, <1>0, <2>1 DEF RequestSoftCancel, Markable, ToldInv, Told, CtlType
<1>14. ASSUME NEW t \in Manual, PollReceive(t) PROVE ToldInv'
  <2> SUFFICES ASSUME NEW u \in Txns PROVE Told(u)'
    BY DEF ToldInv
  <2>1. Queued(u)' <=> Queued(u)
    BY <1>14, QueueSame DEF PollReceive
  <2>2. CASE u # t
    BY <1>14, <1>0, <2>1, <2>2 DEF PollReceive, ToldInv, Told, CtlType, ClientType
  <2>3. CASE u = t
    <3>0. result[t] = "none"
      BY <1>14 DEF PollReceive, ToldInv, Told
    <3>1. completions # <<>> => Head(completions) = t
      BY <1>14, Singleton DEF PollReceive, CompletionInv, Completion, PollPcs
    <3> QED
      BY <1>14, <1>0, <1>00, <2>1, <2>3, <3>0, <3>1 DEF PollReceive, Told, Fatal, CtlType, ClientType
  <2> QED
    BY <2>2, <2>3
<1>15. ASSUME NEW t \in Manual, PollState(t) PROVE ToldInv'
  <2> SUFFICES ASSUME NEW u \in Txns PROVE Told(u)'
    BY DEF ToldInv
  <2>1. Queued(u)' <=> Queued(u)
    BY <1>15, QueueSame DEF PollState
  <2>2. CASE u # t
    BY <1>15, <1>0, <2>1, <2>2 DEF PollState, ToldInv, Told, CtlType, ClientType
  <2>3. CASE u = t
    <3>0. result[t] = "none"
      BY <1>15 DEF PollState, ToldInv, Told
    <3>1. completions # <<>> => Head(completions) = t
      BY <1>15, Singleton DEF PollState, CompletionInv, Completion, PollPcs
    <3>2. state[t] = "TimedOut" => TimedOutSomewhere /\ reply[t] = "none"
      BY DEF OutcomeInv, Outcome
    <3>3. state[t] = "Completed" =>
             /\ reply[t] \in {"ok", "err", "cancelled"} /\ (reply[t] = "err" => Doomed)
             /\ held[t] \/ completions # <<>>
      <4>1. state[t] = "Completed" => reply[t] # "none" /\ (reply[t] = "err" => Doomed)
        BY DEF OutcomeInv, Outcome
      <4>2. reply[t] # "none" => held[t] \/ completions = <<t>>
        BY <1>15 DEF PollState, CompletionInv, Completion, PollPcs
      <4> QED
        BY <4>1, <4>2 DEF ChanType, Replies
    <3>4. t \notin Sync
      OBVIOUS
    <3> QED
      BY <1>15, <1>0, <1>00, <2>1, <2>3, <3>0, <3>1, <3>2, <3>3, <3>4 DEF PollState, Told, Fatal, CtlType, ClientType
  <2> QED
    BY <2>2, <2>3
<1>16. ASSUME NEW t \in Manual, PollActive(t) PROVE ToldInv'
  <2> SUFFICES ASSUME NEW u \in Txns PROVE Told(u)'
    BY DEF ToldInv
  <2>1. Queued(u)' <=> Queued(u)
    BY <1>16, QueueSame DEF PollActive
  <2>2. CASE u # t
    BY <1>16, <1>0, <2>1, <2>2, ActiveFacts DEF PollActive, ToldInv, Told, CtlType, ClientType
  <2>3. CASE u = t
    <3>0. result[t] = "none"
      BY <1>16 DEF PollActive, ToldInv, Told
    <3> QED
      BY <1>16, <1>0, <1>00, <2>1, <2>3, <3>0 DEF PollActive, Told, Fatal, CtlType, ClientType
  <2> QED
    BY <2>2, <2>3
<1>17. ASSUME NEW t \in Manual, PollRecheck(t) PROVE ToldInv'
  <2> SUFFICES ASSUME NEW u \in Txns PROVE Told(u)'
    BY DEF ToldInv
  <2>1. Queued(u)' <=> Queued(u)
    BY <1>17, QueueSame DEF PollRecheck
  <2>2. CASE u # t
    BY <1>17, <1>0, <2>1, <2>2 DEF PollRecheck, ToldInv, Told, CtlType, ClientType
  <2>3. CASE u = t
    <3>0. result[t] = "none"
      BY <1>17 DEF PollRecheck, ToldInv, Told
    <3>1. /\ pollErr = "timedOut" => TimedOutSomewhere
          /\ pollErr = "disconnected" => Doomed
          /\ pollErr \notin {"inputLost", "mismatch", "ok", "cancelled", "err"}
      BY DEF PollInv, ClientType, Errors
    <3>2. TimedOutSomewhere /\ state[t] # "Completed" => reply[t] = "none"
      BY UnpublishedFacts
    <3>3. disc => Doomed
      BY DEF StartInv, Doomed, OverPcs
    <3>4. t \notin Sync
      OBVIOUS
    <3>5. state[t] = "TimedOut" => TimedOutSomewhere
      BY DEF OutcomeInv, Outcome
    <3> QED
      BY <1>17, <1>0, <1>00, <2>1, <2>3, <3>0, <3>1, <3>2, <3>3, <3>4 DEF PollRecheck, Told, Fatal, CtlType, ClientType
  <2> QED
    BY <2>2, <2>3
<1>18. ASSUME NEW t \in Manual, PollHealth(t) PROVE ToldInv'
  <2> SUFFICES ASSUME NEW u \in Txns PROVE Told(u)'
    BY DEF ToldInv
  <2>1. Queued(u)' <=> Queued(u)
    BY <1>18, QueueSame DEF PollHealth
  <2>2. CASE u # t
    BY <1>18, <1>0, <2>1, <2>2 DEF PollHealth, ToldInv, Told, CtlType, ClientType
  <2>3. CASE u = t
    <3>0. result[t] = "none"
      BY <1>18 DEF PollHealth, ToldInv, Told
    <3> QED
      BY <1>18, <1>0, <1>00, <2>1, <2>3, <3>0 DEF PollHealth, Told, Fatal, CtlType, ClientType
  <2> QED
    BY <2>2, <2>3
<1>19. ASSUME NEW t \in Manual, PollFinal(t) PROVE ToldInv'
  <2> SUFFICES ASSUME NEW u \in Txns PROVE Told(u)'
    BY DEF ToldInv
  <2>1. Queued(u)' <=> Queued(u)
    BY <1>19, QueueSame DEF PollFinal
  <2>2. CASE u # t
    BY <1>19, <1>0, <2>1, <2>2 DEF PollFinal, ToldInv, Told, CtlType, ClientType
  <2>3. CASE u = t
    <3>0. result[t] = "none"
      BY <1>19 DEF PollFinal, ToldInv, Told
    <3>1. /\ pollErr = "timedOut" => TimedOutSomewhere
          /\ pollErr = "disconnected" => Doomed
          /\ pollErr \notin {"inputLost", "mismatch", "ok", "cancelled", "err"}
      BY DEF PollInv, ClientType, Errors
    <3>2. TimedOutSomewhere /\ state[t] # "Completed" => reply[t] = "none"
      BY UnpublishedFacts
    <3>3. disc => Doomed
      BY DEF StartInv, Doomed, OverPcs
    <3>4. t \notin Sync
      OBVIOUS
    <3>5. state[t] = "TimedOut" => TimedOutSomewhere
      BY DEF OutcomeInv, Outcome
    <3> QED
      BY <1>19, <1>0, <1>00, <2>1, <2>3, <3>0, <3>1, <3>2, <3>4, <3>5 DEF PollFinal, Told, Fatal, CtlType, ClientType
  <2> QED
    BY <2>2, <2>3
<1>20. CASE SendFast
  <2> SUFFICES ASSUME NEW u \in Txns PROVE Told(u)'
    BY DEF ToldInv
  <2>1. Queued(u)' \/ wcmd' = u => Queued(u) \/ wcmd = u
    BY <1>20, QueueAppend DEF SendFast
  <2> QED
    BY <1>20, <1>0, <2>1 DEF SendFast, ToldInv, Told, Fatal, CtlType
<1>21. CASE WriterStart
  <2> SUFFICES ASSUME NEW u \in Txns PROVE Told(u)'
    BY DEF ToldInv
  <2>1. Queued(u)' \/ wcmd' = u => Queued(u) \/ wcmd = u
    BY <1>21, QueueSame DEF WriterStart
  <2> QED
    BY <1>21, <1>0, <2>1 DEF WriterStart, ToldInv, Told, Fatal, CtlType
<1>22. CASE WriterSetAlive
  <2> SUFFICES ASSUME NEW u \in Txns PROVE Told(u)'
    BY DEF ToldInv
  <2>1. Queued(u)' \/ wcmd' = u => Queued(u) \/ wcmd = u
    BY <1>22, QueueSame DEF WriterSetAlive
  <2> QED
    BY <1>22, <1>0, <2>1 DEF WriterSetAlive, ToldInv, Told, Fatal, CtlType
<1>23. CASE WriterReady
  <2> SUFFICES ASSUME NEW u \in Txns PROVE Told(u)'
    BY DEF ToldInv
  <2>1. Queued(u)' \/ wcmd' = u => Queued(u) \/ wcmd = u
    BY <1>23, QueueSame DEF WriterReady
  <2> QED
    BY <1>23, <1>0, <2>1 DEF WriterReady, ToldInv, Told, Fatal, CtlType
<1>24. CASE WriterReceive
  <2> SUFFICES ASSUME NEW u \in Txns PROVE Told(u)'
    BY DEF ToldInv
  <2>1. Queued(u)' \/ wcmd' = u => Queued(u) \/ wcmd = u
    BY <1>24, QueueTail DEF WriterReceive
  <2> QED
    BY <1>24, <1>0, <2>1 DEF WriterReceive, ToldInv, Told, Fatal, CtlType
<1>25. CASE WriterCheck
  <2> SUFFICES ASSUME NEW u \in Txns PROVE Told(u)'
    BY DEF ToldInv
  <2>1. Queued(u)' \/ wcmd' = u => Queued(u) \/ wcmd = u
    BY <1>25, QueueSame DEF WriterCheck
  <2> QED
    BY <1>25, <1>0, <2>1 DEF WriterCheck, ToldInv, Told, Fatal, CtlType
<1>26. CASE WriterFast
  <2> SUFFICES ASSUME NEW u \in Txns PROVE Told(u)'
    BY DEF ToldInv
  <2>1. Queued(u)' \/ wcmd' = u => Queued(u) \/ wcmd = u
    BY <1>26, QueueSame DEF WriterFast
  <2> QED
    BY <1>26, <1>0, <2>1 DEF WriterFast, ToldInv, Told, Fatal, CtlType
<1>27. CASE WriterActive
  <2> SUFFICES ASSUME NEW u \in Txns PROVE Told(u)'
    BY DEF ToldInv
  <2>1. Queued(u)' \/ wcmd' = u => Queued(u) \/ wcmd = u
    BY <1>27, QueueSame DEF WriterActive
  <2>2. state'[u] = "Completed" <=> state[u] = "Completed"
    BY <1>27, ActiveFacts DEF WriterActive, WType, WriterInv, TxnPcs
  <2>3. stopRequested' = stopRequested
    BY <1>27 DEF WriterActive, EnsureActive
  <2> QED
    BY <1>27, <1>0, <2>1, <2>2, <2>3 DEF WriterActive, ToldInv, Told
<1>28. CASE WriterCleanup
  <2> SUFFICES ASSUME NEW u \in Txns PROVE Told(u)'
    BY DEF ToldInv
  <2>1. Queued(u)' \/ wcmd' = u => Queued(u) \/ wcmd = u
    BY <1>28, QueueSame DEF WriterCleanup
  <2>2. state'[u] = "Completed" <=> state[u] = "Completed"
    BY <1>28 DEF WriterCleanup, Markable, CtlType
  <2>3. stopRequested' = stopRequested
    BY <1>28 DEF WriterCleanup
  <2> QED
    BY <1>28, <1>0, <2>1, <2>2, <2>3 DEF WriterCleanup, ToldInv, Told
<1>29. CASE WriterMutate
  <2> SUFFICES ASSUME NEW u \in Txns PROVE Told(u)'
    BY DEF ToldInv
  <2>1. Queued(u)' \/ wcmd' = u => Queued(u) \/ wcmd = u
    BY <1>29, QueueSame DEF WriterMutate
  <2> QED
    BY <1>29, <1>0, <2>1 DEF WriterMutate, ToldInv, Told, Fatal, CtlType
<1>30. CASE WriterPublish
  <2> SUFFICES ASSUME NEW u \in Txns PROVE Told(u)'
    BY DEF ToldInv
  <2>1. Queued(u)' \/ wcmd' = u => Queued(u) \/ wcmd = u
    BY <1>30, QueueSame, PublishCases DEF Delivers, GivesUp, TimesOut
  <2>2. CASE Delivers
    <3>1. ~TimedOutSomewhere /\ ~stopRequested /\ state[wcmd] # "Completed"
      BY <1>30, <2>2, PublishCases DEF Delivers, Undecided, TimedOutSomewhere, GateInv
    <3>2. state' = state /\ stopRequested' = stopRequested /\ (u # wcmd => reply'[u] = reply[u])
      BY <2>2 DEF Delivers, ChanType
    <3>3. result' = result /\ cpc' = cpc
      BY <1>30, PublishCases
    <3> QED
      BY <1>0, <2>1, <3>1, <3>2, <3>3 DEF ToldInv, Told
  <2>3. CASE GivesUp
    BY <1>30, <1>0, <2>1, <2>3, PublishCases DEF GivesUp, ToldInv, Told
  <2>4. CASE TimesOut
    <3>1. state'[u] = "Completed" <=> state[u] = "Completed"
      BY <1>30, <2>4, PublishCases DEF TimesOut, Undecided, CtlType
    <3> QED
      BY <1>30, <1>0, <2>1, <2>4, <3>1, PublishCases DEF TimesOut, ToldInv, Told
  <2> QED
    BY <1>30, <2>2, <2>3, <2>4, PublishCases
<1>31. CASE WriterCas
  <2> SUFFICES ASSUME NEW u \in Txns PROVE Told(u)'
    BY DEF ToldInv
  <2>1. Queued(u)' \/ wcmd' = u => Queued(u) \/ wcmd = u
    BY <1>31, QueueSame DEF WriterCas, WType, WriterInv, TxnPcs
  <2>2. ~TimedOutSomewhere /\ ~stopRequested
    BY <1>31 DEF WriterCas, GateInv, TimedOutSomewhere
  <2>3. state[u] = "Completed" => state'[u] = "Completed"
    BY <1>31 DEF WriterCas, CtlType
  <2> QED
    BY <1>31, <1>0, <2>1, <2>2, <2>3 DEF WriterCas, ToldInv, Told
<1>32. CASE WriterDrop
  <2> SUFFICES ASSUME NEW u \in Txns PROVE Told(u)'
    BY DEF ToldInv
  <2>1. Queued(u)' \/ wcmd' = u => Queued(u) \/ wcmd = u
    BY <1>32, QueueSame DEF WriterDrop, Queued
  <2> QED
    BY <1>32, <1>0, <2>1 DEF WriterDrop, ToldInv, Told, Fatal, CtlType
<1>33. CASE WriterFinish
  <2> SUFFICES ASSUME NEW u \in Txns PROVE Told(u)'
    BY DEF ToldInv
  <2>1. Queued(u)' \/ wcmd' = u => Queued(u) \/ wcmd = u
    BY <1>33, QueueSame DEF WriterFinish
  <2> QED
    BY <1>33, <1>0, <2>1 DEF WriterFinish, ToldInv, Told, Fatal, CtlType
<1>34. CASE StartupFails
  BY <1>34, ToldSame DEF StartupFails
<1>35. CASE RequestStop
  <2> SUFFICES ASSUME NEW u \in Txns PROVE Told(u)'
    BY DEF ToldInv
  <2>1. Queued(u)' \/ wcmd' = u => Queued(u) \/ wcmd = u
    BY <1>35, QueueSame DEF RequestStop
  <2> QED
    BY <1>35, <1>0, <2>1 DEF RequestStop, ToldInv, Told, Fatal, CtlType
<1>36. CASE SendShutdown
  <2> SUFFICES ASSUME NEW u \in Txns PROVE Told(u)'
    BY DEF ToldInv
  <2>1. Queued(u)' \/ wcmd' = u => Queued(u) \/ wcmd = u
    BY <1>36, QueueSame, QueueAppend DEF SendShutdown
  <2> QED
    BY <1>36, <1>0, <2>1 DEF SendShutdown, ToldInv, Told, Fatal, CtlType
<1>37. CASE JoinWriter
  BY <1>37, ToldSame DEF JoinWriter
<1>38. CASE JoinTimesOut
  BY <1>38, ToldSame DEF JoinTimesOut
<1>39. ASSUME NEW t \in Txns, DeadlinePasses(t) PROVE ToldInv'
  BY <1>39, ToldSame DEF DeadlinePasses
<1>40. CASE SessionChanges
  BY <1>40, ToldSame DEF SessionChanges
<1>41. CASE InputWorkerLost
  BY <1>41, ToldSame DEF InputWorkerLost
<1>42. CASE GuardianFails
  BY <1>42, ToldSame DEF GuardianFails
<1>43. CASE UNCHANGED vars
  BY <1>43, ToldSame DEF vars
<1> QED
  BY <1>1, <1>2, <1>3, <1>4, <1>5, <1>6, <1>7, <1>8, <1>9, <1>10, <1>11,
     <1>12, <1>13, <1>14, <1>15, <1>16, <1>17, <1>18, <1>19, <1>20, <1>21,
     <1>22, <1>23, <1>24, <1>25, <1>26, <1>27, <1>28, <1>29, <1>30, <1>31,
     <1>32, <1>33, <1>34, <1>35, <1>36, <1>37, <1>38, <1>39, <1>40, <1>41,
     <1>42, <1>43
     DEF Next, ClientStep, PollStep, WriterStep, MainStep


-----------------------------------------------------------------------------
(* The theorems. *)

\* Inv is the conjunction of the parts above, each with the others' help.
LEMMA InvIsInductive == Spec => []Inv
<1>1. Init => Inv
  <2> SUFFICES ASSUME Init PROVE Inv
    OBVIOUS
  <2>1. TypeOK /\ WriterInv
    BY TInvInit DEF TInv, WType, TypeOK
  <2>2. GateInv
    BY DEF Init, GateInv
  <2>3. StartInv
    BY DEF Init, StartInv
  <2>4. PlaceInv
    BY DEF Init, PlaceInv, Place, QueueOnce, Queued, UnsentPcs, WaitPcs
  <2>5. CompletionInv
    BY DEF Init, CompletionInv, Completion, Queued, PollPcs
  <2>6. PollInv /\ OutcomeInv /\ ToldInv
    BY DEF Init, PollInv, OutcomeInv, Outcome, ToldInv, Told, Fatal, Queued
  <2> QED
    BY <2>1, <2>2, <2>3, <2>4, <2>5, <2>6 DEF Inv
<1>2. Inv /\ [Next]_vars => Inv'
  <2> SUFFICES ASSUME Inv, [Next]_vars PROVE Inv'
    OBVIOUS
  <2>1. TInv
    BY DEF Inv, TInv, WType, TypeOK
  <2>2. TypeOK' /\ WriterInv'
    BY <2>1, TInvNext DEF TInv, WType, TypeOK
  <2>3. GateInv' /\ StartInv' /\ PlaceInv'
    BY <2>1, GateInvNext, StartInvNext, PlaceInvNext DEF Inv
  <2>4. CompletionInv' /\ PollInv' /\ OutcomeInv' /\ ToldInv'
    BY <2>1, CompletionInvNext, PollInvNext, OutcomeInvNext, ToldInvNext DEF Inv
  <2> QED
    BY <2>2, <2>3, <2>4 DEF Inv
<1> QED
  BY <1>1, <1>2, PTL DEF Spec

\* The caller and the writer never disagree about how a transaction ended.
THEOREM CallersAgree == Spec => []Agreement
<1>1. Inv => Agreement
  BY DEF Inv, ToldInv, Told, Agreement
<1> QED
  BY InvIsInductive, <1>1, PTL

\* An accepted soft cancellation is never answered with success.
THEOREM CancelsAreHonoured == Spec => []CancelHonoured
<1>1. Inv => CancelHonoured
  BY DEF Inv, OutcomeInv, Outcome, CancelHonoured
<1> QED
  BY InvIsInductive, <1>1, PTL

\* Whoever sees Completed finds the reply or the completion it needs.
THEOREM NoCompletionIsLost == Spec => []NoLostCompletion
<1>1. ASSUME Inv PROVE NoLostCompletion
  <2> SUFFICES ASSUME NEW t \in Txns
               PROVE  /\ result[t] # "mismatch"
                      /\ state[t] = "Completed" /\ cpc[t] # "done" =>
                            IF t \in Sync THEN reply[t] # "none"
                            ELSE held[t] \/ (completions # <<>> /\ Head(completions) = t)
    BY DEF NoLostCompletion
  <2>1. result[t] # "mismatch"
    BY <1>1 DEF Inv, ToldInv, Told
  <2>2. state[t] = "Completed" => reply[t] # "none" /\ cpc[t] # "idle"
    BY <1>1 DEF Inv, OutcomeInv, Outcome, PlaceInv, Place, UnsentPcs
  <2>3. ASSUME t \in Manual, state[t] = "Completed", cpc[t] # "done"
        PROVE  held[t] \/ completions = <<t>>
    BY <1>1, <2>2, <2>3 DEF Inv, CompletionInv, Completion
  <2> QED
    BY <2>1, <2>2, <2>3, Singleton
<1> QED
  BY InvIsInductive, <1>1, PTL

\* Fail-stop: after a fatal answer to any caller no key mutation is authorised.
THEOREM WriterFailsStop == Spec => FailStop
<1>1. ASSUME Inv, [Next]_vars PROVE [NoMutationAfterFailure]_vars
  <2> SUFFICES ASSUME MutationAuthorised
               PROVE  /\ \A t \in Txns : result[t] \notin Fatal
                      /\ wcmd \in Sync => cpc[wcmd] # "done"
    BY DEF NoMutationAfterFailure
  <2>1. \/ WriterFast /\ WGoto("mutate")
        \/ WriterActive /\ WGoto("mutate")
        \/ WriterCleanup /\ WGoto("restore")
    <3>1. wpc' # wpc
      BY DEF MutationAuthorised
    <3>2. WriterStep
      <4>1. ASSUME NEW t \in Sync, ClientStep(t) PROVE wpc' = wpc
        BY <4>1 DEF ClientStep, Start, SendCheck, TrySend, ReadState, ReadStop, ReadFailure, Mark,
           Recv, CheckInputHealth, StopForInputLoss
      <4>2. ASSUME NEW t \in Manual, BeginManual(t) \/ RequestSoftCancel(t) \/ PollStep(t)
            PROVE  wpc' = wpc
        BY <4>2 DEF BeginManual, RequestSoftCancel, PollStep, PollReceive, PollState, PollActive,
           PollRecheck, PollHealth, PollFinal
      <4>3. ASSUME FinishMark \/ SendFast \/ StartupFails \/ MainStep PROVE wpc' = wpc
        BY <4>3 DEF FinishMark, SendFast, StartupFails, MainStep, RequestStop, SendShutdown,
           JoinWriter, JoinTimesOut
      <4>4. ASSUME (\E t \in Txns : DeadlinePasses(t)) \/ SessionChanges \/ InputWorkerLost \/ GuardianFails
            PROVE  wpc' = wpc
        BY <4>4 DEF DeadlinePasses, SessionChanges, InputWorkerLost, GuardianFails
      <4>5. Next BY <1>1, <3>1 DEF vars
      <4> QED BY <3>1, <4>1, <4>2, <4>3, <4>4, <4>5 DEF Next
    <3>3. ASSUME WriterPublish PROVE wpc' \notin {"mutate", "restore"}
      BY <1>1, <3>3, PublishCases DEF Delivers, GivesUp, TimesOut, Inv, TInv, TypeOK, WType
    <3> QED
      BY <3>2, <3>3 DEF MutationAuthorised, WriterStep, WriterStart, WriterSetAlive,
         WriterReady, WriterReceive, WriterCheck, WriterFast, WriterActive, WriterCleanup,
         WriterMutate, WriterCas, WriterDrop, WriterFinish
  <2>2. gate = None /\ ~stopRequested /\ failureId = None /\ wpc \in {"fast", "plan", "cleanup"}
    <3>1. CASE WriterFast /\ WGoto("mutate")
      BY <3>1 DEF WriterFast
    <3>2. CASE WriterActive /\ WGoto("mutate")
      BY <3>2 DEF WriterActive, EnsureActive, Active, ErrorKind
    <3>3. CASE WriterCleanup /\ WGoto("restore")
      BY <3>3 DEF WriterCleanup, CleanupActive
    <3> QED
      BY <2>1, <3>1, <3>2, <3>3
  <2>3. ~Doomed
    BY <1>1, <2>2 DEF Inv, GateInv, Doomed, OverPcs
  <2>4. \A t \in Txns : result[t] \notin Fatal
    BY <1>1, <2>3 DEF Inv, ToldInv, Told
  <2> QED
    BY <1>1, <2>4 DEF Inv, ToldInv, Told
<1> QED
  BY InvIsInductive, <1>1, PTL DEF Spec, FailStop

\* Caller and writer never differ about a transaction: the three results above
\* together, which is what the model checker looks at on a small instance.
THEOREM VerdictsAreOne == Spec => []OneVerdict
BY CallersAgree, CancelsAreHonoured, NoCompletionIsLost, PTL DEF OneVerdict

-----------------------------------------------------------------------------
(* The job of the selected text, whose copy and paste shortcuts are          *)
(* transactions of the writer: its inductive invariant, by parts.            *)

Transactions ==
  [original : Text \cup {Unknown}, owner : Owners \cup {Unknown},
   current : OwnedTexts \cup {Unknown}, pending : OwnedTexts \cup {Unknown},
   known : SUBSET Owners, meaningful : BOOLEAN]
Polls ==
  [elapsed : Nat, text : (Text \ {NoText}) \cup {Unknown}, owner : Owners \cup {Unknown},
   stable : Nat, seen : BOOLEAN]

JobTyped ==
  /\ desktop \in {"x11", "wayland"} /\ clip \in Clips
  /\ selection \in Selections /\ landing \in Seq(Text)
  /\ pc \in {"idle", "begin", "sentinel", "sentinelOwner", "confirm", "copy", "poll", "convert",
             "convertedOwner", "paste", "settle", "rollback", "restore", "finish"}
  /\ tx \in Transactions /\ poll \in Polls
  /\ clean \in BOOLEAN

\* Each job has a sentinel.
JobsCounted ==
  /\ channel \in Nat /\ serial \in Nat /\ jobs \in Nat /\ hotkey \in BOOLEAN
  /\ serial + channel <= jobs /\ jobs <= MaxJobs
  /\ hotkey => serial + channel < jobs
  /\ pc # "idle" => serial > 0

\* Where the transaction is.
Opened == tx.current = Unknown /\ tx.pending = Unknown /\ tx.known = {} /\ ~tx.meaningful
Marking ==
  /\ tx.current = Unknown /\ tx.pending = Owned("Sentinel", Sentinel, Unknown)
  /\ tx.known = {} /\ ~tx.meaningful
Marked ==
  /\ tx.current \in OwnedTexts
  /\ tx.current.kind = "Sentinel" /\ tx.current.text = Sentinel
  /\ tx.pending = Unknown /\ ~tx.meaningful
Taken ==
  /\ tx.current \in OwnedTexts /\ tx.current.kind = "Selected"
  /\ tx.current.text \notin {Sentinel, NoText} /\ tx.meaningful
Chosen == Taken /\ tx.pending = Unknown
Converting ==
  /\ Taken
  /\ tx.pending = Owned("Converted", Convert(tx.current.text), Unknown)
Replaced ==
  /\ tx.current \in OwnedTexts /\ tx.current.kind = "Converted"
  /\ tx.current.text \notin {Sentinel, NoText}
  /\ tx.current.owner # Unknown => tx.current.owner \in tx.known
  /\ tx.pending = Unknown /\ tx.meaningful

TxInOrder ==
  /\ pc \in {"idle", "begin"} => tx = NoTx
  /\ pc = "sentinel" => Opened
  /\ pc = "sentinelOwner" => Marking
  /\ pc \in {"confirm", "copy", "poll"} => Marked
  /\ pc = "convert" => Chosen
  /\ pc = "convertedOwner" => Converting
  /\ pc \in {"paste", "settle"} => Replaced
  /\ pc \in {"rollback", "restore"} => Marking \/ Marked \/ Converting \/ Replaced
  /\ pc = "finish" => tx = NoTx \/ Opened \/ Marking \/ Marked \/ Converting \/ Replaced

LandingInOrder ==
  /\ desktop = "x11" \/ pc \in {"idle", "begin", "sentinel"} => landing = << >>
  /\ pc \in {"sentinelOwner", "confirm", "copy", "poll"} =>
       \A i \in 1..Len(landing) : landing[i] = Sentinel

\* The sentinel of a later job is nowhere.
Ahead == {i \in 1..MaxJobs : serial < i \/ (serial = i /\ pc \in {"begin", "sentinel"})}
SentinelsAreNew ==
  /\ \A i \in Ahead :
       /\ clip.text # Sentinels[i]
       /\ \A n \in 1..Len(landing) : landing[n] # Sentinels[i]
       /\ tx.original # Sentinels[i] /\ poll.text # Sentinels[i]
       /\ tx.current # Unknown => tx.current.text # Sentinels[i]
  /\ pc # "idle" => tx.original # Sentinel /\ poll.text # Sentinel

\* The text of before the job is told from the selection.
OldTextIsTold ==
  tx.original # Unknown =>
    /\ pc \in {"sentinel", "sentinelOwner", "confirm", "copy", "poll"} =>
         clip.text \in {tx.original, Sentinel} \cup since
    /\ pc \in {"sentinelOwner", "confirm", "copy", "poll"} =>
         /\ poll.seen => clip.text \in {Sentinel} \cup since
         /\ poll.text # Unknown =>
              /\ poll.text \in {tx.original} \cup since
              /\ poll.seen => poll.text \in since
    /\ pc = "convert" => tx.current.text \in since

\* When nobody else used the clipboard, it has what the job wrote last.
Asides == tx.meaningful \/ since = {}
CleanIsOurs ==
  desktop = "x11" /\ clean =>
    /\ tx.original # Unknown => tx.owner # Unknown
    /\ pc = "sentinel" /\ tx.original # Unknown => clip.text = tx.original
    /\ tx.current # Unknown =>
         "self" \in tx.known /\ (tx.current.kind # "Selected" => tx.current.owner = "self")
    /\ pc \in {"sentinelOwner", "confirm", "copy"} =>
         clip = Clip(Sentinel, "self") /\ poll.text = Unknown
    /\ pc = "poll" =>
         \/ clip = Clip(Sentinel, "self") /\ poll.text = Unknown
         \/ /\ clip = Clip(selection, "app") /\ since # {}
            /\ poll.text # Unknown => poll.text = selection /\ poll.owner = "app"
    /\ pc = "convert" => tx.current.owner = "app" /\ clip = Clip(tx.current.text, "app")
    /\ pc = "convertedOwner" => clip = Clip(tx.pending.text, "self")
    /\ pc \in {"paste", "settle"} => clip = Clip(tx.current.text, "self")
    /\ pc = "rollback" /\ Asides =>
         /\ Marking => \/ clip = Clip(Sentinel, "self")
                       \/ tx.original # Unknown => clip.text = tx.original
         /\ Marked => clip = Clip(Sentinel, "self")
         /\ Converting => \/ tx.current.owner = "app" /\ clip = Clip(tx.current.text, "app")
                          \/ clip = Clip(tx.pending.text, "self")
         /\ Replaced => clip = Clip(tx.current.text, "self")
    /\ pc = "finish" /\ Asides =>
         /\ tx.original # Unknown => clip.text = tx.original
         /\ clip.text # Sentinel

\* A copy that has to survive is in the clipboard, was taken for the selection or
\* counts as the job's.
Spared(c) == tx.current = Owned("Selected", c.text, c.owner) \/ CountsAsTheJobs(c)
CopiesAreKept ==
  copied # Unknown =>
    /\ copied \in [text : Foreign, owner : {"app", "other"}]
    /\ pc = "restore" => Spared(copied)
    /\ pc = "idle" \/ clip = copied \/ (pc = "finish" /\ Spared(copied))

ClipboardInv ==
  /\ JobTyped /\ JobsCounted /\ TxInOrder /\ LandingInOrder
  /\ SentinelsAreNew /\ OldTextIsTold /\ CleanIsOurs /\ CopiesAreKept

-----------------------------------------------------------------------------
\* A character that is on a key is converted to one that is on a key.
LEMMA CharsStay ==
  ASSUME NEW c \in Characters
  PROVE  /\ EnToRuChar(c) \in Characters /\ RuToEnChar(c) \in Characters
         /\ EnToRuChar(c) = c \/ EnToRuChar(c) \in Chars
         /\ RuToEnChar(c) = c \/ RuToEnChar(c) \in Chars
<1>1. ASSUME c \in Us PROVE (CHOOSE k \in KeyTable : k[1] = c) \in KeyTable
  BY <1>1 DEF Us
<1>2. ASSUME c \in Ru PROVE (CHOOSE k \in KeyTable : k[2] = c) \in KeyTable
  BY <1>2 DEF Ru
<1>3. \A k \in KeyTable : k[1] \in Chars /\ k[2] \in Chars BY DEF Chars, Us, Ru
<1> QED BY TextsAssumption, <1>1, <1>2, <1>3 DEF EnToRuChar, RuToEnChar

\* A conversion keeps the length, and what it changes it changes to a
\* character of a key.
LEMMA ConversionKeepsNames ==
  ASSUME NEW t \in Text
  PROVE  /\ Convert(t) \in Text
         /\ \A u \in Text : Len(u) = 1 /\ u[1] \notin Chars /\ Convert(t) = u => t = u
<1>1. ASSUME NEW i \in 1..Len(t)
      PROVE  Convert(t)[i] \in Characters /\ (Convert(t)[i] = t[i] \/ Convert(t)[i] \in Chars)
  <2>1. t[i] \in Characters BY DEF Text
  <2>2. Convert(t)[i] \in {t[i], EnToRuChar(t[i]), RuToEnChar(t[i])} BY DEF Convert
  <2> QED BY <2>1, <2>2, CharsStay
<1>2. Len(t) \in Nat /\ DOMAIN Convert(t) = 1..Len(t) BY DEF Text, Convert
<1>3. Convert(t) \in [1..Len(t) -> Characters] BY <1>1, <1>2 DEF Convert
<1>4. Convert(t) \in Text /\ Len(Convert(t)) = Len(t) BY <1>2, <1>3 DEF Text
<1>5. ASSUME NEW u \in Text, Len(u) = 1, u[1] \notin Chars, Convert(t) = u
      PROVE  t = u
  <2>1. Len(t) = 1 BY <1>4, <1>5
  <2>2. 1 \in 1..Len(t) BY <2>1
  <2>3. t[1] = u[1] BY <1>1, <1>5, <2>2
  <2> QED BY <1>5, <2>1, <2>3 DEF Text
<1> QED BY <1>4, <1>5

\* The replacement is a text, and no job's sentinel.
LEMMA ConversionIsMeant ==
  ASSUME NEW t \in Text, t # NoText
  PROVE  /\ Convert(t) \in Text /\ Convert(t) # NoText
         /\ \A i \in 1..MaxJobs : t # Sentinels[i] => Convert(t) # Sentinels[i]
<1>1. Convert(t) \in Text
      /\ \A u \in Text : Len(u) = 1 /\ u[1] \notin Chars /\ Convert(t) = u => t = u
  BY ConversionKeepsNames
<1>2. \A i \in 1..MaxJobs : Sentinels[i] \in Text /\ Len(Sentinels[i]) = 1
                            /\ Sentinels[i][1] \notin Chars
  BY TextsAssumption
<1>3. Len(NoText) = 1 /\ NoText[1] = "not a text" /\ NoText \in Text
  BY TextsAssumption DEF NoText
<1>4. ASSUME NEW k \in KeyTable PROVE k[1] # "not a text" /\ k[2] # "not a text"
  <2>1. ASSUME NEW a, NEW b, k = <<a, b>>, a # "not a text", b # "not a text"
        PROVE  k[1] # "not a text" /\ k[2] # "not a text"
    BY <2>1
  <2> QED BY <2>1 DEF KeyTable
<1>5. "not a text" \notin Chars BY <1>4 DEF Chars, Us, Ru
<1> QED BY <1>1, <1>2, <1>3, <1>5

\* None of the sentinels is a text of anybody else.
LEMMA SentinelsAreOwn ==
  ASSUME JobsCounted, pc # "idle"
  PROVE  /\ serial \in 1..MaxJobs /\ Sentinel \in Text
         /\ Len(Sentinel) = 1 /\ Sentinel[1] \notin Chars
         /\ Sentinel \notin Selections \cup Foreign \cup {Original, NoText}
BY TextsAssumption DEF JobsCounted, Sentinel

\* The invariant is about these variables, besides the count of the jobs.
jobState == <<desktop, clip, landing, selection, pc, tx, poll, serial, copied, since, clean>>
LEMMA InvIsOfJobState ==
  ASSUME ClipboardInv, UNCHANGED jobState, JobsCounted'
  PROVE  ClipboardInv'
<1> USE DEF jobState, ClipboardInv
<1>1. Sentinel' = Sentinel /\ Ahead' = Ahead BY DEF Sentinel, Ahead
<1>2. /\ Opened' = Opened /\ Marking' = Marking /\ Marked' = Marked /\ Chosen' = Chosen
      /\ Converting' = Converting /\ Replaced' = Replaced /\ Asides' = Asides
  BY <1>1 DEF Opened, Marking, Marked, Chosen, Taken, Converting, Replaced, Asides
<1>3. JobTyped' BY DEF JobTyped
<1>4. TxInOrder' BY <1>2 DEF TxInOrder
<1>5. LandingInOrder' BY <1>1 DEF LandingInOrder
<1>6. SentinelsAreNew' BY <1>1 DEF SentinelsAreNew
<1>7. OldTextIsTold' BY <1>1 DEF OldTextIsTold
<1>8. CleanIsOurs' BY <1>1, <1>2 DEF CleanIsOurs
<1>9. CopiesAreKept' BY DEF CopiesAreKept, Spared, CountsAsTheJobs
<1> QED BY <1>3, <1>4, <1>5, <1>6, <1>7, <1>8, <1>9

\* A press of the hotkey is counted once, with the job it is going to make.
LEMMA HotkeyIsRight == ASSUME ClipboardInv, HotkeyPressed PROVE ClipboardInv'
<1>1. JobsCounted' BY TextsAssumption DEF ClipboardInv, JobsCounted, HotkeyPressed
<1> QED BY <1>1, InvIsOfJobState DEF HotkeyPressed, jobState, worldVars, ghostVars

\* try_start queues a job at most once, and turns the hotkey down otherwise.
LEMMA RunPendingIsRight == ASSUME ClipboardInv, RunPendingSwitch PROVE ClipboardInv'
<1>1. /\ hotkey /\ hotkey' = FALSE /\ channel' \in {channel, channel + 1}
      /\ serial' = serial /\ jobs' = jobs /\ pc' = pc
  BY DEF RunPendingSwitch, TryStart
<1>2. JobsCounted'
  <2>1. /\ channel \in Nat /\ channel + 1 \in Nat
        /\ serial + channel <= jobs /\ serial + (channel + 1) <= jobs
    BY <1>1 DEF ClipboardInv, JobsCounted
  <2>2. channel' \in Nat /\ serial' + channel' <= jobs'
    <3>1. CASE channel' = channel BY <1>1, <2>1, <3>1
    <3>2. CASE channel' = channel + 1 BY <1>1, <2>1, <3>2
    <3> QED BY <1>1, <3>1, <3>2
  <2> QED BY <1>1, <2>2 DEF ClipboardInv, JobsCounted
<1> QED BY <1>2, InvIsOfJobState DEF RunPendingSwitch, jobState, worldVars, ghostVars

\* A paste changes nothing the job knows.
LEMMA AppPastesIsRight == ASSUME ClipboardInv, AppPastes PROVE ClipboardInv'
<1>1. JobsCounted' BY DEF ClipboardInv, JobsCounted, AppPastes, runnerVars
<1> QED BY <1>1, InvIsOfJobState DEF AppPastes, jobState, runnerVars

\* The sentinel of a job is the first thing that is new in it.
LEMMA JobStartsIsRight == ASSUME ClipboardInv, JobStarts PROVE ClipboardInv'
<1> USE DEF ClipboardInv
<1>1. /\ pc = "idle" /\ pc' \in {"begin", "finish"} /\ serial' = serial + 1
      /\ UNCHANGED <<desktop, clip, landing, selection, tx, poll>>
      /\ since' = {} /\ clean' = TRUE /\ copied' = Unknown
  BY DEF JobStarts, worldVars
<1>2. JobsCounted' BY <1>1 DEF JobsCounted, JobStarts
<1>3. JobTyped' BY <1>1 DEF JobTyped
<1>4. tx = NoTx /\ tx' = NoTx /\ landing = << >> /\ landing' = << >>
  BY <1>1 DEF TxInOrder, LandingInOrder
<1>5. TxInOrder' BY <1>1, <1>4 DEF TxInOrder
<1>6. LandingInOrder' BY <1>1, <1>4 DEF LandingInOrder
<1>7. serial' \in 1..MaxJobs /\ serial' \in Ahead /\ Ahead' \subseteq Ahead
  <2>1. serial \in Nat /\ MaxJobs \in Nat BY TextsAssumption DEF JobsCounted
  <2>2. channel \in Nat /\ channel > 0 /\ jobs \in Nat /\ serial + channel <= jobs /\ jobs <= MaxJobs
    BY DEF JobsCounted, JobStarts
  <2>3. serial + 1 \in 1..MaxJobs BY <2>1, <2>2
  <2>4. serial' \in Ahead BY <1>1, <2>1, <2>3 DEF Ahead
  <2>5. ASSUME NEW i \in Ahead' PROVE i \in Ahead BY <1>1, <2>1, <2>5 DEF Ahead
  <2> QED BY <1>1, <2>3, <2>4, <2>5
<1>8. clip'.text # Sentinel' BY <1>1, <1>7 DEF SentinelsAreNew, Sentinel
<1>9. tx'.original = Unknown /\ tx'.current = Unknown /\ ~tx'.meaningful BY <1>4 DEF NoTx
<1>10. Sentinel' \in Text BY <1>7, TextsAssumption DEF Sentinel
<1>11. SentinelsAreNew'
  BY <1>1, <1>7, <1>9, <1>10, UnknownAssumption DEF SentinelsAreNew, Sentinel
<1>12. OldTextIsTold' BY <1>9 DEF OldTextIsTold
<1>13. CleanIsOurs' BY <1>1, <1>8, <1>9 DEF CleanIsOurs
<1>14. CopiesAreKept' BY <1>1 DEF CopiesAreKept
<1> QED BY <1>2, <1>3, <1>5, <1>6, <1>11, <1>12, <1>13, <1>14

\* The end of a job leaves no transaction.
LEMMA JobEndsIsRight == ASSUME ClipboardInv, JobEnds PROVE ClipboardInv'
<1> USE DEF ClipboardInv
<1>1. /\ pc = "finish" /\ pc' = "idle" /\ landing = << >> /\ tx' = NoTx /\ poll' = NoPoll
      /\ UNCHANGED <<desktop, clip, landing, selection, serial, since, clean, copied>>
  BY DEF JobEnds, worldVars, ghostVars
<1>2. JobsCounted' BY <1>1 DEF JobsCounted, JobEnds
<1>3. NoTx \in Transactions /\ NoPoll \in Polls
  BY DEF NoTx, NoPoll, Transactions, Polls
<1>4. JobTyped' BY <1>1, <1>3 DEF JobTyped
<1>5. TxInOrder' BY <1>1 DEF TxInOrder
<1>6. LandingInOrder' BY <1>1 DEF LandingInOrder
<1>7. tx'.original = Unknown /\ tx'.current = Unknown /\ poll'.text = Unknown
  BY <1>1 DEF NoTx, NoPoll
<1>8. Ahead' = Ahead BY <1>1 DEF Ahead
<1>9. \A i \in Ahead : Sentinels[i] # Unknown BY TextsAssumption, UnknownAssumption DEF Ahead
<1>10. SentinelsAreNew' BY <1>1, <1>7, <1>8, <1>9 DEF SentinelsAreNew
<1>11. OldTextIsTold' BY <1>7 DEF OldTextIsTold
<1>12. CleanIsOurs' BY <1>1, <1>7 DEF CleanIsOurs
<1>13. CopiesAreKept' BY <1>1 DEF CopiesAreKept
<1> QED BY <1>2, <1>4, <1>5, <1>6, <1>10, <1>11, <1>12, <1>13

\* The places and shapes of a transaction do not depend on the clipboard.
LEMMA ShapesStay ==
  ASSUME UNCHANGED <<desktop, tx, serial>>
  PROVE  /\ Sentinel' = Sentinel
         /\ Opened' = Opened /\ Marking' = Marking /\ Marked' = Marked /\ Chosen' = Chosen
         /\ Converting' = Converting /\ Replaced' = Replaced
         /\ pc' = pc => Ahead' = Ahead /\ TxInOrder' = TxInOrder
<1>1. Sentinel' = Sentinel BY DEF Sentinel
<1>2. pc' = pc => Ahead' = Ahead BY DEF Ahead
<1> QED BY <1>1, <1>2 DEF Opened, Marking, Marked, Chosen, Taken, Converting, Replaced, TxInOrder

\* The job stands still while somebody else copies.
LEMMA CopiesAreRight ==
  ASSUME ClipboardInv, UNCHANGED <<desktop, landing, selection, pc, tx, poll, runnerVars>>,
         clip' \in Clips, clip'.text \in Selections \cup Foreign,
         since' = since \cup {clip'.text}, clean' \in BOOLEAN, CleanIsOurs', CopiesAreKept'
  PROVE  ClipboardInv'
<1> USE DEF ClipboardInv
<1>1. serial' = serial BY DEF runnerVars
<1>2. Sentinel' = Sentinel /\ Ahead' = Ahead /\ TxInOrder' BY <1>1, ShapesStay
<1>3. JobTyped' BY DEF JobTyped
<1>4. JobsCounted' BY DEF JobsCounted, runnerVars
<1>5. LandingInOrder' BY <1>2 DEF LandingInOrder
<1>6. \A i \in Ahead : clip'.text # Sentinels[i] BY TextsAssumption DEF Ahead
<1>7. SentinelsAreNew' BY <1>2, <1>6 DEF SentinelsAreNew
<1>8. OldTextIsTold' BY <1>2 DEF OldTextIsTold
<1> QED BY <1>2, <1>3, <1>4, <1>5, <1>7, <1>8

\* A copy of somebody else makes the job unclean and has to survive it.
LEMMA ForeignCopyIsRight ==
  ASSUME ClipboardInv, NEW o \in {"app", "other"}, NEW t \in Foreign, ForeignCopy(o, t)
  PROVE  ClipboardInv'
<1>1. /\ clip' = Clip(t, o) /\ since' = since \cup {t} /\ clean' = FALSE
      /\ UNCHANGED <<desktop, landing, selection, pc, tx, poll, runnerVars>>
      /\ copied' = Unknown \/ copied' = Clip(t, o)
      /\ pc = "restore" => copied' = Unknown
  BY DEF ForeignCopy, CopyBy
<1>2. clip' \in Clips /\ clip'.text = t
  BY <1>1, TextsAssumption DEF Clip, Clips, Owners
<1>3. CleanIsOurs' BY <1>1 DEF CleanIsOurs
<1>4. CopiesAreKept' BY <1>1 DEF CopiesAreKept, Clip
<1> QED BY <1>1, <1>2, <1>3, <1>4, CopiesAreRight

\* The answer to the copy shortcut counts as the job's while the job polls.
LEMMA AppCopiesIsRight == ASSUME ClipboardInv, AppCopies PROVE ClipboardInv'
<1> USE DEF ClipboardInv
<1>1. CASE selection = << >>
  <2>1. JobsCounted' BY DEF JobsCounted, AppCopies, runnerVars
  <2> QED BY <1>1, <2>1, InvIsOfJobState DEF AppCopies, jobState, runnerVars
<1>2. CASE selection # << >>
  <2>1. /\ clip' = Clip(selection, "app") /\ since' = since \cup {selection}
        /\ clean' = (clean /\ pc = "poll") /\ copied' = Unknown
        /\ UNCHANGED <<desktop, landing, selection, pc, tx, poll, runnerVars>>
    BY <1>2 DEF AppCopies
  <2>2. clip' \in Clips /\ clip'.text = selection /\ selection \in Selections
    BY <2>1, TextsAssumption DEF Clip, Clips, Owners, JobTyped
  <2>3. CleanIsOurs' BY <2>1 DEF CleanIsOurs
  <2>4. CopiesAreKept' BY <2>1 DEF CopiesAreKept
  <2>5. clean' \in BOOLEAN BY <2>1
  <2> QED BY <2>1, <2>2, <2>3, <2>4, <2>5, CopiesAreRight
<1> QED BY <1>1, <1>2

\* Only under Wayland does a write land late; while the job polls it can be no
\* other text than its sentinel.
LEMMA WriteLandsIsRight == ASSUME ClipboardInv, WriteLands PROVE ClipboardInv'
<1> USE DEF ClipboardInv
<1>1. /\ landing # << >> /\ clip' = Clip(Head(landing), "self") /\ landing' = Tail(landing)
      /\ copied' = Unknown
      /\ UNCHANGED <<desktop, selection, since, clean, pc, tx, poll, runnerVars>>
  BY DEF WriteLands
<1>2. landing \in Seq(Text) /\ Head(landing) = landing[1] /\ 1 \in 1..Len(landing)
  BY <1>1 DEF JobTyped
<1>3. /\ landing' \in Seq(Text) /\ Head(landing) \in Text
      /\ \A i \in 1..Len(landing') : i + 1 \in 1..Len(landing) /\ landing'[i] = landing[i + 1]
  BY <1>1, <1>2
<1>4. clip' \in Clips /\ clip'.text = landing[1]
  BY <1>1, <1>2, <1>3 DEF Clip, Clips, Owners
<1>5. Sentinel' = Sentinel /\ Ahead' = Ahead /\ TxInOrder' /\ serial' = serial
  BY <1>1, ShapesStay DEF runnerVars
<1>6. desktop # "x11" /\ pc \notin {"idle", "begin", "sentinel"}
  BY <1>1 DEF LandingInOrder
<1>7. JobTyped' BY <1>1, <1>3, <1>4 DEF JobTyped
<1>8. JobsCounted' BY <1>1 DEF JobsCounted, runnerVars
<1>9. LandingInOrder' BY <1>1, <1>3, <1>5, <1>6 DEF LandingInOrder
<1>10. SentinelsAreNew' BY <1>1, <1>2, <1>3, <1>4, <1>5 DEF SentinelsAreNew
<1>11. pc \in {"sentinelOwner", "confirm", "copy", "poll"} => clip'.text = Sentinel
  BY <1>2, <1>4 DEF LandingInOrder
<1>12. OldTextIsTold' BY <1>1, <1>5, <1>6, <1>11 DEF OldTextIsTold
<1>13. CleanIsOurs' BY <1>1, <1>6 DEF CleanIsOurs
<1>14. CopiesAreKept' BY <1>1 DEF CopiesAreKept
<1> QED BY <1>5, <1>7, <1>8, <1>9, <1>10, <1>12, <1>13, <1>14

\* What a read of the clipboard may find, and what becomes of the clipboard.
ReadsIt(t, o) ==
  /\ UNCHANGED <<clip, since, clean, copied>>
  /\ t = (IF clip.text = NoText THEN Unknown ELSE clip.text) /\ o = OwnerToken
ReadFails(t, o) ==
  /\ UNCHANGED <<clip, since, copied>>
  /\ t \in {Unknown} \cup ({clip.text} \ {NoText}) /\ o \in {Unknown, OwnerToken}
  /\ t = Unknown \/ o = Unknown
  /\ clean' \in BOOLEAN
  /\ clean' => clean /\ pc # "rollback" /\ t = Unknown /\ o = OwnerToken
CopyInTheRead(t, o) ==
  \E by \in {"app", "other"}, new \in Foreign :
    /\ clip' = Clip(new, by) /\ since' = since \cup {new} /\ clean' = FALSE
    /\ copied' = IF pc = "restore" \/ (pc = "rollback" /\ tx.current = Unknown)
                 THEN Unknown ELSE Clip(new, by)
    /\ t \in {new, clip.text} /\ o = Unknown

LEMMA WhatAReadFinds ==
  ASSUME JobTyped, NEW t, NEW o, Observe(t, o)
  PROVE  /\ ReadsIt(t, o) \/ ReadFails(t, o) \/ CopyInTheRead(t, o)
         /\ t \in (Text \ {NoText}) \cup {Unknown} /\ o \in Owners \cup {Unknown}
         /\ clip' \in Clips /\ clip'.text \in {clip.text} \cup Foreign
         /\ clip'.text \in {clip.text} \cup since' /\ since \subseteq since'
         /\ clean' \in BOOLEAN /\ (clean' => clean)
<1>1. clip \in Clips /\ clip.text \in Text /\ clip.owner \in Owners
  BY DEF JobTyped, Clips
<1>2. \A new \in Foreign : new \in Text /\ new # NoText BY TextsAssumption
<1>3. Unknown # NoText /\ Unknown \notin Text BY TextsAssumption, UnknownAssumption
<1>4. OwnerToken \in Owners \cup {Unknown} BY <1>1 DEF OwnerToken
<1>5. CASE ReadsIt(t, o)
  BY <1>1, <1>3, <1>4, <1>5 DEF ReadsIt, JobTyped
<1>6. CASE ReadFails(t, o)
  BY <1>1, <1>3, <1>4, <1>6 DEF ReadFails
<1>8. CASE Fault /\ UNCHANGED <<clip, since, copied, copies>>
           /\ \/ t = Unknown /\ o = OwnerToken /\ clean' = (clean /\ pc # "rollback")
              \/ /\ t = (IF clip.text = NoText THEN Unknown ELSE clip.text) /\ o = Unknown
                 /\ OwnerToken # Unknown /\ clean' = FALSE
  <2>1. clean \in BOOLEAN BY DEF JobTyped
  <2>2. CASE t = Unknown /\ o = OwnerToken /\ clean' = (clean /\ pc # "rollback")
    <3>1. clean' \in BOOLEAN /\ (clean' => clean /\ pc # "rollback") BY <2>1, <2>2
    <3>2. ReadFails(t, o) BY <1>8, <2>2, <3>1 DEF ReadFails
    <3> QED BY <1>6, <3>2
  <2>3. CASE t = (IF clip.text = NoText THEN Unknown ELSE clip.text) /\ o = Unknown
             /\ clean' = FALSE
    <3>1. t \in {Unknown} \cup ({clip.text} \ {NoText}) BY <2>3
    <3>2. ReadFails(t, o) BY <1>8, <2>3, <3>1 DEF ReadFails
    <3> QED BY <1>6, <3>2
  <2> QED BY <1>8, <2>2, <2>3
<1>7. CASE \E by \in {"app", "other"} \ {clip.owner}, new \in Foreign :
             CopyBy(by, new) /\ t \in {new, clip.text} \ {NoText} /\ o = Unknown
  <2>1. PICK by \in {"app", "other"}, new \in Foreign :
          CopyBy(by, new) /\ t \in {new, clip.text} \ {NoText} /\ o = Unknown
    BY <1>7
  <2>2. CopyInTheRead(t, o) BY <2>1 DEF CopyBy, CopyInTheRead
  <2>3. clip' = Clip(new, by) /\ since' = since \cup {new} /\ clean' = FALSE
    BY <2>1 DEF CopyBy
  <2>4. clip' \in Clips /\ clip'.text = new BY <1>2, <2>3 DEF Clip, Clips, Owners
  <2>5. t \in Text \ {NoText} BY <1>1, <1>2, <2>1
  <2> QED BY <1>3, <2>1, <2>2, <2>3, <2>4, <2>5
<1> QED BY <1>5, <1>7, <1>8 DEF Observe, ReadsIt

\* begin reads the user's text, which is no sentinel.
LEMMA BeginIsRight == ASSUME ClipboardInv, Begin PROVE ClipboardInv'
<1> USE DEF ClipboardInv
<1>1. PICK t, o : Observe(t, o) /\ tx' = [NoTx EXCEPT !.original = t, !.owner = o]
  BY DEF Begin
<1>2. /\ pc = "begin" /\ pc' = "sentinel"
      /\ UNCHANGED <<desktop, landing, selection, poll, runnerVars>>
  BY DEF Begin
<1>3. /\ t \in Text \cup {Unknown} /\ o \in Owners \cup {Unknown}
      /\ clip' \in Clips /\ clip'.text \in {clip.text} \cup Foreign
      /\ clean' \in BOOLEAN
  BY <1>1, WhatAReadFinds
<1>4. ReadsIt(t, o) \/ ReadFails(t, o) \/ CopyInTheRead(t, o) BY <1>1, WhatAReadFinds
<1>5. /\ tx' \in Transactions /\ tx'.original = t /\ tx'.owner = o
      /\ tx'.current = Unknown /\ tx'.pending = Unknown /\ tx'.known = {} /\ ~tx'.meaningful
  BY <1>1, <1>3 DEF NoTx, Transactions
<1>6. JobTyped' BY <1>2, <1>3, <1>5 DEF JobTyped
<1>7. JobsCounted' BY <1>2 DEF JobsCounted, runnerVars
<1>8. TxInOrder' BY <1>2, <1>5 DEF TxInOrder, Opened
<1>9. LandingInOrder' BY <1>2 DEF LandingInOrder
<1>10. /\ serial' = serial /\ Ahead' = Ahead /\ Sentinel' = Sentinel
       /\ serial \in Ahead /\ serial \in 1..MaxJobs /\ Sentinel = Sentinels[serial]
  BY <1>2, SentinelsAreOwn DEF Ahead, Sentinel, runnerVars
<1>11. t \in {clip.text, Unknown} \cup Foreign
  BY <1>4 DEF ReadsIt, ReadFails, CopyInTheRead
<1>12. \A i \in Ahead : /\ Sentinels[i] # Unknown /\ Sentinels[i] \notin Foreign
                        /\ Sentinels[i] # clip.text
  BY TextsAssumption, UnknownAssumption DEF Ahead, SentinelsAreNew
<1>13. \A i \in Ahead : clip'.text # Sentinels[i] /\ t # Sentinels[i]
  BY <1>3, <1>11, <1>12
<1>14. SentinelsAreNew' BY <1>2, <1>5, <1>10, <1>13 DEF SentinelsAreNew
<1>15. CASE ReadsIt(t, o)
  <2>1. OldTextIsTold' BY <1>2, <1>5, <1>15 DEF ReadsIt, OldTextIsTold
  <2>2. CleanIsOurs'
    BY <1>2, <1>5, <1>15, UnknownAssumption
    DEF ReadsIt, CleanIsOurs, OwnerToken, JobTyped, Clips
  <2>3. CopiesAreKept' BY <1>2, <1>15 DEF ReadsIt, CopiesAreKept
  <2> QED BY <1>6, <1>7, <1>8, <1>9, <1>14, <2>1, <2>2, <2>3
<1>16. CASE ReadFails(t, o)
  <2>1. OldTextIsTold' BY <1>2, <1>5, <1>16 DEF ReadFails, OldTextIsTold
  <2>2. clean' => tx'.original = Unknown BY <1>5, <1>16 DEF ReadFails
  <2>3. CleanIsOurs' BY <1>2, <1>5, <2>2 DEF CleanIsOurs
  <2>4. CopiesAreKept' BY <1>2, <1>16 DEF ReadFails, CopiesAreKept
  <2> QED BY <1>6, <1>7, <1>8, <1>9, <1>14, <2>1, <2>3, <2>4
<1>17. CASE CopyInTheRead(t, o)
  <2>1. PICK by \in {"app", "other"}, new \in Foreign :
          clip' = Clip(new, by) /\ since' = since \cup {new} /\ clean' = FALSE
          /\ copied' = Clip(new, by)
    BY <1>2, <1>17 DEF CopyInTheRead
  <2>2. OldTextIsTold' BY <1>2, <2>1 DEF OldTextIsTold, Clip
  <2>3. CleanIsOurs' BY <2>1 DEF CleanIsOurs
  <2>4. CopiesAreKept' BY <1>2, <2>1 DEF CopiesAreKept, Clip
  <2> QED BY <1>6, <1>7, <1>8, <1>9, <1>14, <2>2, <2>3, <2>4
<1> QED BY <1>4, <1>15, <1>16, <1>17

\* What a write does: the text is in the clipboard or on its way there, if the
\* write did not fail, and the transaction knows what it meant to write.
Intended(kind, t) ==
  /\ tx'.current = tx.current /\ tx'.pending = Owned(kind, t, Unknown)
  /\ tx'.known = tx.known

LEMMA WhatAWriteDoes ==
  ASSUME JobTyped, NEW kind \in {"Sentinel", "Converted"}, NEW t \in Text, NEW next,
         WriteOperationText(kind, t, next)
  PROVE  /\ \/ pc' = next /\ (desktop = "x11" => clip' = Clip(t, "self"))
            \/ pc' = "rollback"
         /\ Intended(kind, t)
         /\ tx' \in Transactions /\ clip' \in Clips /\ landing' \in Seq(Text)
         /\ tx'.original = tx.original /\ tx'.owner = tx.owner
         /\ tx'.meaningful = (tx.meaningful \/ kind # "Sentinel")
         /\ \/ clip' = clip /\ copied' = copied
            \/ clip' = Clip(t, "self") /\ copied' = Unknown
         /\ desktop = "x11" => landing' = landing
         /\ \A n \in 1..Len(landing') :
              landing'[n] = t \/ (n \in 1..Len(landing) /\ landing'[n] = landing[n])
<1> DEFINE intended == [tx EXCEPT !.pending = Owned(kind, t, Unknown),
                                  !.meaningful = @ \/ kind # "Sentinel"]
           lands == IF desktop = "x11"
                    THEN clip' = Clip(t, "self") /\ UNCHANGED landing
                    ELSE landing' = Append(landing, t) /\ UNCHANGED clip
<1>1. /\ tx' = intended
      /\ \/ lands /\ pc' = next
         \/ (lands \/ UNCHANGED <<clip, landing>>) /\ pc' = "rollback"
      /\ copied' = IF clip' # clip THEN Unknown ELSE copied
  BY DEF WriteOperationText
<1>2. tx \in Transactions /\ clip \in Clips /\ landing \in Seq(Text) BY DEF JobTyped
<1>3. Owned(kind, t, Unknown) \in OwnedTexts BY DEF Owned, OwnedTexts
<1>4. (tx.meaningful \/ kind # "Sentinel") \in BOOLEAN OBVIOUS
<1>5. /\ intended \in Transactions /\ intended.original = tx.original
      /\ intended.owner = tx.owner /\ intended.current = tx.current
      /\ intended.pending = Owned(kind, t, Unknown) /\ intended.known = tx.known
      /\ intended.meaningful = (tx.meaningful \/ kind # "Sentinel")
  BY <1>2, <1>3, <1>4 DEF Transactions
<1>6. /\ Clip(t, "self") \in Clips /\ Append(landing, t) \in Seq(Text)
      /\ \A n \in 1..Len(Append(landing, t)) :
           Append(landing, t)[n] = t \/ (n \in 1..Len(landing) /\ Append(landing, t)[n] = landing[n])
  BY <1>2 DEF Clip, Clips, Owners
<1> HIDE DEF intended
<1>7. lands \/ UNCHANGED <<clip, landing>> BY <1>1
<1>8. /\ clip' \in Clips /\ landing' \in Seq(Text)
      /\ desktop = "x11" => landing' = landing
      /\ clip' = clip \/ clip' = Clip(t, "self")
      /\ \A n \in 1..Len(landing') :
             landing'[n] = t \/ (n \in 1..Len(landing) /\ landing'[n] = landing[n])
  BY <1>2, <1>6, <1>7
<1>9. \/ clip' = clip /\ copied' = copied
      \/ clip' = Clip(t, "self") /\ copied' = Unknown
  BY <1>1, <1>8
<1>10. \/ pc' = next /\ (desktop = "x11" => clip' = Clip(t, "self"))
       \/ pc' = "rollback"
  BY <1>1
<1>11. Intended(kind, t) BY <1>1, <1>5 DEF Intended
<1>12. /\ tx' \in Transactions /\ tx'.original = tx.original /\ tx'.owner = tx.owner
       /\ tx'.meaningful = (tx.meaningful \/ kind # "Sentinel")
  BY <1>1, <1>5
<1> HIDE DEF lands
<1> QED BY <1>8, <1>9, <1>10, <1>11, <1>12

\* What the transaction notes of a text it wrote or took.
LEMMA OwnedAreKnown ==
  ASSUME NEW kind \in {"Sentinel", "Selected", "Converted"}, NEW t \in Text,
         NEW o \in Owners \cup {Unknown}
  PROVE  /\ Owned(kind, t, o) \in OwnedTexts /\ Owned(kind, t, o) # Unknown
         /\ Owned(kind, t, o).kind = kind /\ Owned(kind, t, o).text = t
         /\ Owned(kind, t, o).owner = o
BY UnknownAssumption DEF Owned, OwnedTexts

\* A transaction has one shape at a time.
LEMMA ShapesDiffer ==
  /\ Marking => ~Marked /\ ~Converting /\ ~Replaced
  /\ Marked => ~Marking /\ ~Converting /\ ~Replaced
  /\ Replaced => ~Marking /\ ~Marked /\ ~Converting
  /\ Converting => ~Marking /\ ~Marked /\ ~Replaced
BY UnknownAssumption DEF Marked, Marking, Converting, Taken, Replaced

\* The write of the sentinel is intended, whether or not it failed.
LEMMA WriteSentinelIsRight == ASSUME ClipboardInv, WriteSentinel PROVE ClipboardInv'
<1> USE DEF ClipboardInv
<1>1. /\ pc = "sentinel" /\ WriteOperationText("Sentinel", Sentinel, "sentinelOwner")
      /\ poll' = NoPoll /\ UNCHANGED <<desktop, selection, runnerVars, since, clean>>
  BY DEF WriteSentinel
<1>2. /\ serial \in 1..MaxJobs /\ Sentinel \in Text /\ Sentinel = Sentinels[serial]
  BY <1>1, SentinelsAreOwn DEF Sentinel
<1>3. Sentinel # Unknown BY <1>2, UnknownAssumption
<1>4. /\ \/ pc' = "sentinelOwner" /\ (desktop = "x11" => clip' = Clip(Sentinel, "self"))
         \/ pc' = "rollback"
      /\ Intended("Sentinel", Sentinel)
      /\ tx' \in Transactions /\ clip' \in Clips /\ landing' \in Seq(Text)
      /\ tx'.original = tx.original /\ tx'.owner = tx.owner
      /\ tx'.meaningful = tx.meaningful
      /\ \/ clip' = clip /\ copied' = copied
         \/ clip' = Clip(Sentinel, "self") /\ copied' = Unknown
      /\ desktop = "x11" => landing' = landing
      /\ \A n \in 1..Len(landing') :
           landing'[n] = Sentinel \/ (n \in 1..Len(landing) /\ landing'[n] = landing[n])
  BY <1>1, <1>2, WhatAWriteDoes DEF JobTyped, Transactions
<1>5. Opened /\ landing = << >> BY <1>1 DEF TxInOrder, LandingInOrder
<1>6. serial' = serial /\ Sentinel' = Sentinel BY <1>1 DEF runnerVars, Sentinel
<1>7. NoPoll \in Polls /\ NoPoll.text = Unknown /\ NoPoll.seen = FALSE
  BY DEF NoPoll, Polls
<1>8. JobTyped' BY <1>1, <1>4, <1>7 DEF JobTyped
<1>9. JobsCounted' BY <1>1, <1>4 DEF JobsCounted, runnerVars
<1>10. Marking' /\ tx'.current = Unknown
  BY <1>4, <1>5, <1>6 DEF Intended, Opened, Marking
<1>11. TxInOrder' BY <1>4, <1>10 DEF TxInOrder
<1>12. \A n \in 1..Len(landing') : landing'[n] = Sentinel BY <1>4, <1>5
<1>13. LandingInOrder' BY <1>1, <1>4, <1>5, <1>6, <1>12 DEF LandingInOrder
<1>14. ASSUME NEW i \in Ahead'
       PROVE  i \in Ahead /\ Sentinels[i] # Sentinel /\ Sentinels[i] # Unknown
  <2>1. i \in 1..MaxJobs /\ serial < i BY <1>4, <1>6 DEF Ahead
  <2> QED BY <1>2, <2>1, TextsAssumption, UnknownAssumption DEF Ahead, JobsCounted
<1>16. clip'.text \in {clip.text, Sentinel} BY <1>4 DEF Clip
<1>17. SentinelsAreNew'
  BY <1>1, <1>4, <1>6, <1>7, <1>10, <1>12, <1>14, <1>16, <1>3 DEF SentinelsAreNew
<1>18. OldTextIsTold' BY <1>1, <1>4, <1>6, <1>7, <1>16 DEF OldTextIsTold
<1>19. CleanIsOurs'
  <2> SUFFICES ASSUME desktop = "x11", clean PROVE CleanIsOurs' BY <1>1 DEF CleanIsOurs
  <2>1. /\ tx'.original # Unknown => tx'.owner # Unknown
        /\ tx.original # Unknown => clip.text = tx.original
    BY <1>1, <1>4 DEF CleanIsOurs
  <2>2. CASE pc' = "sentinelOwner"
    <3>1. clip' = Clip(Sentinel, "self") BY <1>4, <2>2
    <3> QED BY <1>1, <1>6, <1>7, <1>10, <2>1, <2>2, <3>1 DEF CleanIsOurs
  <2>3. CASE pc' = "rollback"
    <3>2. ~Marked' /\ ~Converting' /\ ~Replaced'
      BY <1>10, UnknownAssumption DEF Marked, Converting, Taken, Replaced
    <3>3. \/ clip' = Clip(Sentinel, "self")
          \/ tx'.original # Unknown => clip'.text = tx'.original
      BY <1>4, <2>1
    <3> QED BY <1>1, <1>6, <1>10, <2>1, <2>3, <3>2, <3>3 DEF CleanIsOurs
  <2> QED BY <1>4, <2>2, <2>3
<1>20. CopiesAreKept' BY <1>1, <1>4 DEF CopiesAreKept
<1> QED BY <1>8, <1>9, <1>11, <1>13, <1>17, <1>18, <1>19, <1>20

\* After the write of the replacement the old text is still known.
LEMMA WriteConvertedIsRight == ASSUME ClipboardInv, WriteConverted PROVE ClipboardInv'
<1> USE DEF ClipboardInv
<1> DEFINE t == Convert(tx.current.text)
<1>1. /\ pc = "convert" /\ WriteOperationText("Converted", t, "convertedOwner")
      /\ UNCHANGED <<desktop, selection, runnerVars, poll, since, clean>>
  BY DEF WriteConverted
<1>2. Chosen BY <1>1 DEF TxInOrder
<1>3. tx.current \in OwnedTexts /\ tx.current.text \in Text /\ tx.current.kind = "Selected"
      /\ tx.current.text # Sentinel /\ tx.current.text # NoText
  BY <1>2 DEF Chosen, Taken, OwnedTexts
<1>4. /\ serial \in 1..MaxJobs /\ Sentinel = Sentinels[serial]
      /\ \A i \in Ahead : i \in 1..MaxJobs /\ tx.current.text # Sentinels[i]
      /\ tx.current # Unknown
  BY <1>1, <1>3, SentinelsAreOwn, UnknownAssumption DEF Sentinel, SentinelsAreNew, Ahead
<1>5. t \in Text /\ t # NoText BY <1>3, ConversionIsMeant
<1>6. t # Sentinel /\ \A i \in Ahead : t # Sentinels[i]
  BY <1>3, <1>4, ConversionIsMeant
<1> HIDE DEF t
<1>8. /\ \/ pc' = "convertedOwner" /\ (desktop = "x11" => clip' = Clip(t, "self"))
         \/ pc' = "rollback"
      /\ Intended("Converted", t)
      /\ tx' \in Transactions /\ clip' \in Clips /\ landing' \in Seq(Text)
      /\ tx'.original = tx.original /\ tx'.owner = tx.owner
      /\ tx'.meaningful
      /\ \/ clip' = clip /\ copied' = copied
         \/ clip' = Clip(t, "self") /\ copied' = Unknown
      /\ desktop = "x11" => landing' = landing
      /\ \A n \in 1..Len(landing') :
           landing'[n] = t \/ (n \in 1..Len(landing) /\ landing'[n] = landing[n])
  BY <1>1, <1>5, WhatAWriteDoes
<1>9. serial' = serial /\ Sentinel' = Sentinel /\ Ahead' = Ahead
  BY <1>1, <1>8 DEF runnerVars, Sentinel, Ahead
<1>10. JobTyped' BY <1>1, <1>8 DEF JobTyped
<1>11. JobsCounted' BY <1>1, <1>8 DEF JobsCounted, runnerVars
<1>12. /\ tx'.current = tx.current /\ tx'.pending = Owned("Converted", t, Unknown)
       /\ tx'.known = tx.known /\ tx'.pending.text = t
  BY <1>5, <1>8, OwnedAreKnown DEF Intended
<1>13. Converting' BY <1>2, <1>8, <1>9, <1>12 DEF Converting, Chosen, Taken, t
<1>14. TxInOrder' BY <1>8, <1>13 DEF TxInOrder
<1>15. LandingInOrder' BY <1>1, <1>8 DEF LandingInOrder
<1>16. clip'.text \in {clip.text, t} BY <1>8 DEF Clip
<1>17. SentinelsAreNew'
  BY <1>1, <1>4, <1>6, <1>8, <1>9, <1>12, <1>16 DEF SentinelsAreNew
<1>18. OldTextIsTold' BY <1>8 DEF OldTextIsTold
<1>19. CleanIsOurs'
  <2> SUFFICES ASSUME desktop = "x11", clean PROVE CleanIsOurs' BY <1>1 DEF CleanIsOurs
  <2>1. /\ tx'.original # Unknown => tx'.owner # Unknown
        /\ tx.current.owner = "app" /\ clip = Clip(tx.current.text, "app")
        /\ "self" \in tx.known
    BY <1>1, <1>4, <1>8 DEF CleanIsOurs
  <2>2. CASE pc' = "convertedOwner"
    <3>1. clip' = Clip(tx'.pending.text, "self") BY <1>8, <1>12, <2>2
    <3> QED BY <1>1, <1>3, <1>12, <2>1, <2>2, <3>1 DEF CleanIsOurs
  <2>3. CASE pc' = "rollback"
    <3>2. ~Marked' /\ ~Marking' /\ ~Replaced'
      BY <1>3, <1>4, <1>12 DEF Marked, Marking, Replaced
    <3>3. \/ tx'.current.owner = "app" /\ clip' = Clip(tx'.current.text, "app")
          \/ clip' = Clip(tx'.pending.text, "self")
      BY <1>8, <1>12, <2>1
    <3> QED BY <1>1, <1>3, <1>12, <2>1, <2>3, <3>2, <3>3 DEF CleanIsOurs
  <2> QED BY <1>8, <2>2, <2>3
<1>20. CopiesAreKept' BY <1>1, <1>8 DEF CopiesAreKept
<1> QED BY <1>10, <1>11, <1>14, <1>15, <1>17, <1>18, <1>19, <1>20

\* The owner that is found counts as the owner of the text, and the job's own
\* connection is the one found when nobody else used the clipboard.
LEMMA RecordOwnerIsRight == ASSUME ClipboardInv, RecordOwner PROVE ClipboardInv'
<1> USE DEF ClipboardInv
<1>1. /\ UNCHANGED <<desktop, clip, landing, selection, runnerVars, poll, copied, since>>
      /\ pc' \notin {"rollback", "restore", "finish", "convert", "poll", "sentinel"}
      /\ \/ pc = "sentinelOwner" /\ pc' = "confirm"
         \/ pc = "convertedOwner" /\ pc' = "paste"
  BY DEF RecordOwner, worldVars
<1>2. PICK o \in {Unknown, OwnerToken} :
        /\ tx' = Confirmed(o)
        /\ clean' \in {clean, FALSE} /\ (clean' # FALSE => o = OwnerToken)
  BY DEF RecordOwner
<1>3. /\ tx \in Transactions /\ clip \in Clips /\ clip.owner \in Owners /\ poll \in Polls
      /\ clean' \in BOOLEAN
  BY <1>2 DEF JobTyped, Clips
<1>4. o \in Owners \cup {Unknown} BY <1>2, <1>3 DEF OwnerToken
<1>5. serial' = serial /\ Sentinel' = Sentinel /\ Ahead' = Ahead
  BY <1>1 DEF runnerVars, Sentinel, Ahead
<1>6. /\ serial \in 1..MaxJobs /\ Sentinel \in Text /\ Sentinel = Sentinels[serial]
      /\ Sentinel # NoText /\ Sentinel # Unknown
  BY <1>1, SentinelsAreOwn, UnknownAssumption DEF Sentinel
<1>7. PICK kind \in {"Sentinel", "Converted"}, t \in Text :
        /\ tx.pending = Owned(kind, t, Unknown) /\ t # NoText
        /\ \/ /\ pc = "sentinelOwner" /\ pc' = "confirm"
              /\ kind = "Sentinel" /\ t = Sentinel /\ ~tx.meaningful
           \/ /\ pc = "convertedOwner" /\ pc' = "paste"
              /\ kind = "Converted" /\ t # Sentinel /\ tx.meaningful
        /\ \A i \in Ahead : t # Sentinels[i]
  <2>1. CASE pc = "sentinelOwner"
    <3>1. Marking BY <2>1 DEF TxInOrder
    <3>2. \A i \in Ahead : Sentinel # Sentinels[i]
      BY <1>6, <2>1, TextsAssumption DEF Ahead, JobsCounted
    <3> QED BY <1>1, <1>6, <2>1, <3>1, <3>2 DEF Marking
  <2>2. CASE pc = "convertedOwner"
    <3>1. Converting BY <2>2 DEF TxInOrder
    <3>2. tx.current \in OwnedTexts /\ tx.current.text \in Text /\ tx.current # Unknown
          /\ tx.current.text # Sentinel /\ tx.current.text # NoText /\ tx.meaningful
      BY <3>1, UnknownAssumption DEF Converting, Taken, OwnedTexts
    <3>3. \A i \in Ahead : i \in 1..MaxJobs /\ tx.current.text # Sentinels[i]
      BY <3>2 DEF SentinelsAreNew, Ahead
    <3>4. /\ Convert(tx.current.text) \in Text \ {NoText}
          /\ Convert(tx.current.text) # Sentinel
          /\ \A i \in Ahead : Convert(tx.current.text) # Sentinels[i]
      BY <1>6, <3>2, <3>3, ConversionIsMeant
    <3> QED BY <1>1, <2>2, <3>1, <3>2, <3>4 DEF Converting
  <2> QED BY <1>1, <2>1, <2>2
<1>8. /\ tx.pending # Unknown /\ tx.pending.kind = kind /\ tx.pending.text = t
  BY <1>7, OwnedAreKnown
<1>9. /\ Owned(kind, t, o) \in OwnedTexts /\ Owned(kind, t, o) # Unknown
      /\ Owned(kind, t, o).kind = kind /\ Owned(kind, t, o).text = t
      /\ Owned(kind, t, o).owner = o
  BY <1>4, OwnedAreKnown
<1>10. /\ tx' \in Transactions /\ tx'.current = Owned(kind, t, o) /\ tx'.pending = Unknown
       /\ tx'.known = tx.known \cup ({o} \ {Unknown}) /\ tx'.meaningful = tx.meaningful
       /\ tx'.original = tx.original /\ tx'.owner = tx.owner
  <2>1. tx.known \cup ({o} \ {Unknown}) \in SUBSET Owners BY <1>3, <1>4 DEF Transactions
  <2> QED BY <1>2, <1>3, <1>8, <1>9, <2>1 DEF Confirmed, Transactions
<1>11. JobTyped' BY <1>1, <1>3, <1>10 DEF JobTyped
<1>12. JobsCounted' BY <1>1 DEF JobsCounted, runnerVars
<1>13. TxInOrder'
  <2>1. CASE pc' = "confirm"
    <3>1. Marked' BY <1>5, <1>7, <1>9, <1>10, <2>1 DEF Marked
    <3> QED BY <2>1, <3>1 DEF TxInOrder
  <2>2. CASE pc' = "paste"
    <3>1. Replaced' BY <1>5, <1>7, <1>9, <1>10, <2>2 DEF Replaced
    <3> QED BY <2>2, <3>1 DEF TxInOrder
  <2> QED BY <1>1, <2>1, <2>2
<1>14. LandingInOrder' BY <1>1, <1>5 DEF LandingInOrder
<1>15. SentinelsAreNew' BY <1>1, <1>5, <1>7, <1>9, <1>10 DEF SentinelsAreNew
<1>16. OldTextIsTold' BY <1>1, <1>5, <1>10 DEF OldTextIsTold
<1>17. CleanIsOurs'
  <2> SUFFICES ASSUME desktop = "x11", clean' PROVE CleanIsOurs' BY <1>1 DEF CleanIsOurs
  <2>1. clean /\ o = clip.owner BY <1>2 DEF OwnerToken
  <2>2. clip = Clip(t, "self") /\ (pc = "sentinelOwner" => poll.text = Unknown)
    BY <1>7, <1>8, <2>1 DEF CleanIsOurs
  <2>3. o = "self" /\ o # Unknown
    BY <2>1, <2>2, UnknownAssumption DEF Clip, Owners
  <2>4. tx'.current.owner = "self" /\ "self" \in tx'.known /\ tx'.current.text = t
    BY <1>9, <1>10, <2>3
  <2>5. tx'.original # Unknown => tx'.owner # Unknown BY <1>10, <2>1 DEF CleanIsOurs
  <2> QED BY <1>1, <1>5, <1>7, <2>2, <2>4, <2>5 DEF CleanIsOurs
<1>18. CopiesAreKept' BY <1>1 DEF CopiesAreKept
<1> QED BY <1>11, <1>12, <1>13, <1>14, <1>15, <1>16, <1>17, <1>18

\* The clipboard and the transaction stay while the job goes on.
LEMMA MovesAreRight ==
  ASSUME ClipboardInv,
         UNCHANGED <<desktop, clip, landing, selection, runnerVars, tx, ghostVars>>,
         pc \in {"confirm", "copy", "paste", "settle"},
         pc' \in {"confirm", "copy", "poll", "settle", "rollback"},
         pc' \in {"confirm", "copy", "poll"} => pc \in {"confirm", "copy"},
         poll' \in Polls, poll'.text \in {poll.text, Unknown},
         TxInOrder', OldTextIsTold', CleanIsOurs'
  PROVE  ClipboardInv'
<1> USE DEF ClipboardInv, runnerVars, ghostVars
<1>1. Sentinel' = Sentinel /\ Ahead' = Ahead BY DEF Sentinel, Ahead
<1>2. JobTyped' BY DEF JobTyped
<1>3. JobsCounted' BY DEF JobsCounted
<1>4. LandingInOrder' BY <1>1 DEF LandingInOrder
<1>5. \A i \in Ahead : Sentinels[i] # Unknown
  BY TextsAssumption, UnknownAssumption DEF Ahead
<1>6. Sentinel # Unknown BY SentinelsAreOwn, UnknownAssumption
<1>7. SentinelsAreNew' BY <1>1, <1>5, <1>6 DEF SentinelsAreNew
<1>8. CopiesAreKept' BY DEF CopiesAreKept
<1> QED BY <1>2, <1>3, <1>4, <1>7, <1>8

\* Reading the sentinel shows that the text of before the job is gone.
LEMMA ConfirmSentinelIsRight == ASSUME ClipboardInv, ConfirmSentinel PROVE ClipboardInv'
<1> USE DEF ClipboardInv
<1>1. /\ pc = "confirm" /\ pc' \in {"confirm", "copy"}
      /\ UNCHANGED <<desktop, clip, landing, selection, runnerVars, tx, ghostVars>>
  BY DEF ConfirmSentinel, worldVars
<1>2. Sentinel' = Sentinel /\ Marked' = Marked /\ Sentinel \in Text /\ Sentinel # Unknown
  BY <1>1, ShapesStay, SentinelsAreOwn, UnknownAssumption DEF runnerVars
<1>3. poll \in Polls /\ NoPoll \in Polls /\ NoPoll.text = Unknown /\ NoPoll.seen = FALSE
  BY DEF JobTyped, NoPoll, Polls
<1>4. /\ poll' \in Polls
      /\ \/ poll'.text = Unknown /\ (poll'.seen => clip.text = Sentinel)
         \/ poll'.text = poll.text /\ poll'.seen = poll.seen
  <2>1. \/ clip.text = Sentinel /\ poll' = [NoPoll EXCEPT !.seen = TRUE]
        \/ poll' = NoPoll
        \/ poll' = [poll EXCEPT !.elapsed = @ + 1]
    BY <1>2 DEF ConfirmSentinel
  <2>2. poll.elapsed + 1 \in Nat BY <1>3 DEF Polls
  <2> QED BY <1>3, <2>1, <2>2 DEF Polls
<1>5. TxInOrder' BY <1>1, <1>2 DEF TxInOrder
<1>6. OldTextIsTold' BY <1>1, <1>2, <1>4 DEF OldTextIsTold, ghostVars
<1>7. CleanIsOurs' BY <1>1, <1>2, <1>4 DEF CleanIsOurs, ghostVars
<1> QED BY <1>1, <1>4, <1>5, <1>6, <1>7, MovesAreRight

\* The copy shortcut may fail before or after it is sent: the job is marked still.
LEMMA CopySelectionIsRight == ASSUME ClipboardInv, CopySelection PROVE ClipboardInv'
<1> USE DEF ClipboardInv
<1>1. /\ pc = "copy" /\ pc' \in {"poll", "rollback"}
      /\ UNCHANGED <<desktop, clip, landing, selection, runnerVars, tx, poll, ghostVars>>
  BY DEF CopySelection
<1>2. /\ Sentinel' = Sentinel /\ Marked' = Marked /\ Marking' = Marking
      /\ Converting' = Converting /\ Replaced' = Replaced
  BY <1>1, ShapesStay DEF runnerVars
<1>3. Marked BY <1>1 DEF TxInOrder
<1>4. ~Marking' /\ ~Converting' /\ ~Replaced' BY <1>2, <1>3, ShapesDiffer
<1>5. TxInOrder' BY <1>1, <1>2, <1>3 DEF TxInOrder
<1>6. OldTextIsTold' BY <1>1, <1>2 DEF OldTextIsTold, ghostVars
<1>7. CleanIsOurs' BY <1>1, <1>2, <1>4 DEF CleanIsOurs, ghostVars
<1>8. poll \in Polls BY DEF JobTyped
<1> QED BY <1>1, <1>5, <1>6, <1>7, <1>8, MovesAreRight

\* The paste shortcut and the wait after it leave the replacement where it is.
LEMMA PasteIsRight == ASSUME ClipboardInv, PasteSelection \/ PasteSettles PROVE ClipboardInv'
<1> USE DEF ClipboardInv
<1>1. /\ pc \in {"paste", "settle"} /\ pc' \in {"settle", "rollback"}
      /\ UNCHANGED <<desktop, clip, landing, selection, runnerVars, tx, poll, ghostVars>>
  BY DEF PasteSelection, PasteSettles, worldVars
<1>2. /\ Sentinel' = Sentinel /\ Marked' = Marked /\ Marking' = Marking
      /\ Converting' = Converting /\ Replaced' = Replaced
  BY <1>1, ShapesStay DEF runnerVars
<1>3. Replaced BY <1>1 DEF TxInOrder
<1>4. ~Marking' /\ ~Converting' /\ ~Marked' BY <1>2, <1>3, ShapesDiffer
<1>5. TxInOrder' BY <1>1, <1>2, <1>3 DEF TxInOrder
<1>6. OldTextIsTold' BY <1>1 DEF OldTextIsTold
<1>7. CleanIsOurs' BY <1>1, <1>2, <1>4 DEF CleanIsOurs, ghostVars
<1>8. poll \in Polls BY DEF JobTyped
<1> QED BY <1>1, <1>5, <1>6, <1>7, <1>8, MovesAreRight

\* The candidate of a poll that read the text t of the owner o.
Follows(p, t, o) ==
  \/ t = Sentinel /\ p.text = Unknown /\ p.seen
  \/ t \notin {Sentinel, Unknown} /\ p.text = t /\ p.owner = o /\ p.seen = poll.seen
  \/ t = Unknown /\ p.text = poll.text /\ p.owner = poll.owner /\ p.seen = poll.seen

LEMMA CandidateFollows ==
  ASSUME JobTyped, Sentinel # Unknown, NEW t \in (Text \ {NoText}) \cup {Unknown},
         NEW o \in Owners \cup {Unknown}
  PROVE  Candidate(t, o) \in Polls /\ Follows(Candidate(t, o), t, o)
<1> DEFINE p == Candidate(t, o)
<1>1. poll \in Polls /\ poll.stable \in Nat /\ poll.stable + 1 \in Nat
  BY DEF JobTyped, Polls
<1>2. CASE t = Sentinel
  <2>1. p = [poll EXCEPT !.seen = TRUE, !.text = Unknown, !.owner = Unknown, !.stable = 0]
    BY <1>2 DEF Candidate
  <2>2. p = [elapsed |-> poll.elapsed, text |-> Unknown, owner |-> Unknown, stable |-> 0,
             seen |-> TRUE]
    BY <1>1, <2>1 DEF Polls
  <2>3. poll.elapsed \in Nat BY <1>1 DEF Polls
  <2> HIDE DEF p
  <2>4. p \in Polls BY <2>2, <2>3 DEF Polls
  <2>5. p.text = Unknown /\ p.seen BY <2>2
  <2>6. Follows(p, t, o) BY <1>2, <2>5 DEF Follows
  <2> QED BY <2>4, <2>6 DEF p
<1>3. CASE t # Sentinel /\ t # Unknown /\ (t # poll.text \/ o # poll.owner)
  <2>1. p = [poll EXCEPT !.text = t, !.owner = o, !.stable = 0]
    BY <1>3 DEF Candidate
  <2>2. p = [elapsed |-> poll.elapsed, text |-> t, owner |-> o, stable |-> 0,
             seen |-> poll.seen]
    BY <1>1, <2>1 DEF Polls
  <2>3. poll.elapsed \in Nat /\ poll.seen \in BOOLEAN /\ t \in Text \ {NoText}
    BY <1>1, <1>3 DEF Polls
  <2> HIDE DEF p
  <2>4. p \in Polls BY <2>2, <2>3 DEF Polls
  <2>5. p.text = t /\ p.owner = o /\ p.seen = poll.seen BY <2>2
  <2>6. Follows(p, t, o) BY <1>3, <2>5 DEF Follows
  <2> QED BY <2>4, <2>6 DEF p
<1>4. CASE t # Sentinel /\ ~(t # Unknown /\ (t # poll.text \/ o # poll.owner))
  <2>1. p = [poll EXCEPT !.stable = @ + 1]
    BY <1>4 DEF Candidate
  <2>2. p \in Polls BY <1>1, <2>1 DEF Polls
  <2>3. p.text = poll.text /\ p.owner = poll.owner /\ p.seen = poll.seen
    BY <1>1, <2>1 DEF Polls
  <2>4. t = Unknown \/ (t = poll.text /\ o = poll.owner) BY <1>4
  <2> HIDE DEF p
  <2>5. Follows(p, t, o) BY <1>4, <2>3, <2>4 DEF Follows
  <2> QED BY <2>2, <2>5 DEF p
<1> QED BY <1>2, <1>3, <1>4

\* A poll takes its candidate for the selection, goes on or gives up.
LEMMA WhatAPollDoes ==
  ASSUME ClipboardInv, PollCopiedText
  PROVE  \E t, o, p :
           /\ Observe(t, o) /\ p \in Polls /\ Follows(p, t, o)
           /\ \/ /\ pc' = "convert" /\ poll' = NoPoll
                 /\ p.text # Unknown /\ (p.text = tx.original => p.seen)
                 /\ tx' = [tx EXCEPT !.current = Owned("Selected", p.text, p.owner),
                                     !.pending = Unknown, !.meaningful = TRUE]
              \/ pc' = "poll" /\ tx' = tx /\ poll' = [p EXCEPT !.elapsed = @ + 1]
              \/ pc' = "rollback" /\ tx' = tx /\ poll' = NoPoll
<1>1. pc = "poll" /\ JobTyped BY DEF ClipboardInv, PollCopiedText
<1>2. PICK t, o :
        LET p == Candidate(t, o)
        IN /\ Observe(t, o)
           /\ IF Accepts(t, p) THEN Adopt(t, o)
              ELSE IF p.elapsed < CopyTimeout
              THEN poll' = [p EXCEPT !.elapsed = @ + 1] /\ UNCHANGED <<pc, tx>>
              ELSE IF p.text # Unknown /\ (MatchesPrevious(p.text) => p.seen)
              THEN Adopt(p.text, p.owner)
              ELSE poll' = NoPoll /\ pc' = "rollback" /\ UNCHANGED tx
  BY DEF PollCopiedText
<1> DEFINE p == Candidate(t, o)
<1>3. Sentinel # Unknown
  BY <1>1, SentinelsAreOwn, UnknownAssumption DEF ClipboardInv
<1>4. p \in Polls /\ Follows(p, t, o)
  BY <1>1, <1>2, <1>3, WhatAReadFinds, CandidateFollows
<1> HIDE DEF p
<1>5. \/ Accepts(t, p) /\ Adopt(t, o)
      \/ poll' = [p EXCEPT !.elapsed = @ + 1] /\ pc' = "poll" /\ tx' = tx
      \/ p.text # Unknown /\ (p.text = tx.original => p.seen) /\ Adopt(p.text, p.owner)
      \/ poll' = NoPoll /\ pc' = "rollback" /\ tx' = tx
  BY <1>1, <1>2 DEF p, MatchesPrevious
<1>6. CASE Accepts(t, p) /\ Adopt(t, o)
  <2>1. p.text = t /\ p.owner = o /\ t # Unknown BY <1>4, <1>6 DEF Accepts, Follows
  <2>2. p.text = tx.original => p.seen BY <1>6, <2>1 DEF Accepts, MatchesPrevious
  <2> QED BY <1>2, <1>4, <1>6, <2>1, <2>2 DEF Adopt
<1>7. CASE p.text # Unknown /\ (p.text = tx.original => p.seen) /\ Adopt(p.text, p.owner)
  BY <1>2, <1>4, <1>7 DEF Adopt
<1> QED BY <1>2, <1>4, <1>5, <1>6, <1>7

\* A poll takes no text of before the job, and under X11 no text but the selection
\* when nobody else used the clipboard.
LEMMA PollIsRight == ASSUME ClipboardInv, PollCopiedText PROVE ClipboardInv'
<1> USE DEF ClipboardInv
<1>1. PICK t, o, p :
        /\ Observe(t, o) /\ p \in Polls /\ Follows(p, t, o)
        /\ \/ /\ pc' = "convert" /\ poll' = NoPoll
              /\ p.text # Unknown /\ (p.text = tx.original => p.seen)
              /\ tx' = [tx EXCEPT !.current = Owned("Selected", p.text, p.owner),
                                  !.pending = Unknown, !.meaningful = TRUE]
           \/ pc' = "poll" /\ tx' = tx /\ poll' = [p EXCEPT !.elapsed = @ + 1]
           \/ pc' = "rollback" /\ tx' = tx /\ poll' = NoPoll
  BY WhatAPollDoes
<1>2. pc = "poll" /\ UNCHANGED <<desktop, landing, selection, runnerVars>>
  BY DEF PollCopiedText
<1>3. /\ ReadsIt(t, o) \/ ReadFails(t, o) \/ CopyInTheRead(t, o)
      /\ t \in (Text \ {NoText}) \cup {Unknown} /\ o \in Owners \cup {Unknown}
      /\ clip' \in Clips /\ clip'.text \in {clip.text} \cup Foreign
      /\ clip'.text \in {clip.text} \cup since' /\ since \subseteq since'
      /\ clean' \in BOOLEAN /\ (clean' => clean)
  BY <1>1, WhatAReadFinds
<1>4. /\ serial' = serial /\ Sentinel' = Sentinel /\ Ahead' = Ahead
      /\ Sentinel \in Text /\ Sentinel # Unknown
      /\ Sentinel \notin Selections \cup Foreign \cup {Original, NoText}
  BY <1>1, <1>2, SentinelsAreOwn, UnknownAssumption
  DEF runnerVars, Sentinel, Ahead
<1>5. Marked /\ tx \in Transactions /\ poll \in Polls BY <1>2 DEF TxInOrder, JobTyped
<1>6. /\ p.text \in (Text \ {NoText}) \cup {Unknown} /\ p.owner \in Owners \cup {Unknown}
      /\ p.seen \in BOOLEAN /\ p.elapsed \in Nat /\ p.elapsed + 1 \in Nat
  BY <1>1 DEF Polls
<1>7. p.text \in {t, poll.text, Unknown} /\ p.text # Sentinel
  BY <1>1, <1>2, <1>4 DEF Follows, SentinelsAreNew
<1>8. NoPoll \in Polls /\ NoPoll.text = Unknown /\ NoPoll.seen = FALSE
  BY DEF NoPoll, Polls
<1> DEFINE took == tx'.current = Owned("Selected", p.text, p.owner) /\ tx'.pending = Unknown
                   /\ tx'.known = tx.known /\ tx'.meaningful
<1>9. \/ /\ pc' = "convert" /\ poll'.text = Unknown
         /\ p.text # Unknown /\ (p.text = tx.original => p.seen) /\ took
      \/ /\ pc' = "poll" /\ tx' = tx
         /\ poll'.text = p.text /\ poll'.owner = p.owner /\ poll'.seen = p.seen
      \/ pc' = "rollback" /\ tx' = tx /\ poll'.text = Unknown
  BY <1>1, <1>5, <1>8 DEF Polls, Transactions
<1>10. tx'.original = tx.original /\ tx'.owner = tx.owner
  BY <1>1, <1>5 DEF Transactions
<1>11. tx' \in Transactions
  <2>1. p.text # Unknown => Owned("Selected", p.text, p.owner) \in OwnedTexts
    BY <1>6, OwnedAreKnown
  <2> QED BY <1>1, <1>5, <2>1 DEF Transactions
<1>12. poll' \in Polls BY <1>1, <1>6, <1>8 DEF Polls
<1>13. JobTyped' BY <1>1, <1>2, <1>3, <1>11, <1>12 DEF JobTyped
<1>14. JobsCounted' BY <1>1, <1>2 DEF JobsCounted, runnerVars
<1>15. tx' = tx => Marked' BY <1>4, <1>5 DEF Marked
<1>16. pc' = "convert" => /\ Chosen' /\ tx'.current.text = p.text
                          /\ tx'.current.owner = p.owner /\ tx'.known = tx.known
  <2> SUFFICES ASSUME pc' = "convert"
               PROVE  /\ Chosen' /\ tx'.current.text = p.text
                      /\ tx'.current.owner = p.owner /\ tx'.known = tx.known
    OBVIOUS
  <2>1. p.text \in Text \ {NoText} /\ took BY <1>6, <1>9
  <2>2. /\ tx'.current \in OwnedTexts /\ tx'.current.kind = "Selected"
        /\ tx'.current.text = p.text /\ tx'.current.owner = p.owner
    BY <1>6, <2>1, OwnedAreKnown
  <2> QED BY <1>4, <1>7, <2>1, <2>2 DEF Chosen, Taken
<1> HIDE DEF took
<1>17. TxInOrder' BY <1>9, <1>15, <1>16 DEF TxInOrder
<1>18. LandingInOrder' BY <1>2, <1>4, <1>9 DEF LandingInOrder
<1>19. t \in {clip.text, Unknown} \cup Foreign
  BY <1>3 DEF ReadsIt, ReadFails, CopyInTheRead
<1>20. SentinelsAreNew'
  <2>1. \A i \in Ahead : /\ Sentinels[i] # Unknown /\ Sentinels[i] \notin Foreign
                         /\ Sentinels[i] \notin {clip.text, poll.text}
    BY TextsAssumption, UnknownAssumption DEF Ahead, SentinelsAreNew
  <2>2. \A i \in Ahead : p.text # Sentinels[i] /\ clip'.text # Sentinels[i]
    BY <1>3, <1>7, <1>19, <2>1
  <2>3. poll'.text \in {p.text, Unknown} BY <1>9
  <2>4. tx' = tx \/ tx'.current.text = p.text BY <1>9, <1>16
  <2> QED BY <1>2, <1>4, <1>7, <1>10, <2>1, <2>2, <2>3, <2>4 DEF SentinelsAreNew
<1>21. OldTextIsTold'
  <2> SUFFICES ASSUME tx.original # Unknown PROVE OldTextIsTold'
    BY <1>10 DEF OldTextIsTold
  <2>1. /\ clip.text \in {tx.original, Sentinel} \cup since
        /\ poll.seen => clip.text \in {Sentinel} \cup since
        /\ poll.text # Unknown => poll.text \in {tx.original} \cup since
        /\ poll.text # Unknown /\ poll.seen => poll.text \in since
    BY <1>2 DEF OldTextIsTold
  <2>2. t \in {clip.text, Unknown} \cup since'
    BY <1>3 DEF ReadsIt, ReadFails, CopyInTheRead
  <2>3. t = Sentinel => clip'.text \in {Sentinel} \cup since'
    BY <1>3, <1>4 DEF ReadsIt, ReadFails, CopyInTheRead, Clip
  <2>4. p.seen => clip'.text \in {Sentinel} \cup since'
    BY <1>1, <1>3, <2>1, <2>3 DEF Follows
  <2>5. p.text # Unknown => p.text \in {tx.original} \cup since'
    <3>1. since \subseteq since' BY <1>3
    <3>2. CASE p.text = t BY <1>7, <2>1, <2>2, <3>1, <3>2
    <3>3. CASE p.text = poll.text
      <4>1. poll.text # Unknown => poll.text \in {tx.original} \cup since BY <2>1
      <4> QED BY <3>1, <3>3, <4>1
    <3> QED BY <1>7, <3>2, <3>3
  <2>6. p.text # Unknown /\ p.seen => p.text \in since'
    <3> SUFFICES ASSUME p.text # Unknown, p.seen PROVE p.text \in since' OBVIOUS
    <3>1. since \subseteq since' BY <1>3
    <3>2. CASE t \notin {Sentinel, Unknown} /\ p.text = t /\ p.seen = poll.seen
      BY <2>1, <2>2, <3>1, <3>2
    <3>3. CASE t = Unknown /\ p.text = poll.text /\ p.seen = poll.seen
      <4>1. poll.text # Unknown /\ poll.seen => poll.text \in since BY <2>1
      <4> QED BY <3>1, <3>3, <4>1
    <3> QED BY <1>1, <3>2, <3>3 DEF Follows
  <2>7. clip'.text \in {tx.original, Sentinel} \cup since' BY <1>3, <2>1
  <2>8. CASE pc' = "convert"
    <3>1. tx'.current.text \in since' BY <1>9, <1>16, <2>5, <2>6, <2>8
    <3> QED BY <2>8, <3>1 DEF OldTextIsTold
  <2>9. CASE pc' = "poll"
    <3>1. poll'.text = p.text /\ poll'.seen = p.seen BY <1>9, <2>9
    <3> QED BY <1>4, <1>10, <2>4, <2>5, <2>6, <2>7, <2>9, <3>1 DEF OldTextIsTold
  <2>10. CASE pc' = "rollback" BY <2>10 DEF OldTextIsTold
  <2> QED BY <1>9, <2>8, <2>9, <2>10
<1>22. CleanIsOurs'
  <2> SUFFICES ASSUME desktop = "x11", clean' PROVE CleanIsOurs'
    BY <1>2 DEF CleanIsOurs
  <2>1. /\ clip' = clip /\ since' = since /\ clean
        /\ t \in {clip.text, Unknown} /\ o = clip.owner
    BY <1>3 DEF ReadsIt, ReadFails, CopyInTheRead, OwnerToken
  <2>2. /\ tx'.original # Unknown => tx'.owner # Unknown
        /\ tx.current # Unknown /\ "self" \in tx.known /\ tx.current.owner = "self"
    BY <1>5, <1>10, <2>1, UnknownAssumption DEF CleanIsOurs, Marked
  <2>3. CASE clip = Clip(Sentinel, "self") /\ poll.text = Unknown
    <3>1. t \in {Sentinel, Unknown} BY <2>1, <2>3 DEF Clip
    <3>2. p.text = Unknown BY <1>1, <1>4, <2>3, <3>1 DEF Follows
    <3>3. pc' \in {"poll", "rollback"} /\ tx' = tx /\ poll'.text = Unknown
      BY <1>9, <3>2
    <3>4. Marked' /\ ~Marking' /\ ~Converting' /\ ~Replaced'
      BY <1>2, <1>4, <1>5, <1>15, <3>3, ShapesDiffer, ShapesStay
    <3> QED BY <1>4, <2>1, <2>2, <2>3, <3>3, <3>4 DEF CleanIsOurs
  <2>4. CASE /\ clip = Clip(selection, "app") /\ since # {}
             /\ poll.text # Unknown => poll.text = selection /\ poll.owner = "app"
    <3>1. t \in {selection, Unknown} /\ o = "app" BY <2>1, <2>4 DEF Clip
    <3>2. selection # Sentinel BY <1>4 DEF JobTyped
    <3>3. p.text # Unknown => p.text = selection /\ p.owner = "app"
      BY <1>1, <2>4, <3>1, <3>2 DEF Follows
    <3>4. CASE pc' = "convert"
      <4>1. tx'.current.owner = "app" /\ clip' = Clip(tx'.current.text, "app")
        BY <1>9, <1>16, <2>1, <2>4, <3>3, <3>4
      <4>2. tx'.current.kind = "Selected" /\ "self" \in tx'.known
        BY <1>16, <2>2, <3>4 DEF Chosen, Taken
      <4> QED BY <2>2, <3>4, <4>1, <4>2 DEF CleanIsOurs
    <3>5. CASE pc' = "poll"
      <4>1. poll'.text = p.text /\ poll'.owner = p.owner BY <1>9, <3>5
      <4> QED BY <1>2, <1>9, <2>1, <2>2, <2>4, <3>3, <3>5, <4>1 DEF CleanIsOurs
    <3>6. CASE pc' = "rollback"
      <4>1. ~Asides' BY <1>5, <1>9, <2>1, <2>4, <3>6 DEF Asides, Marked
      <4> QED BY <1>9, <2>2, <3>6, <4>1 DEF CleanIsOurs
    <3> QED BY <1>9, <3>4, <3>5, <3>6
  <2> QED BY <1>2, <2>1, <2>3, <2>4 DEF CleanIsOurs
<1>23. CopiesAreKept'
  <2>1. pc' \notin {"restore", "finish", "idle"} BY <1>9
  <2>2. CASE ReadsIt(t, o) \/ ReadFails(t, o)
    <3>1. clip' = clip /\ copied' = copied BY <2>2 DEF ReadsIt, ReadFails
    <3> QED BY <1>2, <2>1, <3>1 DEF CopiesAreKept
  <2>3. CASE CopyInTheRead(t, o)
    <3>1. PICK by \in {"app", "other"}, new \in Foreign :
            clip' = Clip(new, by) /\ copied' \in {Unknown, Clip(new, by)}
      BY <2>3 DEF CopyInTheRead
    <3> QED BY <2>1, <3>1 DEF CopiesAreKept, Clip
  <2> QED BY <1>3, <2>2, <2>3
<1> QED BY <1>13, <1>14, <1>17, <1>18, <1>20, <1>21, <1>22, <1>23

\* What the rollback answers for the text t of the owner o.
Mine(t, o) ==
  tx.current # Unknown /\ tx.current.owner # Unknown
  /\ tx.current.owner = o /\ tx.current.text = t
PendingMine(t, o) ==
  tx.pending # Unknown /\ tx.pending.text = t
  /\ (tx.pending.kind = "Sentinel" \/ o \in tx.known)

LEMMA WhenItIsOwned ==
  ASSUME NEW t, NEW o
  PROVE  OwnershipStatus(t, o) = "Owned" <=> Mine(t, o) \/ PendingMine(t, o)
<1>1. CASE tx.current = Unknown /\ tx.pending = Unknown
  BY <1>1 DEF OwnershipStatus, Mine, PendingMine
<1>2. CASE ~(tx.current = Unknown /\ tx.pending = Unknown)
  BY <1>2 DEF OwnershipStatus, Mine, PendingMine
<1> QED BY <1>1, <1>2

\* The job's own text is found when nobody else used the clipboard, and put
\* back if there is something to put back.
LEMMA OwnIsFound ==
  ASSUME ClipboardInv, pc = "rollback", desktop = "x11", clean, Asides,
         NEW t, NEW o, t = (IF clip.text = NoText THEN Unknown ELSE clip.text), o = clip.owner,
         ~(OwnershipStatus(t, o) = "Owned" /\ (tx.original # Unknown \/ OnlySentinel))
  PROVE  /\ tx.original # Unknown => clip.text = tx.original
         /\ clip.text # Sentinel
<1> USE DEF ClipboardInv
<1>1. /\ serial \in 1..MaxJobs /\ Sentinel = Sentinels[serial] /\ Sentinel \in Text
      /\ Sentinel # NoText /\ Sentinel # Unknown
  BY SentinelsAreOwn, UnknownAssumption DEF Sentinel
<1>2. tx.original # Sentinel BY DEF SentinelsAreNew
<1>3. /\ "self" # Unknown /\ "self" \in Owners
      /\ tx.current # Unknown =>
           "self" \in tx.known /\ (tx.current.kind # "Selected" => tx.current.owner = "self")
  BY UnknownAssumption DEF Owners, CleanIsOurs
<1>4. ~((Mine(t, o) \/ PendingMine(t, o)) /\ (tx.original # Unknown \/ OnlySentinel))
  BY WhenItIsOwned
<1>5. CASE Marking
  <2>1. tx.current = Unknown /\ tx.pending # Unknown /\ tx.pending.text = Sentinel
        /\ tx.pending.kind = "Sentinel" /\ ~tx.meaningful
    BY <1>1, <1>5, OwnedAreKnown DEF Marking
  <2>2. OnlySentinel BY <2>1 DEF OnlySentinel
  <2>3. clip.text # Sentinel BY <1>1, <1>4, <2>1, <2>2 DEF PendingMine
  <2>4. clip # Clip(Sentinel, "self") BY <2>3 DEF Clip
  <2> QED BY <1>5, <2>3, <2>4 DEF CleanIsOurs
<1>6. CASE Marked
  <2>1. tx.current # Unknown /\ tx.current.text = Sentinel /\ tx.current.owner = "self"
        /\ tx.current.kind = "Sentinel" /\ ~tx.meaningful
    BY <1>3, <1>6, UnknownAssumption DEF Marked
  <2>2. clip = Clip(Sentinel, "self") BY <1>6 DEF CleanIsOurs
  <2>3. t = Sentinel /\ o = "self" BY <1>1, <2>2 DEF Clip
  <2>4. Mine(t, o) BY <1>3, <2>1, <2>3 DEF Mine
  <2>5. OnlySentinel BY <2>1 DEF OnlySentinel
  <2> QED BY <1>4, <2>4, <2>5
<1>7. CASE Converting
  <2>1. /\ tx.current \in OwnedTexts /\ tx.current.text \in Text
        /\ tx.current.text \notin {Sentinel, NoText} /\ "self" \in tx.known
        /\ tx.pending = Owned("Converted", Convert(tx.current.text), Unknown)
    BY <1>3, <1>7, UnknownAssumption DEF Converting, Taken, OwnedTexts
  <2>2. /\ Convert(tx.current.text) \in Text \ {NoText}
        /\ Convert(tx.current.text) # Sentinel
    BY <1>1, <2>1, ConversionIsMeant
  <2>3. tx.pending # Unknown /\ tx.pending.text = Convert(tx.current.text)
    BY <2>1, <2>2, OwnedAreKnown
  <2>4. \/ tx.current.owner = "app" /\ clip = Clip(tx.current.text, "app")
        \/ clip = Clip(tx.pending.text, "self")
    BY <1>7 DEF CleanIsOurs
  <2>5. CASE tx.current.owner = "app" /\ clip = Clip(tx.current.text, "app")
    <3>1. t = tx.current.text /\ o = "app" /\ clip.text = tx.current.text
      BY <2>1, <2>5 DEF Clip
    <3>2. tx.current # Unknown /\ tx.current.owner # Unknown
      BY <2>1, <2>5, UnknownAssumption DEF Owners
    <3>3. Mine(t, o) BY <2>5, <3>1, <3>2 DEF Mine
    <3> QED BY <1>4, <2>1, <3>1, <3>3
  <2>6. CASE clip = Clip(tx.pending.text, "self")
    <3>1. t = tx.pending.text /\ o = "self" /\ clip.text = tx.pending.text
      BY <2>2, <2>3, <2>6 DEF Clip
    <3>2. PendingMine(t, o) BY <1>3, <2>1, <2>3, <3>1 DEF PendingMine
    <3> QED BY <1>4, <2>2, <2>3, <3>1, <3>2
  <2> QED BY <2>4, <2>5, <2>6
<1>8. CASE Replaced
  <2>1. /\ tx.current \in OwnedTexts /\ tx.current.owner = "self"
        /\ tx.current.text \notin {Sentinel, NoText}
    BY <1>3, <1>8, UnknownAssumption DEF Replaced
  <2>2. clip = Clip(tx.current.text, "self") BY <1>8 DEF CleanIsOurs
  <2>3. t = tx.current.text /\ o = "self" /\ clip.text = tx.current.text
    BY <2>1, <2>2 DEF Clip
  <2>4. tx.current # Unknown BY <2>1, UnknownAssumption
  <2>5. Mine(t, o) BY <1>3, <2>1, <2>3, <2>4 DEF Mine
  <2> QED BY <1>4, <2>1, <2>3, <2>5
<1> QED BY <1>5, <1>6, <1>7, <1>8 DEF TxInOrder

\* A copy of somebody else is taken for the job's own only when the job took it
\* for the selection or its application counts as an owner of what the job wrote.
LEMMA CopiesAreNotOwned ==
  ASSUME ClipboardInv, pc = "rollback", NEW t, NEW o,
         Mine(t, o) \/ PendingMine(t, o)
  PROVE  /\ /\ ReadsIt(t, o) \/ ReadFails(t, o)
            /\ clip \in [text : Foreign, owner : {"app", "other"}]
            => Spared(clip)
         /\ o = Unknown => tx.current = Unknown
<1> USE DEF ClipboardInv
<1>1. /\ Sentinel \in Text /\ Sentinel \notin Foreign /\ Sentinel # NoText
      /\ Sentinel # Unknown /\ Unknown # NoText
  BY SentinelsAreOwn, UnknownAssumption, TextsAssumption
<1>2. tx.known \subseteq Owners /\ Unknown \notin Owners
  BY UnknownAssumption DEF JobTyped, Transactions
<1>3. ASSUME Mine(t, o), o = Unknown PROVE FALSE BY <1>3 DEF Mine
<1>4. ASSUME ReadsIt(t, o) \/ ReadFails(t, o), o # Unknown, t # Unknown
      PROVE  o = clip.owner /\ t = clip.text
  BY <1>4 DEF ReadsIt, ReadFails, OwnerToken
<1>5. ASSUME ReadsIt(t, o) \/ ReadFails(t, o), t = Sentinel PROVE clip.text \notin Foreign
  BY <1>1, <1>5 DEF ReadsIt, ReadFails
<1>6. CASE Marking
  <2>1. tx.current = Unknown /\ tx.pending.text = Sentinel
    BY <1>1, <1>6, OwnedAreKnown DEF Marking
  <2>2. t = Sentinel BY <2>1 DEF Mine, PendingMine
  <2> QED BY <1>5, <2>1, <2>2
<1>7. CASE Marked
  <2>1. Mine(t, o) /\ tx.current.text = Sentinel BY <1>7 DEF Marked, PendingMine
  <2>2. t = Sentinel BY <2>1 DEF Mine
  <2> QED BY <1>3, <1>5, <2>1, <2>2
<1>8. CASE Replaced
  <2>1. tx.pending = Unknown /\ tx.current \in OwnedTexts /\ tx.current.text \in Text
        /\ (tx.current.owner # Unknown => tx.current.owner \in tx.known)
    BY <1>8 DEF Replaced, OwnedTexts
  <2>2. Mine(t, o) BY <2>1 DEF PendingMine
  <2>3. /\ o # Unknown /\ o \in tx.known /\ t # Unknown
        /\ tx.current # Unknown /\ tx.current.text = t
    BY <2>1, <2>2, UnknownAssumption DEF Mine
  <2>4. ReadsIt(t, o) \/ ReadFails(t, o) => CountsAsTheJobs(clip)
    BY <1>4, <2>3 DEF CountsAsTheJobs
  <2> QED BY <2>3, <2>4 DEF Spared
<1>9. CASE Converting
  <2>1. /\ tx.current \in OwnedTexts /\ tx.current.kind = "Selected"
        /\ tx.current.text \in Text \ {NoText}
        /\ tx.pending = Owned("Converted", Convert(tx.current.text), Unknown)
    BY <1>9 DEF Converting, Taken, OwnedTexts
  <2>2. Convert(tx.current.text) \in Text BY <2>1, ConversionKeepsNames
  <2>3. tx.pending # Unknown /\ tx.pending.kind = "Converted" /\ tx.pending.text \in Text
    BY <2>1, <2>2, OwnedAreKnown
  <2>4. CASE PendingMine(t, o)
    <3>1. o \in tx.known /\ o # Unknown /\ t = tx.pending.text /\ t # Unknown
      BY <1>2, <2>3, <2>4, UnknownAssumption DEF PendingMine
    <3>2. ReadsIt(t, o) \/ ReadFails(t, o) => CountsAsTheJobs(clip)
      BY <1>4, <2>3, <3>1 DEF CountsAsTheJobs
    <3> QED BY <3>1, <3>2 DEF Spared
  <2>5. CASE Mine(t, o)
    <3>1. /\ o # Unknown /\ t # Unknown /\ tx.current.owner = o /\ tx.current.text = t
      BY <2>1, <2>5, UnknownAssumption DEF Mine
    <3>2. ASSUME ReadsIt(t, o) \/ ReadFails(t, o)
          PROVE  tx.current = Owned("Selected", clip.text, clip.owner)
      <4>1. o = clip.owner /\ t = clip.text BY <1>4, <3>1, <3>2
      <4> QED BY <2>1, <3>1, <4>1 DEF OwnedTexts, Owned
    <3> QED BY <3>1, <3>2 DEF Spared
  <2> QED BY <2>4, <2>5
<1> QED BY <1>6, <1>7, <1>8, <1>9 DEF TxInOrder

\* The job is over or it puts the user's text back.
LEMMA ClosingsAreRight ==
  ASSUME ClipboardInv, UNCHANGED <<desktop, landing, selection, tx, poll, runnerVars>>,
         pc \in {"rollback", "restore"}, pc' \in {"restore", "finish"},
         clip' \in Clips, clean' \in BOOLEAN,
         clip'.text \in {clip.text, tx.original, NoText} \cup Foreign,
         CleanIsOurs', CopiesAreKept'
  PROVE  ClipboardInv'
<1> USE DEF ClipboardInv
<1>1. /\ serial' = serial /\ Sentinel' = Sentinel /\ Marked' = Marked /\ Marking' = Marking
      /\ Converting' = Converting /\ Replaced' = Replaced
  BY ShapesStay DEF runnerVars
<1>2. Ahead' = Ahead BY <1>1 DEF Ahead
<1>3. JobTyped' BY DEF JobTyped
<1>4. JobsCounted' BY DEF JobsCounted, runnerVars
<1>5. TxInOrder' BY <1>1 DEF TxInOrder
<1>6. LandingInOrder' BY DEF LandingInOrder
<1>7. \A i \in Ahead : Sentinels[i] \notin {clip.text, tx.original, NoText} \cup Foreign
  BY TextsAssumption DEF Ahead, SentinelsAreNew
<1>8. SentinelsAreNew' BY <1>1, <1>2, <1>7 DEF SentinelsAreNew
<1>9. OldTextIsTold' BY DEF OldTextIsTold
<1> QED BY <1>3, <1>4, <1>5, <1>6, <1>8, <1>9

\* The check of the rollback finds the job's own text and nobody else's.
LEMMA RollbackChecksIsRight == ASSUME ClipboardInv, RollbackChecks PROVE ClipboardInv'
<1> USE DEF ClipboardInv
<1>1. pc = "rollback" /\ UNCHANGED <<desktop, landing, selection, tx, poll, runnerVars>>
  BY DEF RollbackChecks
<1>2. Sentinel' = Sentinel /\ Asides' = (tx.meaningful \/ since' = {})
  BY <1>1 DEF runnerVars, Sentinel, Asides
<1>3. clip \in Clips /\ clean \in BOOLEAN BY DEF JobTyped
<1>4. CASE tx.original # Unknown /\ tx.owner = Unknown
  <2>1. pc' = "finish" /\ UNCHANGED <<clip, since, clean, copied>>
    BY <1>4 DEF RollbackChecks
  <2>2. ~(desktop = "x11" /\ clean) BY <1>4 DEF CleanIsOurs
  <2>3. CleanIsOurs' BY <1>1, <2>1, <2>2 DEF CleanIsOurs
  <2>4. CopiesAreKept' BY <1>1, <2>1 DEF CopiesAreKept
  <2> QED BY <1>1, <1>3, <2>1, <2>3, <2>4, ClosingsAreRight
<1>5. CASE ~(tx.original # Unknown /\ tx.owner = Unknown)
  <2>1. PICK t, o :
          /\ Observe(t, o)
          /\ pc' = IF OwnershipStatus(t, o) = "Owned" /\ (tx.original # Unknown \/ OnlySentinel)
                   THEN "restore" ELSE "finish"
    BY <1>5 DEF RollbackChecks
  <2>2. /\ ReadsIt(t, o) \/ ReadFails(t, o) \/ CopyInTheRead(t, o)
        /\ clip' \in Clips /\ clip'.text \in {clip.text} \cup Foreign
        /\ clean' \in BOOLEAN /\ (clean' => clean)
    BY <2>1, WhatAReadFinds
  <2>3. pc' \in {"restore", "finish"} BY <2>1
  <2>4. CleanIsOurs'
    <3> SUFFICES ASSUME desktop = "x11", clean' PROVE CleanIsOurs'
      BY <1>1 DEF CleanIsOurs
    <3>1. ReadsIt(t, o) BY <1>1, <2>2 DEF ReadFails, CopyInTheRead
    <3>2. /\ clip' = clip /\ since' = since /\ clean
          /\ t = (IF clip.text = NoText THEN Unknown ELSE clip.text) /\ o = clip.owner
      BY <2>2, <3>1 DEF ReadsIt, OwnerToken
    <3>3. tx'.original # Unknown => tx'.owner # Unknown BY <1>1, <1>5
    <3>4. CASE pc' = "restore" BY <1>1, <3>2, <3>3, <3>4 DEF CleanIsOurs
    <3>5. CASE pc' = "finish"
      <4>1. Asides' = Asides BY <1>2, <3>2 DEF Asides
      <4>2. Asides => /\ tx.original # Unknown => clip.text = tx.original
                      /\ clip.text # Sentinel
        BY <1>1, <2>1, <3>2, <3>5, OwnIsFound
      <4> QED BY <1>1, <1>2, <3>2, <3>3, <3>5, <4>1, <4>2 DEF CleanIsOurs
    <3> QED BY <2>3, <3>4, <3>5
  <2>5. CopiesAreKept'
    <3>1. pc' = "restore" => Mine(t, o) \/ PendingMine(t, o) BY <2>1, WhenItIsOwned
    <3>2. CASE ReadsIt(t, o) \/ ReadFails(t, o)
      <4>1. clip' = clip /\ copied' = copied BY <3>2 DEF ReadsIt, ReadFails
      <4>2. copied # Unknown => clip = copied /\ copied \in [text : Foreign, owner : {"app", "other"}]
        BY <1>1 DEF CopiesAreKept
      <4>3. copied # Unknown /\ pc' = "restore"
              => Spared(copied)
        BY <1>1, <3>1, <3>2, <4>2, CopiesAreNotOwned
      <4>4. copied # Unknown /\ pc' = "restore" => Spared(copied)'
        BY <1>1, <4>1, <4>3 DEF Spared, CountsAsTheJobs
      <4> QED BY <1>1, <2>3, <4>1, <4>2, <4>4 DEF CopiesAreKept
    <3>3. CASE CopyInTheRead(t, o)
      <4>1. PICK by \in {"app", "other"}, new \in Foreign :
              /\ clip' = Clip(new, by) /\ o = Unknown
              /\ copied' = IF tx.current = Unknown THEN Unknown ELSE Clip(new, by)
        BY <1>1, <3>3 DEF CopyInTheRead
      <4>2. pc' = "restore" => copied' = Unknown
        BY <1>1, <3>1, <4>1, CopiesAreNotOwned
      <4> QED BY <2>3, <4>1, <4>2 DEF CopiesAreKept, Clip
    <3> QED BY <2>2, <3>2, <3>3
  <2> QED BY <1>1, <2>2, <2>3, <2>4, <2>5, ClosingsAreRight
<1> QED BY <1>4, <1>5

\* Putting the user's text back, or clearing a sentinel.
LEMMA RollbackRestoresIsRight == ASSUME ClipboardInv, RollbackRestores PROVE ClipboardInv'
<1> USE DEF ClipboardInv
<1>1. /\ pc = "restore" /\ pc' = "finish"
      /\ UNCHANGED <<desktop, landing, selection, tx, poll, runnerVars, copied, since>>
  BY DEF RollbackRestores
<1>2. tx \in Transactions /\ clip \in Clips /\ clean \in BOOLEAN BY DEF JobTyped
<1>3. tx.original \in Text \cup {Unknown} BY <1>2 DEF Transactions
<1> DEFINE put == IF tx.original # Unknown THEN tx.original ELSE NoText
<1>4. \/ clean' = clean /\ clip' = Clip(put, "self")
      \/ clip' = clip /\ clean' = FALSE
  BY DEF RollbackRestores
<1>5. put \in Text /\ put \in {tx.original, NoText} BY <1>3, TextsAssumption
<1> HIDE DEF put
<1>6. /\ clip' \in Clips /\ clean' \in BOOLEAN
      /\ clip'.text \in {clip.text, tx.original, NoText} \cup Foreign
  <2>1. CASE clean' = clean /\ clip' = Clip(put, "self")
    <3>1. clean' \in BOOLEAN BY <1>2, <2>1
    <3>2. clip' \in Clips /\ clip'.text = put BY <1>5, <2>1 DEF Clip, Clips, Owners
    <3> QED BY <1>5, <3>1, <3>2
  <2>2. CASE clip' = clip /\ clean' = FALSE BY <1>2, <2>2
  <2> QED BY <1>4, <2>1, <2>2
<1>7. Sentinel' = Sentinel /\ tx.original # Sentinel /\ NoText # Sentinel
  BY <1>1, SentinelsAreOwn DEF runnerVars, Sentinel, SentinelsAreNew
<1>8. CleanIsOurs'
  <2> SUFFICES ASSUME desktop = "x11", clean' PROVE CleanIsOurs'
    BY <1>1 DEF CleanIsOurs
  <2>1. clean /\ clip'.text = put
    <3>1. clean' = clean /\ clip' = Clip(put, "self") BY <1>4
    <3>2. clip'.text = put BY <3>1 DEF Clip
    <3>3. clean BY <3>1
    <3> QED BY <3>2, <3>3
  <2>2. tx.original # Unknown => tx.owner # Unknown BY <2>1 DEF CleanIsOurs
  <2> QED BY <1>1, <1>7, <2>1, <2>2 DEF CleanIsOurs, put
<1>9. CopiesAreKept' BY <1>1 DEF CopiesAreKept, Spared, CountsAsTheJobs
<1> QED BY <1>1, <1>6, <1>8, <1>9, ClosingsAreRight

\* Nothing has been written and no sentinel is in use.
LEMMA ClipboardStartsRight == ASSUME ClipboardInit PROVE ClipboardInv
<1>1. /\ pc = "idle" /\ tx = NoTx /\ poll = NoPoll /\ landing = << >> /\ serial = 0
      /\ copied = Unknown /\ since = {} /\ clean = TRUE /\ selection \in Selections
      /\ desktop \in {"x11", "wayland"} /\ channel = 0 /\ jobs = 0 /\ hotkey = FALSE
      /\ clip \in {Clip(Original, "app"), Clip(Original, "other"), Clip(NoText, "other")}
  BY DEF ClipboardInit
<1>2. NoTx \in Transactions /\ NoPoll \in Polls
  BY DEF NoTx, NoPoll, Transactions, Polls
<1>3. clip \in Clips /\ clip.text \in {Original, NoText}
  BY <1>1, TextsAssumption DEF Clip, Clips, Owners
<1>4. JobTyped BY <1>1, <1>2, <1>3 DEF JobTyped
<1>5. JobsCounted
  <2>1. MaxJobs \in Nat BY TextsAssumption
  <2>2. serial + channel = 0 /\ serial + channel <= jobs /\ jobs <= MaxJobs BY <1>1, <2>1
  <2>3. channel \in Nat /\ serial \in Nat /\ jobs \in Nat BY <1>1
  <2> QED BY <1>1, <2>2, <2>3 DEF JobsCounted
<1>6. TxInOrder BY <1>1 DEF TxInOrder
<1>7. LandingInOrder BY <1>1 DEF LandingInOrder
<1>8. tx.original = Unknown /\ tx.current = Unknown /\ poll.text = Unknown
  BY <1>1 DEF NoTx, NoPoll
<1>9. SentinelsAreNew
  BY <1>1, <1>3, <1>8, TextsAssumption, UnknownAssumption DEF SentinelsAreNew, Ahead
<1>10. OldTextIsTold BY <1>8 DEF OldTextIsTold
<1>11. CleanIsOurs BY <1>1, <1>8 DEF CleanIsOurs
<1>12. CopiesAreKept BY <1>1 DEF CopiesAreKept
<1> QED BY <1>4, <1>5, <1>6, <1>7, <1>9, <1>10, <1>11, <1>12 DEF ClipboardInv

\* Every step of the job, of the event loop and of the applications.
LEMMA ClipboardStepIsRight ==
  ASSUME ClipboardInv, [ClipboardNext]_clipboardVars
  PROVE  ClipboardInv'
<1>1. CASE Job
  BY <1>1, JobStartsIsRight, BeginIsRight, WriteSentinelIsRight, RecordOwnerIsRight, ConfirmSentinelIsRight,
     CopySelectionIsRight, PollIsRight, WriteConvertedIsRight, PasteIsRight,
     RollbackChecksIsRight, RollbackRestoresIsRight, JobEndsIsRight DEF Job
<1>2. CASE UNCHANGED clipboardVars
  <2>1. UNCHANGED <<channel, serial, jobs, hotkey, pc>> BY <1>2 DEF clipboardVars
  <2>2. JobsCounted' BY <2>1 DEF ClipboardInv, JobsCounted
  <2>3. UNCHANGED jobState BY <1>2 DEF clipboardVars, jobState
  <2> QED BY <2>2, <2>3, InvIsOfJobState
<1> QED BY <1>1, <1>2, HotkeyIsRight, RunPendingIsRight, WriteLandsIsRight, AppCopiesIsRight,
           AppPastesIsRight, ForeignCopyIsRight DEF ClipboardNext

\* The invariant of a job of the selected text.
THEOREM ClipboardIsInOrder == ClipboardSpec => []ClipboardInv
<1>1. ClipboardInit => ClipboardInv BY ClipboardStartsRight
<1>2. ClipboardInv /\ [ClipboardNext]_clipboardVars => ClipboardInv'
  BY ClipboardStepIsRight
<1> QED BY <1>1, <1>2, PTL DEF ClipboardSpec

\* When nobody else used the clipboard and the owner is known, a job ends with the
\* text it began with, whichever of its calls failed before the rollback: the
\* rollback of selected_text/clipboard.rs recognises the write that failed, the
\* sentinel, the selection and the replacement as its own.  For any texts, any
\* number of jobs, copies and faults.
THEOREM TheUsersTextComesBack == ClipboardSpec => []ClipboardIsCleanedUp
<1>1. ClipboardInv => ClipboardIsCleanedUp
  BY DEF ClipboardInv, CleanIsOurs, Asides, ClipboardIsCleanedUp
<1> QED BY <1>1, ClipboardIsInOrder, PTL

\* wait_for_copied_text never takes the text of before the job for the selection,
\* and the rollback never takes a copy of somebody else for its own: a copy that
\* has to survive the job is in the clipboard at its end, unless the job took that
\* very copy for the selection, or its application had been found the owner of a
\* text the job had just written (known_write_owners) and copied that same text.
THEOREM NobodysCopyIsTaken == ClipboardSpec => []CopiesAreToldApart
<1>1. ClipboardInv => CopiesAreToldApart
  BY DEF ClipboardInv, OldTextIsTold, CopiesAreKept, Spared, CopiesAreToldApart
<1> QED BY <1>1, ClipboardIsInOrder, PTL

----------------------------------------------------------------------------
(***************************************************************************)
(* The conversion of a text (LayoutConversion): a second switch undoes the *)
(* first, for a text of any length.                                        *)
(***************************************************************************)

\* A set of positions has a first and a last one.
LEMMA LeastExists ==
  ASSUME NEW T \in SUBSET Nat, T # {} PROVE \E x \in T : \A y \in T : x <= y
<1>1. PICK x \in T : \A y \in T : ~(<<y, x>> \in OpToRel(<, Nat))
  BY NatLessThanWellFounded, WFMin
<1>2. ASSUME NEW y \in T PROVE x <= y
  <2>1. ~(<<y, x>> \in OpToRel(<, Nat)) BY <1>1
  <2>2. ~(y < x) BY <2>1 DEF OpToRel
  <2> QED BY <2>2
<1> QED BY <1>2

LEMMA PositionsHaveEnds ==
  ASSUME NEW n \in Nat, NEW T \in SUBSET (1..n), T # {}
  PROVE  Min(T) \in T /\ Max(T) \in T
<1>1. \E x \in T : \A y \in T : x <= y
  <2>1. T \in SUBSET Nat OBVIOUS
  <2> QED BY <2>1, LeastExists
<1>2. Min(T) \in T BY <1>1 DEF Min
<1> DEFINE U == {n - x : x \in T}
<1>3. U \in SUBSET Nat /\ U # {}
  <2>1. \A x \in T : n - x \in Nat OBVIOUS
  <2> QED BY <2>1
<1>4. PICK u \in U : \A v \in U : u <= v
  <2> HIDE DEF U
  <2> QED BY <1>3, LeastExists
<1>5. PICK x \in T : u = n - x OBVIOUS
<1>6. ASSUME NEW y \in T PROVE x >= y
  <2>1. n - y \in U OBVIOUS
  <2>2. n - x <= n - y BY <1>4, <1>5, <2>1
  <2> QED BY <2>2
<1>7. Max(T) \in T BY <1>6 DEF Max
<1> QED BY <1>2, <1>7

\* The keys by their characters.
Types(a, b) ==
  \/ a = "a" /\ b = "ru_f"
  \/ a = "," /\ b = "ru_b"
  \/ a = "." /\ b = "ru_yu"
  \/ a = "[" /\ b = "ru_kh"
  \/ a = "/" /\ b = "."
  \/ a = "?" /\ b = ","
  \/ a = "&" /\ b = "?"
  \/ a = "|" /\ b = "/"
  \/ a = "1" /\ b = "1"
  \/ a = " " /\ b = " "

LEMMA KeysType ==
  ASSUME NEW k \in KeyTable PROVE k = <<k[1], k[2]>> /\ Types(k[1], k[2])
<1>1. ASSUME NEW a, NEW b, k = <<a, b>>, Types(a, b)
      PROVE  k = <<k[1], k[2]>> /\ Types(k[1], k[2])
  BY <1>1
<1> QED BY <1>1 DEF KeyTable, Types

\* A key types one character in each layout.
LEMMA KeysAreTold ==
  ASSUME NEW k \in KeyTable
  PROVE  /\ EnToRuChar(k[1]) = k[2] /\ RuToEnChar(k[2]) = k[1]
         /\ k[1] \in Us /\ k[2] \in Ru
         /\ k[1] = "a" <=> k[2] = "ru_f"
         /\ k[1] \notin Cyrillic /\ k[2] \notin Latin
         /\ k[1] = " " <=> k[2] = " "
<1>1. ASSUME NEW l \in KeyTable, l[1] = k[1] \/ l[2] = k[2] PROVE l = k
  <2>1. k = <<k[1], k[2]>> /\ Types(k[1], k[2]) /\ l = <<l[1], l[2]>> /\ Types(l[1], l[2])
    BY KeysType
  <2>2. l[1] = k[1] /\ l[2] = k[2] BY <1>1, <2>1 DEF Types
  <2> QED BY <2>1, <2>2
<1>2. (CHOOSE l \in KeyTable : l[1] = k[1]) = k BY <1>1
<1>3. (CHOOSE l \in KeyTable : l[2] = k[2]) = k BY <1>1
<1>4. k[1] \in Us /\ k[2] \in Ru BY DEF Us, Ru
<1>5. EnToRuChar(k[1]) = k[2] /\ RuToEnChar(k[2]) = k[1]
  BY <1>2, <1>3, <1>4 DEF EnToRuChar, RuToEnChar
<1>6. /\ k[1] = "a" <=> k[2] = "ru_f"
      /\ k[1] \notin Cyrillic /\ k[2] \notin Latin
      /\ k[1] = " " <=> k[2] = " "
  <2>1. Types(k[1], k[2]) BY KeysType
  <2> QED BY <2>1 DEF Types, Cyrillic, Latin
<1> QED BY <1>4, <1>5, <1>6

\* What a key types in one layout is converted to what it types in the other.
LEMMA CharactersComeBack ==
  /\ \A c \in Us :
       /\ EnToRuChar(c) \in Ru /\ RuToEnChar(EnToRuChar(c)) = c
       /\ c = "a" => EnToRuChar(c) = "ru_f"
       /\ c = " " => EnToRuChar(c) = c
       /\ c \notin Cyrillic
  /\ \A c \in Ru :
       /\ RuToEnChar(c) \in Us /\ EnToRuChar(RuToEnChar(c)) = c
       /\ c = "ru_f" => RuToEnChar(c) = "a"
       /\ c = " " => RuToEnChar(c) = c
       /\ c \notin Latin
<1>1. ASSUME NEW c \in Us
      PROVE  /\ EnToRuChar(c) \in Ru /\ RuToEnChar(EnToRuChar(c)) = c
             /\ c = "a" => EnToRuChar(c) = "ru_f"
             /\ c = " " => EnToRuChar(c) = c
             /\ c \notin Cyrillic
  <2>1. PICK k \in KeyTable : c = k[1] BY DEF Us
  <2> QED BY <2>1, KeysAreTold
<1>2. ASSUME NEW c \in Ru
      PROVE  /\ RuToEnChar(c) \in Us /\ EnToRuChar(RuToEnChar(c)) = c
             /\ c = "ru_f" => RuToEnChar(c) = "a"
             /\ c = " " => RuToEnChar(c) = c
             /\ c \notin Latin
  <2>1. PICK k \in KeyTable : c = k[2] BY DEF Ru
  <2> QED BY <2>1, KeysAreTold
<1> QED BY <1>1, <1>2

\* A direction is the one of some word of the text, if there is a word.
LEMMA DirectionIsOfAWord ==
  ASSUME NEW t, Len(t) \in Nat, TextAt(t) # {}, NEW i \in 1..Len(t)
  PROVE  \E k \in TextAt(t) : DirectionAt(t, i) = SegmentDirection(t, k)
<1> DEFINE before == {j \in TextAt(t) : j <= i}
           after == {j \in TextAt(t) : j > i}
<1>1. TextAt(t) \in SUBSET (1..Len(t)) BY DEF TextAt
<1>2. before \in SUBSET (1..Len(t)) /\ after \in SUBSET (1..Len(t)) BY <1>1
<1>3. before # {} \/ after # {}
  <2>1. \A j \in TextAt(t) : j <= i \/ j > i BY <1>1
  <2> QED BY <2>1
<1>4. DirectionAt(t, i) = IF before # {} THEN SegmentDirection(t, Max(before))
                          ELSE IF after # {} THEN SegmentDirection(t, Min(after))
                          ELSE "none"
  BY DEF DirectionAt
<1>5. before # {} => Max(before) \in TextAt(t)
  <2>1. before # {} => Max(before) \in before
    <3> HIDE DEF before
    <3> QED BY <1>2, PositionsHaveEnds
  <2> QED BY <2>1
<1>6. after # {} => Min(after) \in TextAt(t)
  <2>1. after # {} => Min(after) \in after
    <3> HIDE DEF after
    <3> QED BY <1>2, PositionsHaveEnds
  <2> QED BY <2>1
<1> HIDE DEF before, after
<1> QED BY <1>3, <1>4, <1>5, <1>6

\* The letters of a segment decide its direction when they are of one alphabet.
LEMMA AlphabetDecides ==
  ASSUME NEW t, Len(t) \in Nat, NEW k \in TextAt(t)
  PROVE  /\ (\A j \in 1..Len(t) : t[j] \notin Cyrillic) => SegmentDirection(t, k) = "EnToRu"
         /\ (\A j \in 1..Len(t) : t[j] \notin Latin) => SegmentDirection(t, k) = "RuToEn"
<1> DEFINE latin == {j \in SegmentOf(t, k) : t[j] \in Latin}
           cyrillic == {j \in SegmentOf(t, k) : t[j] \in Cyrillic}
<1>1. SegmentOf(t, k) \in SUBSET (1..Len(t)) BY DEF SegmentOf
<1>2. IsFiniteSet(1..Len(t)) BY FS_Interval
<1>3. IsFiniteSet(latin) /\ IsFiniteSet(cyrillic)
  <2>1. latin \subseteq 1..Len(t) /\ cyrillic \subseteq 1..Len(t) BY <1>1
  <2> QED BY <1>2, <2>1, FS_Subset
<1>4. k \in 1..Len(t) /\ t[k] \in Letters /\ k \in SegmentOf(t, k)
  <2>1. k \in 1..Len(t) /\ Kind(t[k]) = "Text" BY DEF TextAt
  <2>2. t[k] \in Letters BY <2>1 DEF Kind
  <2>3. k \in SegmentOf(t, k)
    <3>1. \A n \in 1..Len(t) : (k <= n /\ n <= k) => n = k BY <2>1
    <3> QED BY <2>1, <3>1 DEF SegmentOf
  <2> QED BY <2>1, <2>2, <2>3
<1>5. SegmentDirection(t, k) =
        IF Cardinality(cyrillic) > Cardinality(latin) THEN "RuToEn" ELSE "EnToRu"
  BY DEF SegmentDirection
<1>6. Cardinality(latin) \in Nat /\ Cardinality(cyrillic) \in Nat
  BY <1>3, FS_CardinalityType
<1>7. ASSUME \A j \in 1..Len(t) : t[j] \notin Cyrillic PROVE SegmentDirection(t, k) = "EnToRu"
  <2>1. cyrillic = {} BY <1>1, <1>7
  <2>2. Cardinality(cyrillic) = 0 BY <2>1, FS_EmptySet
  <2> HIDE DEF latin, cyrillic
  <2> QED BY <1>5, <1>6, <2>2
<1>8. ASSUME \A j \in 1..Len(t) : t[j] \notin Latin PROVE SegmentDirection(t, k) = "RuToEn"
  <2>1. latin = {} BY <1>1, <1>8
  <2>2. Cardinality(latin) = 0 BY <2>1, FS_EmptySet
  <2>3. k \in cyrillic BY <1>4, <1>8 DEF Letters
  <2>4. Cardinality(cyrillic) # 0 BY <1>3, <2>3, FS_EmptySet
  <2> HIDE DEF latin, cyrillic
  <2> QED BY <1>5, <1>6, <2>2, <2>4
<1> QED BY <1>7, <1>8

\* A text typed in the English layout is converted to what its keys type in the
\* Russian one, and the other way round.
LEMMA EnglishIsConverted ==
  ASSUME NEW t \in Seq(Us), NEW n \in 1..Len(t), t[n] = "a"
  PROVE  Convert(t) = [i \in 1..Len(t) |-> EnToRuChar(t[i])]
<1>1. Len(t) \in Nat /\ \A i \in 1..Len(t) : t[i] \in Us OBVIOUS
<1>2. n \in TextAt(t) BY DEF TextAt, Kind, Letters, Latin
<1>3. \A i \in 1..Len(t) : t[i] \notin Cyrillic BY <1>1, CharactersComeBack
<1>4. \A k \in TextAt(t) : SegmentDirection(t, k) = "EnToRu"
  BY <1>1, <1>3, AlphabetDecides
<1>5. \A i \in 1..Len(t) : DirectionAt(t, i) = "EnToRu"
  BY <1>1, <1>2, <1>4, DirectionIsOfAWord
<1>6. \A i \in 1..Len(t) : t[i] = " " => EnToRuChar(t[i]) = t[i]
  BY <1>1, CharactersComeBack
<1> QED BY <1>5, <1>6 DEF Convert, Kind

LEMMA RussianIsConverted ==
  ASSUME NEW t \in Seq(Ru), NEW n \in 1..Len(t), t[n] = "ru_f"
  PROVE  Convert(t) = [i \in 1..Len(t) |-> RuToEnChar(t[i])]
<1>1. Len(t) \in Nat /\ \A i \in 1..Len(t) : t[i] \in Ru OBVIOUS
<1>2. n \in TextAt(t) BY DEF TextAt, Kind, Letters, Cyrillic
<1>3. \A i \in 1..Len(t) : t[i] \notin Latin BY <1>1, CharactersComeBack
<1>4. \A k \in TextAt(t) : SegmentDirection(t, k) = "RuToEn"
  BY <1>1, <1>3, AlphabetDecides
<1>5. \A i \in 1..Len(t) : DirectionAt(t, i) = "RuToEn"
  BY <1>1, <1>2, <1>4, DirectionIsOfAWord
<1>6. \A i \in 1..Len(t) : t[i] = " " => RuToEnChar(t[i]) = t[i]
  BY <1>1, CharactersComeBack
<1> QED BY <1>5, <1>6 DEF Convert, Kind

\* A second switch of the selected text undoes the first one
\* (convert_selected_text), for every text typed in one layout, of any length.
THEOREM SecondSwitchUndoesFirst ==
  ASSUME NEW t \in Seq(Chars), TypedInOneLayout(t) PROVE Convert(Convert(t)) = t
<1>1. Len(t) \in Nat /\ DOMAIN t = 1..Len(t) /\ t = [i \in 1..Len(t) |-> t[i]] OBVIOUS
<1>2. CASE Range(t) \subseteq Us /\ "a" \in Range(t)
  <2>1. \A i \in 1..Len(t) : t[i] \in Us BY <1>1, <1>2 DEF Range
  <2>2. t \in Seq(Us) BY <1>1, <2>1
  <2>3. PICK n \in 1..Len(t) : t[n] = "a" BY <1>1, <1>2 DEF Range
  <2> DEFINE u == [i \in 1..Len(t) |-> EnToRuChar(t[i])]
  <2>4. Convert(t) = u BY <2>2, <2>3, EnglishIsConverted
  <2>5. u \in Seq(Ru) /\ Len(u) = Len(t)
    <3>1. u \in [1..Len(t) -> Ru] BY <2>1, CharactersComeBack
    <3> HIDE DEF u
    <3> QED BY <1>1, <3>1
  <2>6. u[n] = "ru_f" BY <2>1, <2>3, CharactersComeBack
  <2>7. Convert(u) = [i \in 1..Len(u) |-> RuToEnChar(u[i])]
    <3> HIDE DEF u
    <3> QED BY <2>5, <2>6, RussianIsConverted
  <2>8. \A i \in 1..Len(t) : RuToEnChar(u[i]) = t[i] BY <2>1, CharactersComeBack
  <2> HIDE DEF u
  <2> QED BY <1>1, <2>4, <2>5, <2>7, <2>8
<1>3. CASE Range(t) \subseteq Ru /\ "ru_f" \in Range(t)
  <2>1. \A i \in 1..Len(t) : t[i] \in Ru BY <1>1, <1>3 DEF Range
  <2>2. t \in Seq(Ru) BY <1>1, <2>1
  <2>3. PICK n \in 1..Len(t) : t[n] = "ru_f" BY <1>1, <1>3 DEF Range
  <2> DEFINE u == [i \in 1..Len(t) |-> RuToEnChar(t[i])]
  <2>4. Convert(t) = u BY <2>2, <2>3, RussianIsConverted
  <2>5. u \in Seq(Us) /\ Len(u) = Len(t)
    <3>1. u \in [1..Len(t) -> Us] BY <2>1, CharactersComeBack
    <3> HIDE DEF u
    <3> QED BY <1>1, <3>1
  <2>6. u[n] = "a" BY <2>1, <2>3, CharactersComeBack
  <2>7. Convert(u) = [i \in 1..Len(u) |-> EnToRuChar(u[i])]
    <3> HIDE DEF u
    <3> QED BY <2>5, <2>6, EnglishIsConverted
  <2>8. \A i \in 1..Len(t) : EnToRuChar(u[i]) = t[i] BY <2>1, CharactersComeBack
  <2> HIDE DEF u
  <2> QED BY <1>1, <2>4, <2>5, <2>7, <2>8
<1> QED BY <1>2, <1>3 DEF TypedInOneLayout

\* The same as the property of the run, whose bound on the length is any.
THEOREM TextsComeBack == ClipboardSpec => []RoundTrip
<1>1. RoundTrip
  <2>1. ASSUME NEW t \in SeqOf(Chars, RoundTripLength) PROVE t \in Seq(Chars)
    <3>1. PICK m \in 0..RoundTripLength : t \in [1..m -> Chars] BY DEF SeqOf
    <3>2. m \in Nat OBVIOUS
    <3> QED BY <3>1, <3>2
  <2> QED BY <2>1, SecondSwitchUndoesFirst DEF RoundTrip
<1> QED BY <1>1, PTL

----------------------------------------------------------------------------
(***************************************************************************)
(* The correction of a typed word (WordCorrection), of any keys and any    *)
(* length.                                                                 *)
(***************************************************************************)
\* A word typed with Caps Lock on or off, of any keys.
Strokes(caps) == {Stroke(k, s, caps) : k \in Keys, s \in BOOLEAN}

LEMMA StrokesAreAllowed ==
  ASSUME NEW caps, NEW k \in Keys, NEW s \in BOOLEAN PROVE Stroke(k, s, caps) \in Strokes(caps)
BY DEF Strokes

LEMMA StrokesTyped ==
  ASSUME NEW caps \in BOOLEAN, NEW st \in Strokes(caps)
  PROVE  /\ st.key \in Keys /\ st.shift \in BOOLEAN /\ st.caps = caps
         /\ st = Stroke(st.key, st.shift, caps)
<1>1. PICK k \in Keys, s \in BOOLEAN : st = Stroke(k, s, caps) BY DEF Strokes
<1> QED BY <1>1 DEF Stroke

\* The tail begins after some position of the word, or the word is all tail.
LEMMA TailIsInWord ==
  ASSUME NEW buffer, Len(buffer) \in Nat, NEW layout
  PROVE  TailStart(buffer, layout) \in 0..Len(buffer)
<1> DEFINE I == {i \in 1..Len(buffer) : ~IsTail(buffer[i], layout)}
<1>1. TailStart(buffer, layout) = IF I # {} THEN Max(I) ELSE 0
  BY DEF TailStart, SelectLastInSeq
<1>2. I # {} => Max(I) \in I
  <2>1. I \in SUBSET (1..Len(buffer)) OBVIOUS
  <2> HIDE DEF I
  <2> QED BY <2>1, PositionsHaveEnds
<1> QED BY <1>1, <1>2

\* A stroke of a plan that changes nothing: the case of a letter is in its Shift.
ReplayStroke(st) ==
  Stroke(st.key, IF st.key \in CaseFixKeys THEN IsUpper(st) ELSE st.shift, FALSE)

\* The Shift a replay uses gives back the case of the word as it was typed.
LEMMA ReplayShows ==
  ASSUME NEW caps \in BOOLEAN, NEW typed \in Strokes(caps), NEW layout
  PROVE  LET st == ReplayStroke(typed)
         IN Shown(st.key, ReplayShift(st, caps), caps, layout)
              = Shown(typed.key, typed.shift, caps, layout)
<1> DEFINE st == ReplayStroke(typed)
           k == typed.key
           s == typed.shift
<1>1. s \in BOOLEAN /\ typed.caps = caps BY StrokesTyped
<1>2. st = Stroke(k, IF k \in CaseFixKeys THEN s # caps ELSE s, FALSE)
  BY <1>1 DEF ReplayStroke, IsUpper
<1> HIDE DEF st, k, s
<1>3. ((s # caps) # caps) = s BY <1>1
<1>4. st.key = k BY <1>2 DEF Stroke
<1>5. ReplayShift(st, caps) = s
  <2>1. CASE k \in CaseFixKeys BY <1>2, <1>3, <2>1 DEF ReplayShift, Stroke
  <2>2. CASE k \notin CaseFixKeys BY <1>2, <2>2 DEF ReplayShift, Stroke
  <2> QED BY <2>1, <2>2
<1> QED BY <1>4, <1>5 DEF st, k, s

\* The case of a word stays as it is, or it becomes one capital at the start.
LEMMA PatternIsKeptOrFixed ==
  ASSUME NEW n \in Nat, NEW p, p \in Seq(BOOLEAN), Len(p) = n,
         NEW two \in BOOLEAN, NEW fix \in BOOLEAN
  PROVE  \/ CorrectedPattern(p, two, fix) = p
         \/ (two \/ fix) /\ CorrectedPattern(p, two, fix) = [i \in 1..n |-> i = 1]
BY DEF CorrectedPattern

\* A function on 1..n is a sequence of length n.
LEMMA WordsAreSequences ==
  ASSUME NEW S, NEW n \in Nat, NEW f \in [1..n -> S] PROVE f \in Seq(S) /\ Len(f) = n
OBVIOUS

LEMMA WordHasStrokes ==
  ASSUME NEW S, NEW p \in Seq(S) PROVE \A i \in 1..Len(p) : p[i] \in S
OBVIOUS

LEMMA PartsOfAPlan ==
  ASSUME NEW S, NEW p \in Seq(S), NEW q \in Seq(S)
  PROVE  /\ Len(p \o q) = Len(p) + Len(q) /\ p \o q \in Seq(S)
         /\ \A i \in 1..Len(p) : (p \o q)[i] = p[i]
         /\ \A i \in 1..Len(q) : (p \o q)[Len(p) + i] = q[i]
OBVIOUS

\* What a replay has for each key of a word.
LEMMA NormalizedKeepsKeys ==
  ASSUME NEW caps \in BOOLEAN, NEW buffer \in Seq(Strokes(caps))
  PROVE  /\ Len(NormalizedReplayBuffer(buffer)) = Len(buffer)
         /\ NormalizedReplayBuffer(buffer) \in Seq(Strokes(FALSE))
         /\ \A i \in 1..Len(buffer) :
              NormalizedReplayBuffer(buffer)[i] = ReplayStroke(buffer[i])
<1> DEFINE new == [i \in 1..Len(buffer) |-> ReplayStroke(buffer[i])]
           m == Len(buffer)
<1>1. m \in Nat /\ DOMAIN buffer = 1..m /\ \A i \in 1..m : buffer[i] \in Strokes(caps) OBVIOUS
<1>2. NormalizedReplayBuffer(buffer) = new
  BY <1>1 DEF NormalizedReplayBuffer, ReplayStroke
<1>3. ASSUME NEW i \in 1..m PROVE ReplayStroke(buffer[i]) \in Strokes(FALSE)
  <2>1. buffer[i].key \in Keys /\ buffer[i].shift \in BOOLEAN BY <1>1, StrokesTyped
  <2>2. IsUpper(buffer[i]) \in BOOLEAN BY DEF IsUpper
  <2> QED BY <2>1, <2>2, StrokesAreAllowed DEF ReplayStroke
<1>4. new \in Seq(Strokes(FALSE)) /\ Len(new) = m
  <2>1. new \in [1..m -> Strokes(FALSE)] BY <1>3
  <2> HIDE DEF new
  <2> QED BY <1>1, <2>1, WordsAreSequences
<1>5. \A i \in 1..m : new[i] = ReplayStroke(buffer[i]) OBVIOUS
<1> HIDE DEF new
<1> QED BY <1>2, <1>4, <1>5

\* The strokes of a word with one capital at its start, and what they show.
CapitalFixes(word) == [i \in 1..Len(word) |-> Stroke(word[i].key, i = 1, FALSE)]
OneCapital(word, layout) == [i \in 1..Len(word) |-> <<layout, word[i].key, i = 1>>]

\* The case fixes change a word of letter keys alone, and only to one capital
\* at its start.
LEMMA FixesKeepOrCapitalise ==
  ASSUME NEW caps \in BOOLEAN, NEW buffer \in Seq(Strokes(caps)),
         NEW two \in BOOLEAN, NEW fix \in BOOLEAN
  PROVE  \/ ApplyCaseFixes(buffer, two, fix) = NormalizedReplayBuffer(buffer)
         \/ /\ two \/ fix
            /\ \A i \in 1..Len(buffer) : buffer[i].key \in CaseFixKeys
            /\ ApplyCaseFixes(buffer, two, fix) =
                 CapitalFixes(buffer)
<1> DEFINE m == Len(buffer)
           pattern == [i \in 1..m |-> IsUpper(buffer[i])]
<1>1. m \in Nat /\ DOMAIN buffer = 1..m OBVIOUS
<1>2. \A i \in 1..m : IsUpper(buffer[i]) \in BOOLEAN BY DEF IsUpper
<1>3. pattern \in Seq(BOOLEAN) /\ Len(pattern) = m BY <1>1, <1>2
<1>4. \/ CorrectedPattern(pattern, two, fix) = pattern
      \/ (two \/ fix) /\ CorrectedPattern(pattern, two, fix) = [i \in 1..m |-> i = 1]
  <2> HIDE DEF pattern
  <2> QED BY <1>1, <1>3, PatternIsKeptOrFixed
<1>5. CASE ~(\A i \in 1..m : buffer[i].key \in CaseFixKeys)
  BY <1>1, <1>5 DEF ApplyCaseFixes
<1>6. CASE /\ \A i \in 1..m : buffer[i].key \in CaseFixKeys
           /\ CorrectedPattern(pattern, two, fix) = pattern
  <2>1. ApplyCaseFixes(buffer, two, fix) = [i \in 1..m |-> Stroke(buffer[i].key, pattern[i], FALSE)]
    BY <1>1, <1>6 DEF ApplyCaseFixes
  <2>2. NormalizedReplayBuffer(buffer) = [i \in 1..m |-> Stroke(buffer[i].key, pattern[i], FALSE)]
    BY <1>1, <1>6 DEF NormalizedReplayBuffer
  <2> QED BY <2>1, <2>2
<1>7. CASE /\ \A i \in 1..m : buffer[i].key \in CaseFixKeys
           /\ two \/ fix
           /\ CorrectedPattern(pattern, two, fix) = [i \in 1..m |-> i = 1]
  <2>1. ApplyCaseFixes(buffer, two, fix) =
          [i \in 1..m |-> Stroke(buffer[i].key, CorrectedPattern(pattern, two, fix)[i], FALSE)]
    BY <1>1, <1>7 DEF ApplyCaseFixes
  <2>2. [i \in 1..m |-> Stroke(buffer[i].key, [j \in 1..m |-> j = 1][i], FALSE)]
          = CapitalFixes(buffer)
    BY DEF CapitalFixes
  <2> HIDE DEF pattern
  <2> QED BY <1>7, <2>1, <2>2
<1> QED BY <1>4, <1>5, <1>6, <1>7

\* A replay of the word as it was typed shows it as it was typed.
LEMMA NormalizedIsShown ==
  ASSUME NEW caps \in BOOLEAN, NEW buffer \in Seq(Strokes(caps)), NEW layout, NEW i \in 1..Len(buffer)
  PROVE  LET st == NormalizedReplayBuffer(buffer)[i]
         IN Shown(st.key, ReplayShift(st, caps), caps, layout)
              = Shown(buffer[i].key, buffer[i].shift, caps, layout)
<1>1. NormalizedReplayBuffer(buffer)[i] = ReplayStroke(buffer[i]) BY NormalizedKeepsKeys
<1>2. buffer[i] \in Strokes(caps) OBVIOUS
<1> QED BY <1>1, <1>2, ReplayShows

LEMMA CapitalsAreStrokes ==
  ASSUME NEW caps \in BOOLEAN, NEW word \in Seq(Strokes(caps))
  PROVE  /\ CapitalFixes(word) \in Seq(Strokes(FALSE))
         /\ Len(CapitalFixes(word)) = Len(word)
<1> DEFINE m == Len(word)
<1>1. m \in Nat /\ \A i \in 1..m : word[i] \in Strokes(caps) OBVIOUS
<1>2. ASSUME NEW i \in 1..m PROVE Stroke(word[i].key, i = 1, FALSE) \in Strokes(FALSE)
  <2>1. word[i].key \in Keys BY <1>1, StrokesTyped
  <2>2. (i = 1) \in BOOLEAN OBVIOUS
  <2> QED BY <2>1, <2>2, StrokesAreAllowed
<1>3. CapitalFixes(word) \in [1..m -> Strokes(FALSE)] BY <1>2 DEF CapitalFixes
<1> QED BY <1>1, <1>3, WordsAreSequences

\* A word of letter keys is shown with one capital at its start where the plan
\* has it so.
LEMMA CapitalIsShown ==
  ASSUME NEW caps \in BOOLEAN, NEW word \in Seq(Strokes(caps)), NEW layout \in Layouts,
         ~CapsOverPunctuation(word, caps, layout), NEW i \in 1..Len(word),
         word[i].key \in CaseFixKeys
  PROVE  LET st == CapitalFixes(word)[i]
         IN Shown(st.key, ReplayShift(st, caps), caps, layout) = OneCapital(word, layout)[i]
<1> DEFINE st == CapitalFixes(word)[i]
           k == word[i].key
           s == (i = 1)
<1>1. st = Stroke(k, s, FALSE) /\ k \in CaseFixKeys /\ s \in BOOLEAN
      /\ ~(caps /\ layout = "English" /\ k = "comma")
  <2>1. DOMAIN word = 1..Len(word) OBVIOUS
  <2>2. st = Stroke(k, s, FALSE) BY DEF CapitalFixes
  <2>3. s \in BOOLEAN OBVIOUS
  <2>4. ~(caps /\ layout = "English" /\ k = "comma") BY <2>1 DEF CapsOverPunctuation
  <2> QED BY <2>2, <2>3, <2>4
<1>2. OneCapital(word, layout)[i] = <<layout, k, s>> BY DEF OneCapital
<1> HIDE DEF st, k, s
<1>3. st.key = k /\ ReplayShift(st, caps) = (s # caps) BY <1>1 DEF ReplayShift, Stroke
<1>4. ((s # caps) # caps) = s BY <1>1
<1>5. Shown(k, s # caps, caps, layout) = <<layout, k, s>>
  <2>1. CASE k \in LatinKeys \/ (k = "comma" /\ layout = "Russian")
    BY <1>4, <2>1 DEF Shown
  <2>2. CASE ~(k \in LatinKeys \/ (k = "comma" /\ layout = "Russian"))
    <3>1. caps = FALSE BY <1>1, <2>2 DEF CaseFixKeys, Layouts
    <3>2. (s # caps) = s BY <1>1, <3>1
    <3> QED BY <2>2, <3>2 DEF Shown
  <2> QED BY <2>1, <2>2
<1>6. Shown(st.key, ReplayShift(st, caps), caps, layout) = <<layout, k, s>> BY <1>3, <1>5
<1> QED BY <1>2, <1>6 DEF st

\* A word and the punctuation after it.
LEMMA WordAndTail ==
  ASSUME NEW caps \in BOOLEAN, NEW buffer \in Seq(Strokes(caps)), NEW layout
  PROVE  LET n == TailStart(buffer, layout)
             core == Core(buffer, layout)
             tail == TrailingTail(buffer, layout)
         IN /\ n \in 0..Len(buffer)
            /\ core \in Seq(Strokes(caps)) /\ Len(core) = n
            /\ \A i \in 1..n : core[i] = buffer[i]
            /\ tail \in Seq(Strokes(caps)) /\ Len(tail) = Len(buffer) - n
            /\ \A i \in 1..(Len(buffer) - n) : tail[i] = buffer[n + i]
<1> DEFINE n == TailStart(buffer, layout)
           m == Len(buffer)
<1>1. m \in Nat /\ n \in 0..m
  <2>1. m \in Nat OBVIOUS
  <2> QED BY <2>1, TailIsInWord
<1>2. \A i \in 1..m : buffer[i] \in Strokes(caps) OBVIOUS
<1>3. Core(buffer, layout) = [i \in 1..n |-> buffer[i]]
  <2> HIDE DEF n
  <2> QED BY <1>1 DEF Core, n
<1>4. TrailingTail(buffer, layout) = [i \in 1..(m - n) |-> buffer[n + i]]
  <2> HIDE DEF n
  <2> QED BY <1>1 DEF TrailingTail, n
<1> DEFINE core == [i \in 1..n |-> buffer[i]]
           tail == [i \in 1..(m - n) |-> buffer[n + i]]
<1> HIDE DEF n
<1>5. n \in Nat /\ m - n \in Nat /\ (\A i \in 1..n : i \in 1..m)
      /\ (\A i \in 1..(m - n) : n + i \in 1..m)
  BY <1>1
<1>6. core \in [1..n -> Strokes(caps)] /\ tail \in [1..(m - n) -> Strokes(caps)]
  BY <1>2, <1>5
<1>7. core \in Seq(Strokes(caps)) /\ Len(core) = n
      /\ tail \in Seq(Strokes(caps)) /\ Len(tail) = m - n
  <2> HIDE DEF core, tail, m
  <2> QED BY <1>5, <1>6, WordsAreSequences
<1>8. (\A i \in 1..n : core[i] = buffer[i]) /\ (\A i \in 1..(m - n) : tail[i] = buffer[n + i])
  OBVIOUS
<1> HIDE DEF core, tail
<1> QED BY <1>1, <1>3, <1>4, <1>7, <1>8 DEF core, tail, n

\* The correction of the case of a word: the screen has the word with one
\* capital at its start and the punctuation after it as it was.
LEMMA CaseIsRetyped ==
  ASSUME NEW caps \in BOOLEAN, NEW buffer \in Seq(Strokes(caps)), NEW layout \in Layouts,
         NEW two \in BOOLEAN, NEW fix \in BOOLEAN,
         CaseCorrectionPlan(buffer, layout, two, fix).buffer # << >>,
         ~CapsOverPunctuation(Core(buffer, layout), caps, layout)
  PROVE  Replayed(CaseCorrectionPlan(buffer, layout, two, fix).buffer, caps, layout)
           = Capitalised(Typed(buffer, layout), TailStart(buffer, layout))
<1> DEFINE n == TailStart(buffer, layout)
           m == Len(buffer)
           core == Core(buffer, layout)
           tail == TrailingTail(buffer, layout)
           plan == CaseCorrectionPlan(buffer, layout, two, fix).buffer
           fixed == CapitalFixes(core)
           rest == NormalizedReplayBuffer(tail)
<1>1. /\ n \in 0..m /\ m \in Nat
      /\ core \in Seq(Strokes(caps)) /\ Len(core) = n
      /\ \A i \in 1..n : core[i] = buffer[i]
      /\ tail \in Seq(Strokes(caps)) /\ Len(tail) = m - n
      /\ \A i \in 1..(m - n) : tail[i] = buffer[n + i]
  BY WordAndTail
<1>2. /\ \A i \in 1..m : buffer[i] \in Strokes(caps)
      /\ DOMAIN buffer = 1..m
  OBVIOUS
<1>3. \A i \in 1..m : buffer[i].key \in Keys /\ buffer[i].shift \in BOOLEAN /\ buffer[i].caps = caps
  BY <1>2, StrokesTyped
<1> HIDE DEF n, core, tail, m
<1>4. /\ ApplyCaseFixes(core, two, fix) # NormalizedReplayBuffer(core)
      /\ plan = ApplyCaseFixes(core, two, fix) \o rest
  BY DEF CaseCorrectionPlan, NoPlan, core, tail
<1>5. /\ \A i \in 1..n : core[i].key \in CaseFixKeys
      /\ ApplyCaseFixes(core, two, fix) = fixed
  BY <1>1, <1>4, FixesKeepOrCapitalise
<1>6. rest \in Seq(Strokes(FALSE)) /\ Len(rest) = m - n
  <2> HIDE DEF rest
  <2> QED BY <1>1, NormalizedKeepsKeys DEF rest
<1>7. fixed \in Seq(Strokes(FALSE)) /\ Len(fixed) = n
  <2> HIDE DEF fixed
  <2> QED BY <1>1, CapitalsAreStrokes DEF fixed
<1>8. /\ plan \in Seq(Strokes(FALSE)) /\ Len(plan) = m
      /\ \A i \in 1..n : plan[i] = fixed[i]
      /\ \A i \in 1..(m - n) : plan[n + i] = rest[i]
  <2>1. plan = fixed \o rest BY <1>4, <1>5
  <2> HIDE DEF plan, fixed, rest
  <2> DEFINE S == Strokes(FALSE)
  <2> HIDE DEF S
  <2>2. fixed \in Seq(S) /\ rest \in Seq(S) BY <1>6, <1>7 DEF S
  <2>3. /\ Len(fixed \o rest) = Len(fixed) + Len(rest) /\ fixed \o rest \in Seq(S)
        /\ \A i \in 1..Len(fixed) : (fixed \o rest)[i] = fixed[i]
        /\ \A i \in 1..Len(rest) : (fixed \o rest)[Len(fixed) + i] = rest[i]
    BY <2>2, PartsOfAPlan
  <2>4. fixed \o rest \in Seq(Strokes(FALSE)) BY <2>3 DEF S
  <2>5. Len(plan) = m BY <1>1, <1>6, <1>7, <2>1, <2>3
  <2>6. \A i \in 1..n : plan[i] = fixed[i] BY <1>7, <2>1, <2>3
  <2>7. \A i \in 1..(m - n) : plan[n + i] = rest[i] BY <1>6, <1>7, <2>1, <2>3
  <2> QED BY <2>1, <2>4, <2>5, <2>6, <2>7
<1>9. ASSUME NEW i \in 1..n
      PROVE  Shown(plan[i].key, ReplayShift(plan[i], caps), caps, layout) = <<layout, buffer[i].key, i = 1>>
  <2>1. plan[i] = CapitalFixes(core)[i] /\ core[i] = buffer[i] /\ i \in 1..Len(core)
    BY <1>1, <1>8
  <2>2. core[i].key \in CaseFixKeys /\ ~CapsOverPunctuation(core, caps, layout)
        /\ core \in Seq(Strokes(caps))
    BY <1>1, <1>5 DEF core
  <2> HIDE DEF plan
  <2>3. Shown(plan[i].key, ReplayShift(plan[i], caps), caps, layout) = OneCapital(core, layout)[i]
    BY <2>1, <2>2, CapitalIsShown
  <2>4. OneCapital(core, layout)[i] = <<layout, buffer[i].key, i = 1>> BY <2>1 DEF OneCapital
  <2> QED BY <2>3, <2>4
<1>10. ASSUME NEW i \in (n + 1)..m
       PROVE  Shown(plan[i].key, ReplayShift(plan[i], caps), caps, layout)
                = Shown(buffer[i].key, buffer[i].shift, caps, layout)
  <2>1. i - n \in 1..(m - n) /\ n + (i - n) = i BY <1>1
  <2>2. plan[i] = rest[i - n] /\ tail[i - n] = buffer[i]
    <3>1. \A j \in 1..(m - n) : plan[n + j] = rest[j] BY <1>8
    <3>2. \A j \in 1..(m - n) : tail[j] = buffer[n + j] BY <1>1
    <3> HIDE DEF plan, rest
    <3>3. plan[n + (i - n)] = rest[i - n] /\ tail[i - n] = buffer[n + (i - n)]
      BY <2>1, <3>1, <3>2
    <3> QED BY <2>1, <3>3
  <2>3. Shown(rest[i - n].key, ReplayShift(rest[i - n], caps), caps, layout)
          = Shown(tail[i - n].key, tail[i - n].shift, caps, layout)
    <3>1. i - n \in 1..Len(tail) /\ tail \in Seq(Strokes(caps)) BY <1>1, <2>1
    <3>2. \A j \in 1..Len(tail) : rest[j] = ReplayStroke(tail[j]) BY <3>1, NormalizedKeepsKeys
    <3> HIDE DEF rest
    <3> DEFINE old == tail[i - n]
               new == rest[i - n]
    <3>3. new = ReplayStroke(old) BY <3>1, <3>2
    <3>4. old \in Strokes(caps) BY <3>1, WordHasStrokes
    <3> HIDE DEF old, new
    <3>5. Shown(new.key, ReplayShift(new, caps), caps, layout) = Shown(old.key, old.shift, caps, layout)
      BY <3>3, <3>4, ReplayShows
    <3> QED BY <3>5 DEF old, new
  <2> HIDE DEF plan, rest
  <2> QED BY <2>2, <2>3
<1>11. Replayed(plan, caps, layout) =
         [i \in 1..m |-> Shown(plan[i].key, ReplayShift(plan[i], caps), caps, layout)]
  <2> HIDE DEF plan
  <2>1. DOMAIN plan = 1..m BY <1>1, <1>8
  <2> QED BY <2>1 DEF Replayed
<1>12. Capitalised(Typed(buffer, layout), n) =
         [i \in 1..m |-> IF i <= n THEN <<layout, buffer[i].key, i = 1>>
                         ELSE Shown(buffer[i].key, buffer[i].shift, caps, layout)]
  <2> DEFINE text == Typed(buffer, layout)
  <2>1. text = [i \in 1..m |-> Shown(buffer[i].key, buffer[i].shift, caps, layout)]
    BY <1>2, <1>3 DEF Typed
  <2>2. \A i \in 1..m : /\ Shown(buffer[i].key, buffer[i].shift, caps, layout)[1] = layout
                        /\ Shown(buffer[i].key, buffer[i].shift, caps, layout)[2] = buffer[i].key
    BY DEF Shown
  <2> HIDE DEF text
  <2>3. /\ DOMAIN text = 1..m
        /\ \A i \in 1..m : /\ text[i][1] = layout /\ text[i][2] = buffer[i].key
                           /\ text[i] = Shown(buffer[i].key, buffer[i].shift, caps, layout)
    BY <2>1, <2>2
  <2>4. Capitalised(text, n) =
          [i \in 1..m |-> IF i <= n THEN <<text[i][1], text[i][2], i = 1>> ELSE text[i]]
    BY <2>3 DEF Capitalised
  <2>5. \A i \in 1..m : (IF i <= n THEN <<text[i][1], text[i][2], i = 1>> ELSE text[i]) =
                          IF i <= n THEN <<layout, buffer[i].key, i = 1>>
                          ELSE Shown(buffer[i].key, buffer[i].shift, caps, layout)
    BY <2>3
  <2> QED BY <2>4, <2>5 DEF text
<1>13. \A i \in 1..m : Shown(plan[i].key, ReplayShift(plan[i], caps), caps, layout) =
                          IF i <= n THEN <<layout, buffer[i].key, i = 1>>
                          ELSE Shown(buffer[i].key, buffer[i].shift, caps, layout)
  <2> HIDE DEF plan
  <2>1. \A i \in 1..m : i \in 1..n \/ i \in (n + 1)..m BY <1>1
  <2>2. \A i \in 1..n : i <= n BY <1>1
  <2>3. \A i \in (n + 1)..m : ~(i <= n) BY <1>1
  <2> QED BY <1>9, <1>10, <2>1, <2>2, <2>3
<1> QED BY <1>11, <1>12, <1>13 DEF n

\* The manual plan of a word that is being typed is its keys as they were typed.
LEMMA LayoutPlanIsKnown ==
  ASSUME NEW caps \in BOOLEAN, NEW buffer \in Seq(Strokes(caps)), NEW layout \in Layouts,
         NEW two \in BOOLEAN, NEW fix \in BOOLEAN,
         LayoutPlan(buffer, layout, two, fix) # << >>
  PROVE  LayoutPlan(buffer, layout, two, fix)
           = ApplyCaseFixes(NormalizedReplayBuffer(buffer), two, fix)
<1> DEFINE planned == ManualCorrectionPlan(buffer, << >>, FALSE, layout).buffer
<1>1. LayoutPlan(buffer, layout, two, fix) = ApplyCaseFixes(planned, two, fix) BY DEF LayoutPlan
<1>2. planned = << >> \/ planned = NormalizedReplayBuffer(buffer)
  <2>1. CASE buffer # << >>
    BY <2>1 DEF ManualCorrectionPlan, NoPlan
  <2>2. CASE buffer = << >>
    <3>1. planned = << >> \/ planned = NormalizedReplayBuffer(<< >>)
      BY <2>2 DEF ManualCorrectionPlan, NoPlan
    <3> QED BY <2>2, <3>1
  <2> QED BY <2>1, <2>2
<1>3. ASSUME planned = << >> PROVE ApplyCaseFixes(planned, two, fix) = << >>
  <2>1. << >> \in Seq(Strokes(FALSE)) /\ Len(<< >>) = 0 /\ 1..0 = {} OBVIOUS
  <2>2. NormalizedReplayBuffer(<< >>) = << >>
    <3>1. /\ NormalizedReplayBuffer(<< >>) \in Seq(Strokes(FALSE))
          /\ Len(NormalizedReplayBuffer(<< >>)) = 0
      BY <2>1, NormalizedKeepsKeys
    <3> QED BY <3>1
  <2>3. CapitalFixes(<< >>) = << >>
    <3>1. CapitalFixes(<< >>) \in Seq(Strokes(FALSE)) /\ Len(CapitalFixes(<< >>)) = 0
      BY <2>1, CapitalsAreStrokes
    <3> QED BY <3>1
  <2>4. \/ ApplyCaseFixes(<< >>, two, fix) = NormalizedReplayBuffer(<< >>)
        \/ ApplyCaseFixes(<< >>, two, fix) = CapitalFixes(<< >>)
    BY <2>1, FixesKeepOrCapitalise
  <2> HIDE DEF planned
  <2> QED BY <1>3, <2>2, <2>3, <2>4
<1> HIDE DEF planned
<1> QED BY <1>1, <1>2, <1>3

LEMMA SameWords ==
  ASSUME NEW S, NEW p \in Seq(S), NEW q \in Seq(S), Len(p) = Len(q),
         \A i \in 1..Len(p) : p[i] = q[i]
  PROVE  p = q
OBVIOUS

\* The keys of the plan have their case in Shift: to do the same again changes nothing.
LEMMA NormalizedStays ==
  ASSUME NEW caps \in BOOLEAN, NEW buffer \in Seq(Strokes(caps))
  PROVE  NormalizedReplayBuffer(NormalizedReplayBuffer(buffer)) = NormalizedReplayBuffer(buffer)
<1> DEFINE nb == NormalizedReplayBuffer(buffer)
           again == NormalizedReplayBuffer(nb)
<1>1. nb \in Seq(Strokes(FALSE)) BY NormalizedKeepsKeys
<1> HIDE DEF nb
<1>2. again \in Seq(Strokes(FALSE)) /\ Len(again) = Len(nb) BY <1>1, NormalizedKeepsKeys
<1>3. ASSUME NEW i \in 1..Len(nb) PROVE again[i] = nb[i]
  <2>1. again[i] = ReplayStroke(nb[i]) BY <1>1, NormalizedKeepsKeys
  <2>2. nb[i] \in Strokes(FALSE) BY <1>1, WordHasStrokes
  <2>3. /\ nb[i].shift \in BOOLEAN /\ nb[i].caps = FALSE
        /\ nb[i] = Stroke(nb[i].key, nb[i].shift, FALSE)
    BY <2>2, StrokesTyped
  <2>4. IsUpper(nb[i]) = nb[i].shift BY <2>3 DEF IsUpper
  <2> QED BY <2>1, <2>3, <2>4 DEF ReplayStroke
<1> HIDE DEF again
<1>4. again = nb
  <2> DEFINE S == Strokes(FALSE)
  <2> HIDE DEF S
  <2>1. again \in Seq(S) /\ nb \in Seq(S) BY <1>1, <1>2 DEF S
  <2> QED BY <1>2, <1>3, <2>1, SameWords
<1> QED BY <1>4 DEF again, nb

\* The correction of the layout: the screen has what the keys type in the other
\* layout, or that with one capital at its start where a case fix is on.
LEMMA LayoutIsRetyped ==
  ASSUME NEW caps \in BOOLEAN, NEW buffer \in Seq(Strokes(caps)), NEW layout \in Layouts,
         NEW other \in Layouts, NEW two \in BOOLEAN, NEW fix \in BOOLEAN,
         LayoutPlan(buffer, layout, two, fix) # << >>,
         ~CapsOverPunctuation(buffer, caps, other)
  PROVE  \/ Replayed(LayoutPlan(buffer, layout, two, fix), caps, other) = Typed(buffer, other)
         \/ /\ two \/ fix
            /\ Replayed(LayoutPlan(buffer, layout, two, fix), caps, other)
                 = Capitalised(Typed(buffer, other), Len(buffer))
<1> DEFINE m == Len(buffer)
           nb == NormalizedReplayBuffer(buffer)
           moved == LayoutPlan(buffer, layout, two, fix)
<1>1. m \in Nat /\ DOMAIN buffer = 1..m /\ \A i \in 1..m : buffer[i] \in Strokes(caps) OBVIOUS
<1>2. \A i \in 1..m : buffer[i].key \in Keys /\ buffer[i].shift \in BOOLEAN /\ buffer[i].caps = caps
  BY <1>1, StrokesTyped
<1>3. nb \in Seq(Strokes(FALSE)) /\ Len(nb) = m BY NormalizedKeepsKeys
<1>4. \A i \in 1..m : nb[i].key = buffer[i].key BY <1>1 DEF NormalizedReplayBuffer, Stroke
<1>5. \/ moved = nb
      \/ /\ two \/ fix
         /\ \A i \in 1..m : buffer[i].key \in CaseFixKeys
         /\ moved = CapitalFixes(buffer)
  <2>1. moved = ApplyCaseFixes(nb, two, fix) BY LayoutPlanIsKnown
  <2>2. NormalizedReplayBuffer(nb) = nb BY NormalizedStays
  <2>3. \/ ApplyCaseFixes(nb, two, fix) = NormalizedReplayBuffer(nb)
        \/ /\ two \/ fix
           /\ \A i \in 1..Len(nb) : nb[i].key \in CaseFixKeys
           /\ ApplyCaseFixes(nb, two, fix) = CapitalFixes(nb)
    <3> HIDE DEF nb
    <3> QED BY <1>3, FixesKeepOrCapitalise
  <2>4. CapitalFixes(nb) = CapitalFixes(buffer)
    <3> HIDE DEF nb
    <3> QED BY <1>3, <1>4 DEF CapitalFixes
  <2> HIDE DEF nb, moved
  <2> QED BY <1>3, <1>4, <2>1, <2>2, <2>3, <2>4
<1>6. Typed(buffer, other) = [i \in 1..m |-> Shown(buffer[i].key, buffer[i].shift, caps, other)]
  BY <1>1, <1>2 DEF Typed
<1>7. CASE moved = nb
  <2>1. DOMAIN nb = 1..m BY <1>3
  <2>2. Replayed(nb, caps, other) =
          [i \in 1..m |-> Shown(nb[i].key, ReplayShift(nb[i], caps), caps, other)]
    <3> HIDE DEF nb
    <3> QED BY <2>1 DEF Replayed
  <2>3. \A i \in 1..m : Shown(nb[i].key, ReplayShift(nb[i], caps), caps, other)
                        = Shown(buffer[i].key, buffer[i].shift, caps, other)
    BY NormalizedIsShown
  <2> HIDE DEF nb, moved
  <2> QED BY <1>6, <1>7, <2>2, <2>3 DEF moved
<1>8. CASE /\ two \/ fix
           /\ \A i \in 1..m : buffer[i].key \in CaseFixKeys
           /\ moved = CapitalFixes(buffer)
  <2> DEFINE fixed == CapitalFixes(buffer)
  <2>1. DOMAIN fixed = 1..m BY DEF CapitalFixes
  <2>2. Replayed(fixed, caps, other) =
          [i \in 1..m |-> Shown(fixed[i].key, ReplayShift(fixed[i], caps), caps, other)]
    <3> HIDE DEF fixed
    <3> QED BY <2>1 DEF Replayed
  <2>3. \A i \in 1..m : Shown(fixed[i].key, ReplayShift(fixed[i], caps), caps, other)
                        = OneCapital(buffer, other)[i]
    BY <1>8, CapitalIsShown
  <2>4. Replayed(fixed, caps, other) = OneCapital(buffer, other)
    <3> HIDE DEF fixed
    <3> QED BY <2>2, <2>3 DEF OneCapital
  <2>5. Capitalised(Typed(buffer, other), m) = OneCapital(buffer, other)
    <3>1. \A i \in 1..m : /\ Shown(buffer[i].key, buffer[i].shift, caps, other)[1] = other
                          /\ Shown(buffer[i].key, buffer[i].shift, caps, other)[2] = buffer[i].key
      BY DEF Shown
    <3>2. \A i \in 1..m : i <= m BY <1>1
    <3> QED BY <1>6, <3>1, <3>2 DEF Capitalised, OneCapital
  <2> HIDE DEF fixed, moved
  <2> QED BY <1>8, <2>4, <2>5 DEF fixed, moved
<1> QED BY <1>5, <1>7, <1>8

\* Every correction of a word types it again as the user would have, for a word
\* of any keys and any length (switch_logic.rs, replay_shift_for_stroke).
THEOREM EveryWordIsRetyped ==
  ASSUME NEW caps \in BOOLEAN, NEW layout \in Layouts, NEW two \in BOOLEAN, NEW fix \in BOOLEAN,
         NEW buffer \in Seq(Strokes(caps))
  PROVE  PlansRetype(buffer, caps, layout, two, fix)
<1> DEFINE plan == CaseCorrectionPlan(buffer, layout, two, fix).buffer
           n == TailStart(buffer, layout)
           other == CHOOSE l \in Layouts : l # layout
           moved == LayoutPlan(buffer, layout, two, fix)
           asTyped == Typed(buffer, other)
<1>1. other \in Layouts
  <2>1. \E l \in Layouts : l # layout BY DEF Layouts
  <2> QED BY <2>1
<1>2. ASSUME plan # << >>, ~CapsOverPunctuation(Core(buffer, layout), caps, layout)
      PROVE  Replayed(plan, caps, layout) = Capitalised(Typed(buffer, layout), n)
  BY <1>2, CaseIsRetyped
<1>3. ASSUME moved # << >>, ~CapsOverPunctuation(buffer, caps, other)
      PROVE  Replayed(moved, caps, other) \in
               {asTyped} \cup (IF two \/ fix THEN {Capitalised(asTyped, Len(buffer))} ELSE {})
  <2>1. \/ Replayed(moved, caps, other) = asTyped
        \/ (two \/ fix) /\ Replayed(moved, caps, other) = Capitalised(asTyped, Len(buffer))
    <3> HIDE DEF other
    <3> QED BY <1>1, <1>3, LayoutIsRetyped
  <2> HIDE DEF moved, asTyped, other
  <2> QED BY <2>1
<1> QED BY <1>2, <1>3 DEF PlansRetype

\* The same for the words of the run.
LEMMA PlansRetypeShortWords == EveryPlanRetypes
<1>1. ASSUME NEW caps \in BOOLEAN, NEW buffer \in Buffers(caps) PROVE buffer \in Seq(Strokes(caps))
  <2> DEFINE few == {Stroke(k, s, caps) : k \in {"e", "comma", "slash"}, s \in BOOLEAN}
  <2>1. few \subseteq Strokes(caps) BY DEF Strokes, Keys, LatinKeys
  <2>2. buffer \in SeqOf(few, WordLength) BY DEF Buffers
  <2> HIDE DEF few
  <2>3. PICK m \in 0..WordLength : buffer \in [1..m -> few] BY <2>2 DEF SeqOf
  <2>4. m \in Nat /\ buffer \in [1..m -> Strokes(caps)] BY <2>1, <2>3
  <2> QED BY <2>4, WordsAreSequences
<1>2. ASSUME NEW caps \in BOOLEAN, NEW layout \in Layouts, NEW two \in BOOLEAN, NEW fix \in BOOLEAN,
             NEW buffer \in Buffers(caps)
      PROVE  PlansRetype(buffer, caps, layout, two, fix)
  BY <1>1, EveryWordIsRetyped
<1> QED BY <1>2 DEF EveryPlanRetypes

\* The tail begins after the last character that does not end a sentence.
LEMMA TailStartIsLast ==
  ASSUME NEW buffer, NEW layout
  PROVE  LET I == {i \in 1..Len(buffer) : ~IsTail(buffer[i], layout)}
         IN TailStart(buffer, layout) = IF I # {} THEN Max(I) ELSE 0
BY DEF TailStart, SelectLastInSeq

\* A decision sees no more of a word than its keys and the Shift of the keys that
\* are not Latin letters.
Alike(a, b) ==
  /\ Len(a) \in Nat /\ Len(b) = Len(a)
  /\ \A i \in 1..Len(a) : /\ a[i].key = b[i].key
                          /\ a[i].key \notin LatinKeys => a[i].shift = b[i].shift

LEMMA DecisionSeesKeys ==
  ASSUME NEW a, NEW b, Alike(a, b), NEW layout
  PROVE  ShouldSwitch(a, layout) = ShouldSwitch(b, layout)
<1> DEFINE m == Len(a)
<1>1. /\ m \in Nat /\ Len(a) = m /\ Len(b) = m
      /\ \A i \in 1..m : a[i].key = b[i].key
      /\ \A i \in 1..m : a[i].key \notin LatinKeys => a[i].shift = b[i].shift
  BY DEF Alike
<1> HIDE DEF m
<1> DEFINE n == TailStart(a, "English")
           ca == [i \in 1..n |-> a[i]]
           cb == [i \in 1..n |-> b[i]]
<1>2. \A i \in 1..m : /\ a[i].key \notin LatinKeys => VisibleChar(a[i]) = VisibleChar(b[i])
                      /\ IsTail(a[i], "English") <=> IsTail(b[i], "English")
  <2>1. ASSUME NEW i \in 1..m, a[i].key \in LatinKeys
        PROVE  ~IsTail(a[i], "English") /\ ~IsTail(b[i], "English")
    BY <1>1, <2>1 DEF IsTail, VisibleChar, TailPunctuation, LatinKeys
  <2>2. ASSUME NEW i \in 1..m, a[i].key \notin LatinKeys
        PROVE  VisibleChar(a[i]) = VisibleChar(b[i])
    BY <1>1, <2>2 DEF VisibleChar
  <2> QED BY <2>1, <2>2 DEF IsTail
<1>3. n \in 0..m /\ TailStart(b, "English") = n
  <2> DEFINE Ia == {i \in 1..m : ~IsTail(a[i], "English")}
             Ib == {i \in 1..m : ~IsTail(b[i], "English")}
  <2>1. Ia = Ib BY <1>2
  <2>2. n = (IF Ia # {} THEN Max(Ia) ELSE 0) BY <1>1, TailStartIsLast
  <2>3. TailStart(b, "English") = (IF Ib # {} THEN Max(Ib) ELSE 0) BY <1>1, TailStartIsLast
  <2>4. n \in 0..m BY <1>1, TailIsInWord
  <2> HIDE DEF Ia, Ib, n
  <2> QED BY <2>1, <2>2, <2>3, <2>4
<1>4. Core(a, "English") = ca /\ Core(b, "English") = cb
  <2> HIDE DEF n
  <2> QED BY <1>1, <1>3 DEF Core, n
<1> HIDE DEF n
<1>5. /\ Len(ca) = n /\ Len(cb) = n /\ DOMAIN ca = 1..n /\ DOMAIN cb = 1..n
      /\ \A i \in 1..n : i \in 1..m /\ ca[i] = a[i] /\ cb[i] = b[i]
  BY <1>1, <1>3
<1>6. \A i \in 1..n : /\ ca[i].key = cb[i].key
                      /\ ca[i].key \notin LatinKeys => ca[i].shift = cb[i].shift
                      /\ VisibleChar(ca[i]) \in {<<"one", FALSE>>, <<"slash", FALSE>>}
                          <=> VisibleChar(cb[i]) \in {<<"one", FALSE>>, <<"slash", FALSE>>}
  <2>1. ASSUME NEW i \in 1..n, ca[i].key \in LatinKeys
        PROVE  /\ VisibleChar(ca[i]) \notin {<<"one", FALSE>>, <<"slash", FALSE>>}
               /\ VisibleChar(cb[i]) \notin {<<"one", FALSE>>, <<"slash", FALSE>>}
    <3>1. cb[i].key \in LatinKeys BY <1>1, <1>5, <2>1
    <3> HIDE DEF ca, cb
    <3> QED BY <2>1, <3>1 DEF VisibleChar, LatinKeys
  <2>2. ASSUME NEW i \in 1..n, ca[i].key \notin LatinKeys PROVE VisibleChar(ca[i]) = VisibleChar(cb[i])
    BY <1>2, <1>5, <2>2
  <2>3. ASSUME NEW i \in 1..n
        PROVE  ca[i].key = cb[i].key /\ (ca[i].key \notin LatinKeys => ca[i].shift = cb[i].shift)
    BY <1>1, <1>5
  <2> HIDE DEF ca, cb
  <2> QED BY <2>1, <2>2, <2>3
<1> HIDE DEF ca, cb
<1>7. Word(ca) = Word(cb)
  <2>1. ASSUME NEW i \in 1..n
        PROVE  (IF ca[i].key \in LatinKeys THEN ca[i].key ELSE Punctuation(ca[i]))
                 = (IF cb[i].key \in LatinKeys THEN cb[i].key ELSE Punctuation(cb[i]))
    BY <1>6 DEF Punctuation
  <2> QED BY <1>5, <2>1 DEF Word
<1>8. TechnicalToken(ca) <=> TechnicalToken(cb) BY <1>5, <1>6, <1>7 DEF TechnicalToken
<1>9. PhysicalScore(ca) = PhysicalScore(cb)
  <2>1. {i \in DOMAIN ca : ca[i].key = "comma"} = {i \in DOMAIN cb : cb[i].key = "comma"}
    BY <1>5, <1>6
  <2>2. {i \in DOMAIN ca : ca[i].key \in RussianVowelKeys}
          = {i \in DOMAIN cb : cb[i].key \in RussianVowelKeys}
    BY <1>5, <1>6
  <2> QED BY <1>5, <1>7, <2>1, <2>2 DEF PhysicalScore
<1>10. EnglishToRussian(a) <=> EnglishToRussian(b)
  BY <1>4, <1>5, <1>7, <1>8, <1>9 DEF EnglishToRussian
<1>11. RussianToEnglish(a) <=> RussianToEnglish(b)
  <2>1. (\A i \in DOMAIN ca : ca[i].key \in LatinKeys) <=> (\A i \in DOMAIN cb : cb[i].key \in LatinKeys)
    BY <1>5, <1>6
  <2> QED BY <1>4, <1>5, <1>7, <2>1 DEF RussianToEnglish
<1> QED BY <1>10, <1>11 DEF ShouldSwitch, EnglishToRussian, RussianToEnglish

LEMMA TwoMoreStrokes ==
  ASSUME NEW S, NEW p \in Seq(S), NEW x \in S, NEW y \in S
  PROVE  /\ Len(p \o <<x, y>>) = Len(p) + 2
         /\ \A i \in 1..Len(p) : (p \o <<x, y>>)[i] = p[i]
         /\ (p \o <<x, y>>)[Len(p) + 1] = x /\ (p \o <<x, y>>)[Len(p) + 2] = y
OBVIOUS

\* Whether a word is moved to the other layout depends on its keys alone, for a
\* word of any keys and any length (should_switch).
THEOREM EveryDecisionSeesTheWordOnly ==
  ASSUME NEW keys \in Seq(Keys), NEW layout \in Layouts PROVE DecisionSeesWordOnly(keys, layout)
<1> DEFINE m == Len(keys)
           plain == [i \in 1..m |-> Stroke(keys[i], FALSE, FALSE)]
           capitals == [i \in 1..m |-> Stroke(keys[i], keys[i] \in LatinKeys, FALSE)]
           locked == [i \in 1..m |-> Stroke(keys[i], FALSE, TRUE)]
           tail == <<Stroke("one", TRUE, FALSE), Stroke("slash", TRUE, FALSE)>>
           typed == plain \o tail
<1>1. m \in Nat /\ DOMAIN keys = 1..m OBVIOUS
<1>2. Len(plain) = m /\ Len(capitals) = m /\ Len(locked) = m BY <1>1
<1>3. ShouldSwitch(capitals, layout) = ShouldSwitch(plain, layout)
  <2>1. \A i \in 1..m : /\ capitals[i].key = plain[i].key
                        /\ capitals[i].key \notin LatinKeys => capitals[i].shift = plain[i].shift
    <3>1. \A i \in 1..m : keys[i] \notin LatinKeys => (keys[i] \in LatinKeys) = FALSE OBVIOUS
    <3> QED BY <3>1 DEF Stroke
  <2>2. Len(capitals) = m /\ Len(plain) = m BY <1>2
  <2> HIDE DEF capitals, plain
  <2>3. Alike(capitals, plain) BY <1>1, <2>1, <2>2 DEF Alike
  <2> QED BY <2>3, DecisionSeesKeys
<1>4. ShouldSwitch(locked, layout) = ShouldSwitch(plain, layout)
  <2>1. \A i \in 1..m : /\ locked[i].key = plain[i].key
                        /\ locked[i].key \notin LatinKeys => locked[i].shift = plain[i].shift
    BY DEF Stroke
  <2>2. Len(locked) = m /\ Len(plain) = m BY <1>2
  <2> HIDE DEF locked, plain
  <2>3. Alike(locked, plain) BY <1>1, <2>1, <2>2 DEF Alike
  <2> QED BY <2>3, DecisionSeesKeys
<1>5. /\ Len(typed) = m + 2
      /\ \A i \in 1..m : typed[i] = plain[i]
      /\ typed[m + 1] = Stroke("one", TRUE, FALSE) /\ typed[m + 2] = Stroke("slash", TRUE, FALSE)
  <2> DEFINE S == Strokes(FALSE)
             x == Stroke("one", TRUE, FALSE)
             y == Stroke("slash", TRUE, FALSE)
  <2>1. x \in S /\ y \in S BY StrokesAreAllowed DEF Keys
  <2>2. plain \in Seq(S)
    <3>1. \A i \in 1..m : Stroke(keys[i], FALSE, FALSE) \in S
      <4>1. \A i \in 1..m : keys[i] \in Keys OBVIOUS
      <4> QED BY <4>1, StrokesAreAllowed
    <3>2. plain \in [1..m -> S]
      <4> HIDE DEF S
      <4> QED BY <3>1
    <3> HIDE DEF plain, S
    <3> QED BY <1>1, <3>2, WordsAreSequences
  <2>3. typed = plain \o <<x, y>> OBVIOUS
  <2> HIDE DEF plain, typed, S, x, y
  <2>4. /\ Len(typed) = Len(plain) + 2
        /\ \A i \in 1..Len(plain) : typed[i] = plain[i]
        /\ typed[Len(plain) + 1] = x /\ typed[Len(plain) + 2] = y
    BY <2>1, <2>2, <2>3, TwoMoreStrokes
  <2>5. Len(typed) = m + 2 /\ (\A i \in 1..m : typed[i] = plain[i]) BY <1>2, <2>4
  <2>6. typed[m + 1] = x /\ typed[m + 2] = y BY <1>2, <2>4
  <2> QED BY <2>5, <2>6 DEF x, y
<1>6. /\ TailStart(typed, "English") = TailStart(plain, "English")
      /\ TailStart(plain, "English") \in 0..m
  <2> DEFINE I == {i \in 1..m : ~IsTail(plain[i], "English")}
             It == {i \in 1..(m + 2) : ~IsTail(typed[i], "English")}
  <2>1. IsTail(Stroke("one", TRUE, FALSE), "English") /\ IsTail(Stroke("slash", TRUE, FALSE), "English")
    BY DEF IsTail, VisibleChar, TailPunctuation, LatinKeys, Stroke
  <2>2. IsTail(typed[m + 1], "English") /\ IsTail(typed[m + 2], "English")
    <3> HIDE DEF typed
    <3> QED BY <1>5, <2>1
  <2>3. It = I
    <3> HIDE DEF typed, plain
    <3>1. \A i \in 1..(m + 2) : i \in 1..m \/ i = m + 1 \/ i = m + 2 BY <1>1
    <3>2. \A i \in 1..m : typed[i] = plain[i] /\ i \in 1..(m + 2) BY <1>1, <1>5
    <3> QED BY <2>2, <3>1, <3>2
  <2>4. TailStart(plain, "English") = IF I # {} THEN Max(I) ELSE 0
    <3> HIDE DEF plain
    <3> QED BY <1>2, TailStartIsLast
  <2>5. TailStart(typed, "English") = IF It # {} THEN Max(It) ELSE 0
    <3> HIDE DEF typed
    <3> QED BY <1>5, TailStartIsLast
  <2>6. TailStart(plain, "English") \in 0..m
    <3> HIDE DEF plain
    <3> QED BY <1>1, <1>2, TailIsInWord
  <2> HIDE DEF I, It, plain, typed
  <2> QED BY <2>3, <2>4, <2>5, <2>6
<1>7. Core(typed, "English") = Core(plain, "English")
  <2> DEFINE n == TailStart(plain, "English")
  <2> HIDE DEF plain, typed, n
  <2>1. n \in 0..m /\ TailStart(typed, "English") = n BY <1>6 DEF n
  <2>2. Core(plain, "English") = [i \in 1..n |-> plain[i]] BY <1>1, <1>2, <2>1 DEF Core, n
  <2>3. Core(typed, "English") = [i \in 1..n |-> typed[i]] BY <1>1, <1>5, <2>1 DEF Core
  <2>4. \A i \in 1..n : typed[i] = plain[i] BY <1>1, <1>5, <2>1
  <2> QED BY <2>2, <2>3, <2>4
<1>8. ShouldSwitch(typed, layout) = ShouldSwitch(plain, layout)
  <2> HIDE DEF plain, typed
  <2> QED BY <1>7 DEF ShouldSwitch, EnglishToRussian, RussianToEnglish
<1> HIDE DEF ShouldSwitch
<1> QED BY <1>1, <1>3, <1>4, <1>8 DEF DecisionSeesWordOnly

\* The same for the words of the run.
LEMMA DecisionsSeeShortWords == DecisionsSeeWordsOnly
<1>1. ASSUME NEW keys \in DecisionWords PROVE keys \in Seq(Keys)
  <2> DEFINE short == SeqOf(LatinKeys \cup {"comma", "one"}, 3)
             named == {<<"h", "e", "r", "e">>, <<"t", "h", "i", "s">>}
             pairs == {a \o b : a \in Syllables, b \in Syllables}
  <2>1. DecisionWords = short \cup named \cup pairs BY DEF DecisionWords
  <2>2. Syllables \subseteq Seq(Keys) BY DEF Syllables, Keys, LatinKeys
  <2>3. named \subseteq Seq(Keys) BY DEF Keys, LatinKeys
  <2>4. ASSUME keys \in short PROVE keys \in Seq(Keys)
    <3>1. LatinKeys \cup {"comma", "one"} \subseteq Keys BY DEF Keys
    <3>2. PICK m \in 0..3 : keys \in [1..m -> LatinKeys \cup {"comma", "one"}] BY <2>4 DEF SeqOf
    <3>3. m \in Nat /\ keys \in [1..m -> Keys] BY <3>1, <3>2
    <3> QED BY <3>3, WordsAreSequences
  <2>5. ASSUME keys \in pairs PROVE keys \in Seq(Keys)
    <3>1. PICK a \in Syllables, b \in Syllables : keys = a \o b BY <2>5
    <3> QED BY <2>2, <3>1, PartsOfAPlan
  <2> HIDE DEF short, named, pairs
  <2> QED BY <2>1, <2>3, <2>4, <2>5
<1> QED BY <1>1, EveryDecisionSeesTheWordOnly DEF DecisionsSeeWordsOnly

\* The property of the run, for any bound on the length of its words: a
\* correction leaves on the screen what the user would have typed, and the
\* decision to move a word does not depend on case or on the punctuation after it.
THEOREM WordsAreTypedRight == ClipboardSpec => []WordsAreCorrectedAsTyped
<1>1. WordsAreCorrectedAsTyped
  BY PlansRetypeShortWords, DecisionsSeeShortWords DEF WordsAreCorrectedAsTyped
<1> QED BY <1>1, PTL

=============================================================================
