------------------------- MODULE SessionLeaseProofs -------------------------
(***************************************************************************)
(* Proofs about SessionLease, for every number of sessions, clients and    *)
(* generations and every time to live.  The last part is about             *)
(* InputBackend, the keyboard that is held under a lease, for every set of *)
(* devices and keys.                                                       *)
(***************************************************************************)
EXTENDS SessionLease, InputBackend, TLAPS

\* What the locked session and the generation say together, and what is known
\* of generations to come.
PubInv ==
    /\ published[generation] = IF wpc = "store" THEN pending ELSE session
    /\ \A g \in 1..MaxGeneration : g > generation => published[g] = None

\* Confirmations are made in the order of time, and confirmed_at_ms is one of
\* the published session.
TimeInv ==
    /\ pendingAt <= now
    /\ \A s \in Sessions : lastConfirmed[s] <= pendingAt
    /\ session \in Sessions => confirmed <= lastConfirmed[session]

\* The client has read the session of its lease to be.
Retaking(c) ==
    phase[c] = "retake" /\ cpc[c] \in {"alive", "authorized", "fresh", "recheck"}

Checking(c) ==
    phase[c] = "check" /\ cpc[c] \in {"alive", "authorized", "fresh", "current"}

\* A lease of the current generation was read after its publication ended.
LeaseInv(c) ==
    /\ lgen[c] <= generation
    /\ cpc[c] = "session" => lgen[c] >= 1
    /\ cpc[c] \in {"generation", "session"} => phase[c] = "take"
    /\ cpc[c] = "recheck" => phase[c] = "retake"
    /\ cpc[c] = "current" => phase[c] = "check"
    /\ Retaking(c) \/ HasLease(c) =>
          /\ lgen[c] >= 1 /\ lsession[c] \in Sessions
          /\ generation = lgen[c] => wpc \notin {"store", "authorize"}
    /\ HasLease(c) => published[lgen[c]] = lsession[c]
    /\ Retaking(c) /\ generation = lgen[c] => published[lgen[c]] = lsession[c]

\* A generation that has been withdrawn is never authorised again.
Spent(g) ==
    \/ generation # g
    \/ ~authorized /\ wpc \notin {"store", "authorize"}

CheckInv(c) ==
    /\ Checking(c) /\ ~wasCurrent[c] =>
          /\ Spent(lgen[c])
          /\ cpc[c] \in {"fresh", "current"} => generation # lgen[c]
    /\ cpc[c] = "current" /\ generation = lgen[c] =>
          cnow[c] <= lastConfirmed[lsession[c]] + Ttl
    /\ cpc[c] = "passed" =>
          /\ wasCurrent[c]
          /\ cnow[c] <= lastConfirmed[lsession[c]] + Ttl

Inv ==
    /\ TypeOK
    /\ PubInv
    /\ TimeInv
    /\ \A c \in Clients : LeaseInv(c) /\ CheckInv(c)

USE LeaseAssumption DEF Decision, Publishing

\* The decision is one of the sessions, or none.
LEMMA DecideType == ASSUME NEW S \in SUBSET Sessions PROVE Decide(S) \in Decision
<1>1. CASE \E s \in S : S = {s} BY <1>1 DEF Decide
<1>2. CASE ~ \E s \in S : S = {s} BY <1>2 DEF Decide
<1> QED BY <1>1, <1>2

\* A confirmation is never older than the one before it.
LEMMA ConfirmationsGrow ==
    ASSUME TypeOK, TimeInv, PublishBegin \/ PublishStore
    PROVE  \A s \in Sessions :
              /\ lastConfirmed[s] \in Nat /\ lastConfirmed'[s] \in Nat
              /\ lastConfirmed[s] <= lastConfirmed'[s]
<1>1. \/ UNCHANGED lastConfirmed
      \/ pending \in Sessions /\ Confirms(pending)
  BY DEF PublishBegin, PublishStore, TypeOK, WorkerType
<1>2. /\ pendingAt \in Nat
      /\ lastConfirmed \in [Sessions -> Nat]
      /\ \A s \in Sessions : lastConfirmed[s] <= pendingAt
  BY DEF TypeOK, WorkerType, HistoryType, TimeInv
<1>3. CASE UNCHANGED lastConfirmed BY <1>2, <1>3
<1>4. CASE pending \in Sessions /\ Confirms(pending)
  BY <1>2, <1>4 DEF Confirms
<1> QED BY <1>1, <1>3, <1>4


\* Every step keeps the types of the clock and the sessions.
LEMMA WorldStep == Inv /\ [Next]_vars => WorldType'
<1> SUFFICES ASSUME Inv, [Next]_vars PROVE WorldType'
  OBVIOUS
<1> USE DEF Inv, TypeOK, WorldType
<1>1. CASE Tick
  BY <1>1 DEF Tick, world, publication, worker, history, clients
<1>2. CASE SessionsChange
  BY <1>2 DEF SessionsChange, world, publication, worker, history, clients
<1>3. CASE Subscribe
  BY <1>3 DEF Subscribe, world, publication, worker, history, clients
<1>4. CASE ListSessions
  BY <1>4 DEF ListSessions, world, publication, worker, history, clients
<1>5. CASE ReadSessionProperties
  BY <1>5 DEF ReadSessionProperties, world, publication, worker, history, clients
<1>6. CASE RefreshDecision
  BY <1>6 DEF RefreshDecision, Publish, world, publication, worker, history, clients
<1>7. CASE PublishBegin
  BY <1>7 DEF PublishBegin, Published, Confirms, world, publication, worker, history, clients
<1>8. CASE PublishBump
  BY <1>8 DEF PublishBump, world, publication, worker, history, clients
<1>9. CASE PublishStore
  BY <1>9 DEF PublishStore, Published, Confirms, world, publication, worker, history, clients
<1>10. CASE PublishAuthorize
  BY <1>10 DEF PublishAuthorize, Published, world, publication, worker, history, clients
<1>11. CASE MarkStoppedBump
  BY <1>11 DEF MarkStoppedBump, world, publication, worker, history, clients
<1>12. CASE MarkStoppedDead
  BY <1>12 DEF MarkStoppedDead, world, publication, worker, history, clients
<1>13. CASE WaitEnds
  BY <1>13 DEF WaitEnds, world, publication, worker, history, clients
<1>14. CASE Reconnect
  BY <1>14 DEF Reconnect, world, publication, worker, history, clients
<1>15. CASE SourceFails
  BY <1>15 DEF SourceFails, Publish, world, publication, worker, history, clients
<1>16. CASE WorkerStops
  BY <1>16 DEF WorkerStops, world, publication, worker, history, clients
<1>17. ASSUME NEW c \in Clients, ClientStep(c) PROVE WorldType'
  <2>1. CASE TakeLease(c)
    BY <2>1 DEF TakeLease, Enter, Goto, world, publication, worker, history, clients
  <2>2. CASE EnsureCurrent(c)
    BY <2>2 DEF EnsureCurrent, Enter, Goto, LeaseCurrent, world, publication, worker, history, clients
  <2>3. CASE ReadAlive(c)
    BY <2>3 DEF ReadAlive, Goto, Refused, world, publication, worker, history, clients
  <2>4. CASE ReadAuthorized(c)
    BY <2>4 DEF ReadAuthorized, Goto, Refused, world, publication, worker, history, clients
  <2>5. CASE ReadConfirmed(c)
    BY <2>5 DEF ReadConfirmed, Goto, Refused, Fresh, world, publication, worker, history, clients
  <2>6. CASE ReadGeneration(c)
    BY <2>6 DEF ReadGeneration, Goto, world, publication, worker, history, clients
  <2>7. CASE ReadSession(c)
    BY <2>7 DEF ReadSession, Goto, Refused, world, publication, worker, history, clients
  <2>8. CASE Recheck(c)
    BY <2>8 DEF Recheck, Goto, Refused, world, publication, worker, history, clients
  <2>9. CASE ReadCurrent(c)
    BY <2>9 DEF ReadCurrent, Goto, Refused, world, publication, worker, history, clients
  <2>10. CASE DropLease(c)
    BY <2>10 DEF DropLease, Goto, world, publication, worker, history, clients
  <2> QED BY <1>17, <2>1, <2>2, <2>3, <2>4, <2>5, <2>6, <2>7, <2>8, <2>9, <2>10 DEF ClientStep
<1>18. CASE UNCHANGED vars
  BY <1>18 DEF vars, world, publication, worker, history, clients
<1> QED
  BY <1>1, <1>2, <1>3, <1>4, <1>5, <1>6, <1>7, <1>8, <1>9, <1>10, <1>11, <1>12, <1>13, <1>14, <1>15, <1>16, <1>17, <1>18
  DEF Next, WorkerStep, PublishStep

\* Every step keeps the types of the publication.
LEMMA PublicationStep == Inv /\ [Next]_vars => PublicationType'
<1> SUFFICES ASSUME Inv, [Next]_vars PROVE PublicationType'
  OBVIOUS
<1> USE DEF Inv, TypeOK, PublicationType, WorldType, WorkerType
<1>1. CASE Tick
  BY <1>1 DEF Tick, world, publication, worker, history, clients
<1>2. CASE SessionsChange
  BY <1>2 DEF SessionsChange, world, publication, worker, history, clients
<1>3. CASE Subscribe
  BY <1>3 DEF Subscribe, world, publication, worker, history, clients
<1>4. CASE ListSessions
  BY <1>4 DEF ListSessions, world, publication, worker, history, clients
<1>5. CASE ReadSessionProperties
  BY <1>5 DEF ReadSessionProperties, world, publication, worker, history, clients
<1>6. CASE RefreshDecision
  BY <1>6 DEF RefreshDecision, Publish, world, publication, worker, history, clients
<1>7. CASE PublishBegin
  BY <1>7 DEF PublishBegin, Published, Confirms, world, publication, worker, history, clients
<1>8. CASE PublishBump
  BY <1>8 DEF PublishBump, world, publication, worker, history, clients
<1>9. CASE PublishStore
  BY <1>9 DEF PublishStore, Published, Confirms, world, publication, worker, history, clients
<1>10. CASE PublishAuthorize
  BY <1>10 DEF PublishAuthorize, Published, world, publication, worker, history, clients
<1>11. CASE MarkStoppedBump
  BY <1>11 DEF MarkStoppedBump, world, publication, worker, history, clients
<1>12. CASE MarkStoppedDead
  BY <1>12 DEF MarkStoppedDead, world, publication, worker, history, clients
<1>13. CASE WaitEnds
  BY <1>13 DEF WaitEnds, world, publication, worker, history, clients
<1>14. CASE Reconnect
  BY <1>14 DEF Reconnect, world, publication, worker, history, clients
<1>15. CASE SourceFails
  BY <1>15 DEF SourceFails, Publish, world, publication, worker, history, clients
<1>16. CASE WorkerStops
  BY <1>16 DEF WorkerStops, world, publication, worker, history, clients
<1>17. ASSUME NEW c \in Clients, ClientStep(c) PROVE PublicationType'
  <2>1. CASE TakeLease(c)
    BY <2>1 DEF TakeLease, Enter, Goto, world, publication, worker, history, clients
  <2>2. CASE EnsureCurrent(c)
    BY <2>2 DEF EnsureCurrent, Enter, Goto, LeaseCurrent, world, publication, worker, history, clients
  <2>3. CASE ReadAlive(c)
    BY <2>3 DEF ReadAlive, Goto, Refused, world, publication, worker, history, clients
  <2>4. CASE ReadAuthorized(c)
    BY <2>4 DEF ReadAuthorized, Goto, Refused, world, publication, worker, history, clients
  <2>5. CASE ReadConfirmed(c)
    BY <2>5 DEF ReadConfirmed, Goto, Refused, Fresh, world, publication, worker, history, clients
  <2>6. CASE ReadGeneration(c)
    BY <2>6 DEF ReadGeneration, Goto, world, publication, worker, history, clients
  <2>7. CASE ReadSession(c)
    BY <2>7 DEF ReadSession, Goto, Refused, world, publication, worker, history, clients
  <2>8. CASE Recheck(c)
    BY <2>8 DEF Recheck, Goto, Refused, world, publication, worker, history, clients
  <2>9. CASE ReadCurrent(c)
    BY <2>9 DEF ReadCurrent, Goto, Refused, world, publication, worker, history, clients
  <2>10. CASE DropLease(c)
    BY <2>10 DEF DropLease, Goto, world, publication, worker, history, clients
  <2> QED BY <1>17, <2>1, <2>2, <2>3, <2>4, <2>5, <2>6, <2>7, <2>8, <2>9, <2>10 DEF ClientStep
<1>18. CASE UNCHANGED vars
  BY <1>18 DEF vars, world, publication, worker, history, clients
<1> QED
  BY <1>1, <1>2, <1>3, <1>4, <1>5, <1>6, <1>7, <1>8, <1>9, <1>10, <1>11, <1>12, <1>13, <1>14, <1>15, <1>16, <1>17, <1>18
  DEF Next, WorkerStep, PublishStep

\* Every step keeps the types of the monitor.
LEMMA WorkerTypeStep == Inv /\ [Next]_vars => WorkerType'
<1> SUFFICES ASSUME Inv, [Next]_vars PROVE WorkerType'
  OBVIOUS
<1> USE DEF Inv, TypeOK, WorkerType, WorldType
<1>1. CASE Tick
  BY <1>1 DEF Tick, world, publication, worker, history, clients
<1>2. CASE SessionsChange
  BY <1>2 DEF SessionsChange, world, publication, worker, history, clients
<1>3. CASE Subscribe
  BY <1>3 DEF Subscribe, world, publication, worker, history, clients
<1>4. CASE ListSessions
  BY <1>4 DEF ListSessions, world, publication, worker, history, clients
<1>5. CASE ReadSessionProperties
  BY <1>5 DEF ReadSessionProperties, world, publication, worker, history, clients
<1>6. CASE RefreshDecision
  <2>1. pending' \in Decision BY <1>6, DecideType DEF RefreshDecision, Publish, WorkerType
  <2> QED BY <1>6, <2>1 DEF RefreshDecision, Publish, world, publication, history, clients
<1>7. CASE PublishBegin
  BY <1>7 DEF PublishBegin, Published, Confirms, world, publication, worker, history, clients
<1>8. CASE PublishBump
  BY <1>8 DEF PublishBump, world, publication, worker, history, clients
<1>9. CASE PublishStore
  BY <1>9 DEF PublishStore, Published, Confirms, world, publication, worker, history, clients
<1>10. CASE PublishAuthorize
  BY <1>10 DEF PublishAuthorize, Published, world, publication, worker, history, clients
<1>11. CASE MarkStoppedBump
  BY <1>11 DEF MarkStoppedBump, world, publication, worker, history, clients
<1>12. CASE MarkStoppedDead
  BY <1>12 DEF MarkStoppedDead, world, publication, worker, history, clients
<1>13. CASE WaitEnds
  BY <1>13 DEF WaitEnds, world, publication, worker, history, clients
<1>14. CASE Reconnect
  BY <1>14 DEF Reconnect, world, publication, worker, history, clients
<1>15. CASE SourceFails
  BY <1>15 DEF SourceFails, Publish, world, publication, worker, history, clients
<1>16. CASE WorkerStops
  BY <1>16 DEF WorkerStops, world, publication, worker, history, clients
<1>17. ASSUME NEW c \in Clients, ClientStep(c) PROVE WorkerType'
  <2>1. CASE TakeLease(c)
    BY <2>1 DEF TakeLease, Enter, Goto, world, publication, worker, history, clients
  <2>2. CASE EnsureCurrent(c)
    BY <2>2 DEF EnsureCurrent, Enter, Goto, LeaseCurrent, world, publication, worker, history, clients
  <2>3. CASE ReadAlive(c)
    BY <2>3 DEF ReadAlive, Goto, Refused, world, publication, worker, history, clients
  <2>4. CASE ReadAuthorized(c)
    BY <2>4 DEF ReadAuthorized, Goto, Refused, world, publication, worker, history, clients
  <2>5. CASE ReadConfirmed(c)
    BY <2>5 DEF ReadConfirmed, Goto, Refused, Fresh, world, publication, worker, history, clients
  <2>6. CASE ReadGeneration(c)
    BY <2>6 DEF ReadGeneration, Goto, world, publication, worker, history, clients
  <2>7. CASE ReadSession(c)
    BY <2>7 DEF ReadSession, Goto, Refused, world, publication, worker, history, clients
  <2>8. CASE Recheck(c)
    BY <2>8 DEF Recheck, Goto, Refused, world, publication, worker, history, clients
  <2>9. CASE ReadCurrent(c)
    BY <2>9 DEF ReadCurrent, Goto, Refused, world, publication, worker, history, clients
  <2>10. CASE DropLease(c)
    BY <2>10 DEF DropLease, Goto, world, publication, worker, history, clients
  <2> QED BY <1>17, <2>1, <2>2, <2>3, <2>4, <2>5, <2>6, <2>7, <2>8, <2>9, <2>10 DEF ClientStep
<1>18. CASE UNCHANGED vars
  BY <1>18 DEF vars, world, publication, worker, history, clients
<1> QED
  BY <1>1, <1>2, <1>3, <1>4, <1>5, <1>6, <1>7, <1>8, <1>9, <1>10, <1>11, <1>12, <1>13, <1>14, <1>15, <1>16, <1>17, <1>18
  DEF Next, WorkerStep, PublishStep

\* Every step keeps the types of the history.
LEMMA HistoryStep == Inv /\ [Next]_vars => HistoryType'
<1> SUFFICES ASSUME Inv, [Next]_vars PROVE HistoryType'
  OBVIOUS
<1> USE DEF Inv, TypeOK, HistoryType, PublicationType, WorldType, WorkerType
<1>1. CASE Tick
  BY <1>1 DEF Tick, world, publication, worker, history, clients
<1>2. CASE SessionsChange
  BY <1>2 DEF SessionsChange, world, publication, worker, history, clients
<1>3. CASE Subscribe
  BY <1>3 DEF Subscribe, world, publication, worker, history, clients
<1>4. CASE ListSessions
  BY <1>4 DEF ListSessions, world, publication, worker, history, clients
<1>5. CASE ReadSessionProperties
  BY <1>5 DEF ReadSessionProperties, world, publication, worker, history, clients
<1>6. CASE RefreshDecision
  BY <1>6 DEF RefreshDecision, Publish, world, publication, worker, history, clients
<1>7. CASE PublishBegin
  BY <1>7 DEF PublishBegin, Published, Confirms, world, publication, worker, history, clients
<1>8. CASE PublishBump
  BY <1>8 DEF PublishBump, world, publication, worker, history, clients
<1>9. CASE PublishStore
  BY <1>9 DEF PublishStore, Published, Confirms, world, publication, worker, history, clients
<1>10. CASE PublishAuthorize
  BY <1>10 DEF PublishAuthorize, Published, world, publication, worker, history, clients
<1>11. CASE MarkStoppedBump
  BY <1>11 DEF MarkStoppedBump, world, publication, worker, history, clients
<1>12. CASE MarkStoppedDead
  BY <1>12 DEF MarkStoppedDead, world, publication, worker, history, clients
<1>13. CASE WaitEnds
  BY <1>13 DEF WaitEnds, world, publication, worker, history, clients
<1>14. CASE Reconnect
  BY <1>14 DEF Reconnect, world, publication, worker, history, clients
<1>15. CASE SourceFails
  BY <1>15 DEF SourceFails, Publish, world, publication, worker, history, clients
<1>16. CASE WorkerStops
  BY <1>16 DEF WorkerStops, world, publication, worker, history, clients
<1>17. ASSUME NEW c \in Clients, ClientStep(c) PROVE HistoryType'
  <2>1. CASE TakeLease(c)
    BY <2>1 DEF TakeLease, Enter, Goto, world, publication, worker, history, clients
  <2>2. CASE EnsureCurrent(c)
    BY <2>2 DEF EnsureCurrent, Enter, Goto, LeaseCurrent, world, publication, worker, history, clients
  <2>3. CASE ReadAlive(c)
    BY <2>3 DEF ReadAlive, Goto, Refused, world, publication, worker, history, clients
  <2>4. CASE ReadAuthorized(c)
    BY <2>4 DEF ReadAuthorized, Goto, Refused, world, publication, worker, history, clients
  <2>5. CASE ReadConfirmed(c)
    BY <2>5 DEF ReadConfirmed, Goto, Refused, Fresh, world, publication, worker, history, clients
  <2>6. CASE ReadGeneration(c)
    BY <2>6 DEF ReadGeneration, Goto, world, publication, worker, history, clients
  <2>7. CASE ReadSession(c)
    BY <2>7 DEF ReadSession, Goto, Refused, world, publication, worker, history, clients
  <2>8. CASE Recheck(c)
    BY <2>8 DEF Recheck, Goto, Refused, world, publication, worker, history, clients
  <2>9. CASE ReadCurrent(c)
    BY <2>9 DEF ReadCurrent, Goto, Refused, world, publication, worker, history, clients
  <2>10. CASE DropLease(c)
    BY <2>10 DEF DropLease, Goto, world, publication, worker, history, clients
  <2> QED BY <1>17, <2>1, <2>2, <2>3, <2>4, <2>5, <2>6, <2>7, <2>8, <2>9, <2>10 DEF ClientStep
<1>18. CASE UNCHANGED vars
  BY <1>18 DEF vars, world, publication, worker, history, clients
<1> QED
  BY <1>1, <1>2, <1>3, <1>4, <1>5, <1>6, <1>7, <1>8, <1>9, <1>10, <1>11, <1>12, <1>13, <1>14, <1>15, <1>16, <1>17, <1>18
  DEF Next, WorkerStep, PublishStep

\* Every step keeps the types of the clients.
LEMMA ClientTypeStep == Inv /\ [Next]_vars => ClientType'
<1> SUFFICES ASSUME Inv, [Next]_vars PROVE ClientType'
  OBVIOUS
<1> USE DEF Inv, TypeOK, ClientType, PublicationType, WorldType
<1>1. CASE Tick
  BY <1>1 DEF Tick, world, publication, worker, history, clients
<1>2. CASE SessionsChange
  BY <1>2 DEF SessionsChange, world, publication, worker, history, clients
<1>3. CASE Subscribe
  BY <1>3 DEF Subscribe, world, publication, worker, history, clients
<1>4. CASE ListSessions
  BY <1>4 DEF ListSessions, world, publication, worker, history, clients
<1>5. CASE ReadSessionProperties
  BY <1>5 DEF ReadSessionProperties, world, publication, worker, history, clients
<1>6. CASE RefreshDecision
  BY <1>6 DEF RefreshDecision, Publish, world, publication, worker, history, clients
<1>7. CASE PublishBegin
  BY <1>7 DEF PublishBegin, Published, Confirms, world, publication, worker, history, clients
<1>8. CASE PublishBump
  BY <1>8 DEF PublishBump, world, publication, worker, history, clients
<1>9. CASE PublishStore
  BY <1>9 DEF PublishStore, Published, Confirms, world, publication, worker, history, clients
<1>10. CASE PublishAuthorize
  BY <1>10 DEF PublishAuthorize, Published, world, publication, worker, history, clients
<1>11. CASE MarkStoppedBump
  BY <1>11 DEF MarkStoppedBump, world, publication, worker, history, clients
<1>12. CASE MarkStoppedDead
  BY <1>12 DEF MarkStoppedDead, world, publication, worker, history, clients
<1>13. CASE WaitEnds
  BY <1>13 DEF WaitEnds, world, publication, worker, history, clients
<1>14. CASE Reconnect
  BY <1>14 DEF Reconnect, world, publication, worker, history, clients
<1>15. CASE SourceFails
  BY <1>15 DEF SourceFails, Publish, world, publication, worker, history, clients
<1>16. CASE WorkerStops
  BY <1>16 DEF WorkerStops, world, publication, worker, history, clients
<1>17. ASSUME NEW c \in Clients, ClientStep(c) PROVE ClientType'
  <2>1. CASE TakeLease(c)
    BY <2>1 DEF TakeLease, Enter, Goto, world, publication, worker, history, clients
  <2>2. CASE EnsureCurrent(c)
    BY <2>2 DEF EnsureCurrent, Enter, Goto, LeaseCurrent, world, publication, worker, history, clients
  <2>3. CASE ReadAlive(c)
    BY <2>3 DEF ReadAlive, Goto, Refused, world, publication, worker, history, clients
  <2>4. CASE ReadAuthorized(c)
    BY <2>4 DEF ReadAuthorized, Goto, Refused, world, publication, worker, history, clients
  <2>5. CASE ReadConfirmed(c)
    BY <2>5 DEF ReadConfirmed, Goto, Refused, Fresh, world, publication, worker, history, clients
  <2>6. CASE ReadGeneration(c)
    BY <2>6 DEF ReadGeneration, Goto, world, publication, worker, history, clients
  <2>7. CASE ReadSession(c)
    BY <2>7 DEF ReadSession, Goto, Refused, world, publication, worker, history, clients
  <2>8. CASE Recheck(c)
    BY <2>8 DEF Recheck, Goto, Refused, world, publication, worker, history, clients
  <2>9. CASE ReadCurrent(c)
    BY <2>9 DEF ReadCurrent, Goto, Refused, world, publication, worker, history, clients
  <2>10. CASE DropLease(c)
    BY <2>10 DEF DropLease, Goto, world, publication, worker, history, clients
  <2> QED BY <1>17, <2>1, <2>2, <2>3, <2>4, <2>5, <2>6, <2>7, <2>8, <2>9, <2>10 DEF ClientStep
<1>18. CASE UNCHANGED vars
  BY <1>18 DEF vars, world, publication, worker, history, clients
<1> QED
  BY <1>1, <1>2, <1>3, <1>4, <1>5, <1>6, <1>7, <1>8, <1>9, <1>10, <1>11, <1>12, <1>13, <1>14, <1>15, <1>16, <1>17, <1>18
  DEF Next, WorkerStep, PublishStep

\* A generation gets its session before it can be read.
LEMMA PubInvStep == Inv /\ [Next]_vars => PubInv'
<1> SUFFICES ASSUME Inv, [Next]_vars PROVE PubInv'
  OBVIOUS
<1> USE DEF Inv, TypeOK, PubInv, HistoryType, PublicationType, WorkerType
<1>1. CASE Tick
  BY <1>1 DEF Tick, world, publication, worker, history, clients
<1>2. CASE SessionsChange
  BY <1>2 DEF SessionsChange, world, publication, worker, history, clients
<1>3. CASE Subscribe
  BY <1>3 DEF Subscribe, world, publication, worker, history, clients
<1>4. CASE ListSessions
  BY <1>4 DEF ListSessions, world, publication, worker, history, clients
<1>5. CASE ReadSessionProperties
  BY <1>5 DEF ReadSessionProperties, world, publication, worker, history, clients
<1>6. CASE RefreshDecision
  BY <1>6 DEF RefreshDecision, Publish, world, publication, worker, history, clients
<1>7. CASE PublishBegin
  BY <1>7 DEF PublishBegin, Published, Confirms, world, publication, worker, history, clients
<1>8. CASE PublishBump
  BY <1>8 DEF PublishBump, world, publication, worker, history, clients
<1>9. CASE PublishStore
  BY <1>9 DEF PublishStore, Published, Confirms, world, publication, worker, history, clients
<1>10. CASE PublishAuthorize
  BY <1>10 DEF PublishAuthorize, Published, world, publication, worker, history, clients
<1>11. CASE MarkStoppedBump
  BY <1>11 DEF MarkStoppedBump, world, publication, worker, history, clients
<1>12. CASE MarkStoppedDead
  BY <1>12 DEF MarkStoppedDead, world, publication, worker, history, clients
<1>13. CASE WaitEnds
  BY <1>13 DEF WaitEnds, world, publication, worker, history, clients
<1>14. CASE Reconnect
  BY <1>14 DEF Reconnect, world, publication, worker, history, clients
<1>15. CASE SourceFails
  BY <1>15 DEF SourceFails, Publish, world, publication, worker, history, clients
<1>16. CASE WorkerStops
  BY <1>16 DEF WorkerStops, world, publication, worker, history, clients
<1>17. ASSUME NEW c \in Clients, ClientStep(c) PROVE PubInv'
  <2>1. CASE TakeLease(c)
    BY <2>1 DEF TakeLease, Enter, Goto, world, publication, worker, history, clients
  <2>2. CASE EnsureCurrent(c)
    BY <2>2 DEF EnsureCurrent, Enter, Goto, LeaseCurrent, world, publication, worker, history, clients
  <2>3. CASE ReadAlive(c)
    BY <2>3 DEF ReadAlive, Goto, Refused, world, publication, worker, history, clients
  <2>4. CASE ReadAuthorized(c)
    BY <2>4 DEF ReadAuthorized, Goto, Refused, world, publication, worker, history, clients
  <2>5. CASE ReadConfirmed(c)
    BY <2>5 DEF ReadConfirmed, Goto, Refused, Fresh, world, publication, worker, history, clients
  <2>6. CASE ReadGeneration(c)
    BY <2>6 DEF ReadGeneration, Goto, world, publication, worker, history, clients
  <2>7. CASE ReadSession(c)
    BY <2>7 DEF ReadSession, Goto, Refused, world, publication, worker, history, clients
  <2>8. CASE Recheck(c)
    BY <2>8 DEF Recheck, Goto, Refused, world, publication, worker, history, clients
  <2>9. CASE ReadCurrent(c)
    BY <2>9 DEF ReadCurrent, Goto, Refused, world, publication, worker, history, clients
  <2>10. CASE DropLease(c)
    BY <2>10 DEF DropLease, Goto, world, publication, worker, history, clients
  <2> QED BY <1>17, <2>1, <2>2, <2>3, <2>4, <2>5, <2>6, <2>7, <2>8, <2>9, <2>10 DEF ClientStep
<1>18. CASE UNCHANGED vars
  BY <1>18 DEF vars, world, publication, worker, history, clients
<1> QED
  BY <1>1, <1>2, <1>3, <1>4, <1>5, <1>6, <1>7, <1>8, <1>9, <1>10, <1>11, <1>12, <1>13, <1>14, <1>15, <1>16, <1>17, <1>18
  DEF Next, WorkerStep, PublishStep

\* Confirmations are ordered in time.
LEMMA TimeInvStep == Inv /\ [Next]_vars => TimeInv'
<1> SUFFICES ASSUME Inv, [Next]_vars PROVE TimeInv'
  OBVIOUS
<1> USE DEF Inv, TypeOK, TimeInv, HistoryType, PublicationType, WorldType, WorkerType
<1>1. CASE Tick
  BY <1>1 DEF Tick, world, publication, worker, history, clients
<1>2. CASE SessionsChange
  BY <1>2 DEF SessionsChange, world, publication, worker, history, clients
<1>3. CASE Subscribe
  BY <1>3 DEF Subscribe, world, publication, worker, history, clients
<1>4. CASE ListSessions
  BY <1>4 DEF ListSessions, world, publication, worker, history, clients
<1>5. CASE ReadSessionProperties
  BY <1>5 DEF ReadSessionProperties, world, publication, worker, history, clients
<1>6. CASE RefreshDecision
  BY <1>6 DEF RefreshDecision, Publish, world, publication, worker, history, clients
<1>7. CASE PublishBegin
  BY <1>7 DEF PublishBegin, Published, Confirms, world, publication, worker, history, clients
<1>8. CASE PublishBump
  BY <1>8 DEF PublishBump, world, publication, worker, history, clients
<1>9. CASE PublishStore
  BY <1>9 DEF PublishStore, Published, Confirms, world, publication, worker, history, clients
<1>10. CASE PublishAuthorize
  BY <1>10 DEF PublishAuthorize, Published, world, publication, worker, history, clients
<1>11. CASE MarkStoppedBump
  BY <1>11 DEF MarkStoppedBump, world, publication, worker, history, clients
<1>12. CASE MarkStoppedDead
  BY <1>12 DEF MarkStoppedDead, world, publication, worker, history, clients
<1>13. CASE WaitEnds
  BY <1>13 DEF WaitEnds, world, publication, worker, history, clients
<1>14. CASE Reconnect
  BY <1>14 DEF Reconnect, world, publication, worker, history, clients
<1>15. CASE SourceFails
  BY <1>15 DEF SourceFails, Publish, world, publication, worker, history, clients
<1>16. CASE WorkerStops
  BY <1>16 DEF WorkerStops, world, publication, worker, history, clients
<1>17. ASSUME NEW c \in Clients, ClientStep(c) PROVE TimeInv'
  <2>1. CASE TakeLease(c)
    BY <2>1 DEF TakeLease, Enter, Goto, world, publication, worker, history, clients
  <2>2. CASE EnsureCurrent(c)
    BY <2>2 DEF EnsureCurrent, Enter, Goto, LeaseCurrent, world, publication, worker, history, clients
  <2>3. CASE ReadAlive(c)
    BY <2>3 DEF ReadAlive, Goto, Refused, world, publication, worker, history, clients
  <2>4. CASE ReadAuthorized(c)
    BY <2>4 DEF ReadAuthorized, Goto, Refused, world, publication, worker, history, clients
  <2>5. CASE ReadConfirmed(c)
    BY <2>5 DEF ReadConfirmed, Goto, Refused, Fresh, world, publication, worker, history, clients
  <2>6. CASE ReadGeneration(c)
    BY <2>6 DEF ReadGeneration, Goto, world, publication, worker, history, clients
  <2>7. CASE ReadSession(c)
    BY <2>7 DEF ReadSession, Goto, Refused, world, publication, worker, history, clients
  <2>8. CASE Recheck(c)
    BY <2>8 DEF Recheck, Goto, Refused, world, publication, worker, history, clients
  <2>9. CASE ReadCurrent(c)
    BY <2>9 DEF ReadCurrent, Goto, Refused, world, publication, worker, history, clients
  <2>10. CASE DropLease(c)
    BY <2>10 DEF DropLease, Goto, world, publication, worker, history, clients
  <2> QED BY <1>17, <2>1, <2>2, <2>3, <2>4, <2>5, <2>6, <2>7, <2>8, <2>9, <2>10 DEF ClientStep
<1>18. CASE UNCHANGED vars
  BY <1>18 DEF vars, world, publication, worker, history, clients
<1> QED
  BY <1>1, <1>2, <1>3, <1>4, <1>5, <1>6, <1>7, <1>8, <1>9, <1>10, <1>11, <1>12, <1>13, <1>14, <1>15, <1>16, <1>17, <1>18
  DEF Next, WorkerStep, PublishStep

\* Leases stay what they were read as.
LEMMA LeaseInvStep == Inv /\ [Next]_vars => \A c \in Clients : LeaseInv(c)'
<1> SUFFICES ASSUME Inv, [Next]_vars PROVE \A c \in Clients : LeaseInv(c)'
  OBVIOUS
<1> USE DEF Inv, TypeOK, PubInv, LeaseInv, HasLease, Retaking, HistoryType, PublicationType, WorkerType, ClientType
<1>1. CASE Tick
  BY <1>1 DEF Tick, world, publication, worker, history, clients
<1>2. CASE SessionsChange
  BY <1>2 DEF SessionsChange, world, publication, worker, history, clients
<1>3. CASE Subscribe
  BY <1>3 DEF Subscribe, world, publication, worker, history, clients
<1>4. CASE ListSessions
  BY <1>4 DEF ListSessions, world, publication, worker, history, clients
<1>5. CASE ReadSessionProperties
  BY <1>5 DEF ReadSessionProperties, world, publication, worker, history, clients
<1>6. CASE RefreshDecision
  BY <1>6 DEF RefreshDecision, Publish, world, publication, worker, history, clients
<1>7. CASE PublishBegin
  BY <1>7 DEF PublishBegin, Published, Confirms, world, publication, worker, history, clients
<1>8. CASE PublishBump
  BY <1>8 DEF PublishBump, world, publication, worker, history, clients
<1>9. CASE PublishStore
  BY <1>9 DEF PublishStore, Published, Confirms, world, publication, worker, history, clients
<1>10. CASE PublishAuthorize
  BY <1>10 DEF PublishAuthorize, Published, world, publication, worker, history, clients
<1>11. CASE MarkStoppedBump
  BY <1>11 DEF MarkStoppedBump, world, publication, worker, history, clients
<1>12. CASE MarkStoppedDead
  BY <1>12 DEF MarkStoppedDead, world, publication, worker, history, clients
<1>13. CASE WaitEnds
  BY <1>13 DEF WaitEnds, world, publication, worker, history, clients
<1>14. CASE Reconnect
  BY <1>14 DEF Reconnect, world, publication, worker, history, clients
<1>15. CASE SourceFails
  BY <1>15 DEF SourceFails, Publish, world, publication, worker, history, clients
<1>16. CASE WorkerStops
  BY <1>16 DEF WorkerStops, world, publication, worker, history, clients
<1>17. ASSUME NEW c \in Clients, ClientStep(c) PROVE \A d \in Clients : LeaseInv(d)'
  <2>1. CASE TakeLease(c)
    BY <2>1 DEF TakeLease, Enter, Goto, world, publication, worker, history, clients
  <2>2. CASE EnsureCurrent(c)
    BY <2>2 DEF EnsureCurrent, Enter, Goto, LeaseCurrent, world, publication, worker, history, clients
  <2>3. CASE ReadAlive(c)
    BY <2>3 DEF ReadAlive, Goto, Refused, world, publication, worker, history, clients
  <2>4. CASE ReadAuthorized(c)
    BY <2>4 DEF ReadAuthorized, Goto, Refused, world, publication, worker, history, clients
  <2>5. CASE ReadConfirmed(c)
    BY <2>5 DEF ReadConfirmed, Goto, Refused, Fresh, world, publication, worker, history, clients
  <2>6. CASE ReadGeneration(c)
    BY <2>6 DEF ReadGeneration, Goto, world, publication, worker, history, clients
  <2>7. CASE ReadSession(c)
    BY <2>7 DEF ReadSession, Goto, Refused, world, publication, worker, history, clients
  <2>8. CASE Recheck(c)
    BY <2>8 DEF Recheck, Goto, Refused, world, publication, worker, history, clients
  <2>9. CASE ReadCurrent(c)
    BY <2>9 DEF ReadCurrent, Goto, Refused, world, publication, worker, history, clients
  <2>10. CASE DropLease(c)
    BY <2>10 DEF DropLease, Goto, world, publication, worker, history, clients
  <2> QED BY <1>17, <2>1, <2>2, <2>3, <2>4, <2>5, <2>6, <2>7, <2>8, <2>9, <2>10 DEF ClientStep
<1>18. CASE UNCHANGED vars
  BY <1>18 DEF vars, world, publication, worker, history, clients
<1> QED
  BY <1>1, <1>2, <1>3, <1>4, <1>5, <1>6, <1>7, <1>8, <1>9, <1>10, <1>11, <1>12, <1>13, <1>14, <1>15, <1>16, <1>17, <1>18
  DEF Next, WorkerStep, PublishStep

\* A check passes only for a lease that was current and confirmed.
LEMMA CheckInvStep == Inv /\ [Next]_vars => \A c \in Clients : CheckInv(c)'
<1> SUFFICES ASSUME Inv, [Next]_vars PROVE \A c \in Clients : CheckInv(c)'
  OBVIOUS
<1> USE DEF Inv, TypeOK, PubInv, LeaseInv, HasLease, Retaking, HistoryType, PublicationType, WorkerType, ClientType, TimeInv, WorldType, CheckInv, Checking, Spent
<1>1. CASE Tick
  BY <1>1 DEF Tick, world, publication, worker, history, clients
<1>2. CASE SessionsChange
  BY <1>2 DEF SessionsChange, world, publication, worker, history, clients
<1>3. CASE Subscribe
  BY <1>3 DEF Subscribe, world, publication, worker, history, clients
<1>4. CASE ListSessions
  BY <1>4 DEF ListSessions, world, publication, worker, history, clients
<1>5. CASE ReadSessionProperties
  BY <1>5 DEF ReadSessionProperties, world, publication, worker, history, clients
<1>6. CASE RefreshDecision
  BY <1>6 DEF RefreshDecision, Publish, world, publication, worker, history, clients
<1>7. CASE PublishBegin
  <2>1. UNCHANGED <<generation, cpc, phase, cnow, lgen, lsession, wasCurrent>>
    BY <1>7 DEF PublishBegin, clients
  <2>2. wpc' \notin {"store", "authorize"} /\ (authorized' => authorized)
    BY <1>7 DEF PublishBegin, Published
  <2>3. \A s \in Sessions : /\ lastConfirmed[s] \in Nat /\ lastConfirmed'[s] \in Nat
                          /\ lastConfirmed[s] <= lastConfirmed'[s]
    BY <1>7, ConfirmationsGrow
  <2> SUFFICES ASSUME NEW c \in Clients PROVE CheckInv(c)'
    OBVIOUS
  <2>4. cpc[c] \in {"current", "passed"} => lsession[c] \in Sessions /\ cnow[c] \in Nat
    OBVIOUS
  <2>5. (Checking(c) /\ ~wasCurrent[c] =>
          /\ Spent(lgen[c])
          /\ cpc[c] \in {"fresh", "current"} => generation # lgen[c])'
    BY <2>1, <2>2
  <2> QED BY <2>1, <2>3, <2>4, <2>5
<1>8. CASE PublishBump
  BY <1>8 DEF PublishBump, world, publication, worker, history, clients
<1>9. CASE PublishStore
  <2>1. UNCHANGED <<generation, cpc, phase, cnow, lgen, lsession, wasCurrent>>
    BY <1>9 DEF PublishStore, clients
  <2>2. wpc = "store" /\ UNCHANGED authorized
    BY <1>9 DEF PublishStore, Published
  <2>3. \A s \in Sessions : /\ lastConfirmed[s] \in Nat /\ lastConfirmed'[s] \in Nat
                          /\ lastConfirmed[s] <= lastConfirmed'[s]
    BY <1>9, ConfirmationsGrow
  <2> SUFFICES ASSUME NEW c \in Clients PROVE CheckInv(c)'
    OBVIOUS
  <2>4. cpc[c] \in {"current", "passed"} => lsession[c] \in Sessions /\ cnow[c] \in Nat
    OBVIOUS
  <2>5. (Checking(c) /\ ~wasCurrent[c] =>
          /\ Spent(lgen[c])
          /\ cpc[c] \in {"fresh", "current"} => generation # lgen[c])'
    BY <2>1, <2>2
  <2> QED BY <2>1, <2>3, <2>4, <2>5
<1>10. CASE PublishAuthorize
  BY <1>10 DEF PublishAuthorize, Published, world, publication, worker, history, clients
<1>11. CASE MarkStoppedBump
  BY <1>11 DEF MarkStoppedBump, world, publication, worker, history, clients
<1>12. CASE MarkStoppedDead
  BY <1>12 DEF MarkStoppedDead, world, publication, worker, history, clients
<1>13. CASE WaitEnds
  BY <1>13 DEF WaitEnds, world, publication, worker, history, clients
<1>14. CASE Reconnect
  BY <1>14 DEF Reconnect, world, publication, worker, history, clients
<1>15. CASE SourceFails
  BY <1>15 DEF SourceFails, Publish, world, publication, worker, history, clients
<1>16. CASE WorkerStops
  BY <1>16 DEF WorkerStops, world, publication, worker, history, clients
<1>17. ASSUME NEW c \in Clients, ClientStep(c) PROVE \A d \in Clients : CheckInv(d)'
  <2>1. CASE TakeLease(c)
    BY <2>1 DEF TakeLease, Enter, Goto, world, publication, worker, history, clients
  <2>2. CASE EnsureCurrent(c)
    BY <2>2 DEF EnsureCurrent, Enter, Goto, LeaseCurrent, world, publication, worker, history, clients
  <2>3. CASE ReadAlive(c)
    BY <2>3 DEF ReadAlive, Goto, Refused, world, publication, worker, history, clients
  <2>4. CASE ReadAuthorized(c)
    BY <2>4 DEF ReadAuthorized, Goto, Refused, world, publication, worker, history, clients
  <2>5. CASE ReadConfirmed(c)
    BY <2>5 DEF ReadConfirmed, Goto, Refused, Fresh, world, publication, worker, history, clients
  <2>6. CASE ReadGeneration(c)
    BY <2>6 DEF ReadGeneration, Goto, world, publication, worker, history, clients
  <2>7. CASE ReadSession(c)
    BY <2>7 DEF ReadSession, Goto, Refused, world, publication, worker, history, clients
  <2>8. CASE Recheck(c)
    BY <2>8 DEF Recheck, Goto, Refused, world, publication, worker, history, clients
  <2>9. CASE ReadCurrent(c)
    BY <2>9 DEF ReadCurrent, Goto, Refused, world, publication, worker, history, clients
  <2>10. CASE DropLease(c)
    BY <2>10 DEF DropLease, Goto, world, publication, worker, history, clients
  <2> QED BY <1>17, <2>1, <2>2, <2>3, <2>4, <2>5, <2>6, <2>7, <2>8, <2>9, <2>10 DEF ClientStep
<1>18. CASE UNCHANGED vars
  BY <1>18 DEF vars, world, publication, worker, history, clients
<1> QED
  BY <1>1, <1>2, <1>3, <1>4, <1>5, <1>6, <1>7, <1>8, <1>9, <1>10, <1>11, <1>12, <1>13, <1>14, <1>15, <1>16, <1>17, <1>18
  DEF Next, WorkerStep, PublishStep

\* The initial state satisfies the inductive invariant.
LEMMA InitInv == Init => Inv
<1> SUFFICES ASSUME Init PROVE Inv OBVIOUS
<1> USE DEF Init
<1>1. TypeOK
  <2>1. WorldType BY DEF WorldType
  <2>2. PublicationType
    <3>1. generation \in 1..MaxGeneration /\ confirmed \in 0..MaxTime OBVIOUS
    <3>2. authorized \in BOOLEAN /\ alive \in BOOLEAN /\ session \in Decision OBVIOUS
    <3> QED BY <3>1, <3>2 DEF PublicationType
  <2>5. WorkerType
    <3>1. pendingAt \in 0..MaxTime OBVIOUS
    <3>2. failed \in BOOLEAN OBVIOUS
    <3> QED BY <3>1, <3>2 DEF WorkerType
  <2>3. ClientType BY DEF ClientType
  <2>4. HistoryType BY DEF HistoryType
  <2> QED BY <2>1, <2>2, <2>3, <2>4, <2>5 DEF TypeOK
<1>2. PubInv /\ TimeInv BY DEF PubInv, TimeInv
<1>3. \A c \in Clients : LeaseInv(c) /\ CheckInv(c)
  BY DEF LeaseInv, CheckInv, Retaking, HasLease, Checking
<1> QED BY <1>1, <1>2, <1>3 DEF Inv

\* The inductive invariant holds in every behaviour.
LEMMA Invariant == Spec => []Inv
<1>1. Inv /\ [Next]_vars => Inv'
  BY WorldStep, PublicationStep, WorkerTypeStep, HistoryStep, ClientTypeStep,
     PubInvStep, TimeInvStep, LeaseInvStep, CheckInvStep DEF Inv, TypeOK
<1> QED BY InitInv, <1>1, PTL DEF Spec

\* The state is typed in every behaviour.
THEOREM PublicationTyped == Spec => []TypeOK
<1>1. Inv => TypeOK BY DEF Inv
<1> QED BY Invariant, <1>1, PTL

\* Every lease that backend_lease returns, and every lease under check, names
\* the session that was published with its generation.
THEOREM LeasesAreConsistent == Spec => []LeaseIsPublished
<1>1. Inv => LeaseIsPublished
  BY DEF Inv, LeaseInv, LeaseIsPublished
<1> QED BY Invariant, <1>1, PTL

\* A lease that was revoked before ensure_current is called does not pass it.
THEOREM NoLeaseRevives == Spec => []RevokedStaysRevoked
<1>1. Inv => RevokedStaysRevoked
  BY DEF Inv, CheckInv, RevokedStaysRevoked
<1> QED BY Invariant, <1>1, PTL

\* A lease that passes ensure_current was confirmed for its own session at
\* most Ttl before the call.
THEOREM PassedLeasesAreFresh == Spec => []ConfirmedRecently
<1>1. Inv => ConfirmedRecently
  BY DEF Inv, CheckInv, ConfirmedRecently
<1> QED BY Invariant, <1>1, PTL

\* A lease that passes a check names the session of its generation and was not
\* revoked before the check began (backend_lease, ensure_current).
THEOREM LeasesAreGenuine == Spec => []LeaseIsGenuine
BY LeasesAreConsistent, NoLeaseRevives, PTL DEF LeaseIsGenuine

-----------------------------------------------------------------------------
(***************************************************************************)
(* InputBackend: the keyboard that is taken under a lease.                 *)
(***************************************************************************)

\* A key that the desktop saw go down is down.
SeenAreHeld == shown \subseteq held

\* From the grab to the slot the keyboard is grabbed, and once the keys were
\* looked at the desktop has seen none go down that is still down.
GrabIsClean ==
    /\ pc \in {"validate", "install"} => kbd = "grabbed"
    /\ pc = "install" => shown = {}

\* While the service holds a backend the main thread is in its loop or about to
\* stop it, and an open does not begin.
SlotIsClean ==
    slot => /\ kbd = "grabbed" /\ shown = {} /\ state = "Ready"
            /\ pc \in {"loop", "fetch", "stop"}

BackendInv == slot \in BOOLEAN /\ SeenAreHeld /\ GrabIsClean /\ SlotIsClean

\* The daemon starts without a keyboard.
LEMMA BackendOpens == BackendInit => BackendInv
BY DEF BackendInit, DaemonInit, BackendInv, SeenAreHeld, GrabIsClean, SlotIsClean

\* Every step of the main thread, of another thread, of the devices and of the
\* user keeps the invariant.
LEMMA BackendSteps == BackendInv /\ [BackendNext]_backendVars => BackendInv'
<1> SUFFICES ASSUME BackendInv, [BackendNext]_backendVars PROVE BackendInv'
  OBVIOUS
<1> USE DEF BackendInv, SeenAreHeld, GrabIsClean, SlotIsClean, sessionVars,
            deviceVars, keyVars, workerVars, serviceVars,
            processVars, mainVars, faultVars, Advance,
            OpenFails
<1>1. CASE Main
  <2> USE DEF HandoffUnchanged
  <2>1. CASE LeaseSession BY <2>1 DEF LeaseSession
  <2>2. CASE Resolve BY <2>2 DEF Resolve
  <2>3. CASE CreateUinput BY <2>3 DEF CreateUinput
  <2>4. CASE StartWriter BY <2>4 DEF StartWriter
  <2>5. CASE StartPointerWatcher BY <2>5 DEF StartPointerWatcher
  <2>6. CASE StartTargetWatcher
    BY <2>6 DEF StartTargetWatcher
  <2>7. CASE OpenForHandoff BY <2>7 DEF OpenForHandoff
  <2>8. CASE Drain BY <2>8 DEF Drain
  <2>9. CASE QuietWindow BY <2>9 DEF QuietWindow
  <2>10. CASE AfterWindow BY <2>10 DEF AfterWindow
  <2>11. CASE LastPoll BY <2>11 DEF LastPoll
  <2>12. CASE Grab BY <2>12 DEF Grab
  <2>13. CASE ValidateGrab
    BY <2>13 DEF ValidateGrab, ValidateGrabError, Nothing
  <2>14. CASE Install
    <3>1. pc = "install" /\ kbd' = kbd /\ held' = held /\ shown' = shown
      BY <2>14 DEF Install
    <3>2. ~slot /\ kbd = "grabbed" /\ shown = {}
      BY <3>1
    <3>3. CASE pc' = "stop" /\ slot' = slot
      BY <3>1, <3>2, <3>3
    <3>4. CASE slot' = TRUE /\ state' = "Ready" /\ pc' = "loop"
      BY <3>1, <3>2, <3>4
    <3> QED BY <2>14, <3>3, <3>4 DEF Install
  <2>15. CASE LoopTop BY <2>15 DEF LoopTop, RuntimeFails
  <2>16. CASE Fetch BY <2>16 DEF Fetch, RuntimeFails
  <2>17. CASE StopWriter BY <2>17 DEF StopWriter
  <2>18. CASE ReleaseGrab BY <2>18 DEF ReleaseGrab
  <2>19. CASE FinishWriter BY <2>19 DEF FinishWriter
  <2>20. CASE JoinWatchers BY <2>20 DEF JoinWatchers
  <2>21. CASE DecideRetry BY <2>21 DEF DecideRetry
  <2>22. CASE Exit BY <2>22 DEF Exit
  <2> QED
    BY <1>1, <2>1, <2>2, <2>3, <2>4, <2>5, <2>6, <2>7, <2>8, <2>9, <2>10, <2>11, <2>12,
       <2>13, <2>14, <2>15, <2>16, <2>17, <2>18, <2>19, <2>20, <2>21, <2>22
    DEF Main
<1>2. CASE Restart BY <1>2 DEF Restart
<1>3. CASE WriterForwards BY <1>3 DEF WriterForwards
<1>4. CASE PointerWatcherEnds BY <1>4 DEF PointerWatcherEnds
<1>5. CASE RetryDue BY <1>5 DEF RetryDue
<1>6. CASE Environment
  <2>1. CASE SessionChanges BY <2>1 DEF SessionChanges, Fault
  <2>2. ASSUME NEW p \in Moving, Unplug(p) PROVE BackendInv'
    BY <2>2 DEF Unplug, Fault
  <2>3. ASSUME NEW p \in Moving, Plug(p) \/ Settle(p) PROVE BackendInv'
    BY <2>3 DEF Plug, Settle
  <2>4. ASSUME NEW p \in Contested, AccessChanges(p) PROVE BackendInv'
    BY <2>4 DEF AccessChanges, Fault
  <2>5. ASSUME NEW k \in Keys, Press(k) PROVE BackendInv'
    BY <2>5 DEF Press, Typed
  <2>6. ASSUME NEW k \in Keys, Release(k) PROVE BackendInv'
    BY <2>6 DEF Release, Typed
  <2>7. CASE WriterFails BY <2>7 DEF WriterFails, Fault
  <2>8. CASE TargetWatcherFails BY <2>8 DEF TargetWatcherFails, Fault
  <2>9. CASE MonitorFails BY <2>9 DEF MonitorFails, Fault
  <2>10. CASE Quit BY <2>10 DEF Quit
  <2> QED
    BY <1>6, <2>1, <2>2, <2>3, <2>4, <2>5, <2>6, <2>7, <2>8, <2>9, <2>10
    DEF Environment
<1>7. CASE UNCHANGED backendVars BY <1>7 DEF backendVars
<1> QED BY <1>1, <1>2, <1>3, <1>4, <1>5, <1>6, <1>7 DEF BackendNext

\* A key the desktop saw go down is never held over into a backend, whatever
\* devices there are and however the user types during the handoff
\* (wait_for_quiescent_input, acquire_grab_then_snapshot).
THEOREM KeyboardIsTakenQuiet == BackendSpec => []NoKeyIsTakenOver
<1>1. BackendInv => NoKeyIsTakenOver
  BY DEF BackendInv, SlotIsClean, NoKeyIsTakenOver
<1> QED BY BackendOpens, BackendSteps, <1>1, PTL DEF BackendSpec

=============================================================================
