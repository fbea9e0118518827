---------------------------- MODULE SessionLease ----------------------------
(***************************************************************************)
(* Which login session may receive input: the monitor thread of            *)
(* daemon/session_activity/mod.rs that asks logind and publishes a         *)
(* decision, and the leases that the input backend takes from the          *)
(* publication and checks in front of every mutation.                      *)
(*                                                                         *)
(* authorized, generation, confirmed_at_ms and worker_alive are separate   *)
(* atomics: the monitor stores them one by one under the write lock of     *)
(* session, and a lease check loads them one by one without any lock.      *)
(* Every load and every store is a step.                                   *)
(***************************************************************************)
EXTENDS Naturals

CONSTANTS
    Sessions,       \* login sessions of this user
    Clients,        \* threads that take and check a lease
    None,
    Ttl,            \* lease_ttl_ms
    MaxTime,        \* bound on the clock
    MaxGeneration,  \* bound on the generation
    MaxChanges      \* bound on changes of the sessions

ASSUME LeaseAssumption ==
    /\ None \notin Sessions
    /\ Ttl \in Nat /\ MaxTime \in Nat /\ MaxChanges \in Nat
    /\ MaxGeneration \in Nat \ {0}

VARIABLES
    now, eligible, changes,   \* the clock; sessions decide_session would keep
    \* SessionAccessInner
    authorized, generation, confirmed, alive, session,
    \* the monitor thread
    wpc, toRead, seen, pending, pendingAt, failed,
    \* the clients: where they are, why they check, their now_ms, their lease
    cpc, phase, cnow, lgen, lsession,
    \* history: the session of each generation, when a session was last
    \* confirmed, and whether the lease was current when the check began
    published, lastConfirmed, wasCurrent

world == <<now, eligible, changes>>
publication == <<authorized, generation, confirmed, alive, session>>
worker == <<wpc, toRead, seen, pending, pendingAt, failed>>
history == <<published, lastConfirmed>>
clients == <<cpc, phase, cnow, lgen, lsession, wasCurrent>>
vars == <<world, publication, worker, history, clients>>

Decision == Sessions \cup {None}
Publishing == {"bump", "store", "authorize", "killBump", "killAlive"}

WorldType ==
    /\ now \in 0..MaxTime
    /\ eligible \subseteq Sessions
    /\ changes \in 0..MaxChanges

PublicationType ==
    /\ authorized \in BOOLEAN /\ alive \in BOOLEAN
    /\ generation \in 1..MaxGeneration
    /\ confirmed \in 0..MaxTime
    /\ session \in Decision

WorkerType ==
    /\ wpc \in Publishing \cup {"subscribe", "list", "read", "publish", "wait",
                                "backoff", "dead"}
    /\ toRead \subseteq Sessions /\ seen \subseteq Sessions
    /\ pending \in Decision /\ pendingAt \in 0..MaxTime
    /\ failed \in BOOLEAN

ClientType ==
    /\ cpc \in [Clients -> {"idle", "alive", "authorized", "fresh", "generation",
                            "session", "recheck", "current", "held", "passed"}]
    /\ phase \in [Clients -> {"take", "retake", "check"}]
    /\ cnow \in [Clients -> 0..MaxTime]
    /\ lgen \in [Clients -> 0..MaxGeneration]
    /\ lsession \in [Clients -> Decision]
    /\ wasCurrent \in [Clients -> BOOLEAN]

HistoryType ==
    /\ published \in [1..MaxGeneration -> Decision]
    /\ lastConfirmed \in [Sessions -> 0..MaxTime]

\* The state is typed, and the counters stay in their bounds.
TypeOK == WorldType /\ PublicationType /\ WorkerType /\ ClientType /\ HistoryType

Init ==
    /\ now = 0 /\ eligible \in SUBSET Sessions /\ changes = 0
    /\ authorized = FALSE /\ generation = 1 /\ confirmed = 0
    /\ alive = TRUE /\ session = None
    /\ wpc = "subscribe" /\ toRead = {} /\ seen = {}
    /\ pending = None /\ pendingAt = 0 /\ failed = FALSE
    /\ cpc = [c \in Clients |-> "idle"]
    /\ phase = [c \in Clients |-> "take"]
    /\ cnow = [c \in Clients |-> 0]
    /\ lgen = [c \in Clients |-> 0]
    /\ lsession = [c \in Clients |-> None]
    /\ wasCurrent = [c \in Clients |-> FALSE]
    /\ published = [g \in 1..MaxGeneration |-> None]
    /\ lastConfirmed = [s \in Sessions |-> 0]

-----------------------------------------------------------------------------
\* Time, and logind's sessions (external).

Tick ==
    /\ now < MaxTime
    /\ now' = now + 1
    /\ UNCHANGED <<eligible, changes, publication, worker, history, clients>>

SessionsChange ==
    /\ changes < MaxChanges
    /\ changes' = changes + 1
    /\ eligible' \in SUBSET Sessions \ {eligible}
    /\ UNCHANGED <<now, publication, worker, history, clients>>

-----------------------------------------------------------------------------
\* The monitor thread.

\* decide_session: exactly one candidate.
Decide(S) == IF \E s \in S : S = {s} THEN CHOOSE s \in S : S = {s} ELSE None

\* publish(decision, monotonic_ms()) is called with this decision.
Publish(decision, fail) ==
    /\ pending' = decision /\ pendingAt' = now /\ failed' = fail
    /\ toRead' = {} /\ seen' = {}
    /\ wpc' = "publish"

Subscribe ==
    /\ wpc = "subscribe"
    /\ wpc' = "list"
    /\ UNCHANGED <<world, publication, toRead, seen, pending, pendingAt, failed,
                   history, clients>>

ListSessions ==
    /\ wpc = "list"
    /\ wpc' = "read" /\ toRead' = Sessions /\ seen' = {}
    /\ UNCHANGED <<world, publication, pending, pendingAt, failed, history,
                   clients>>

\* The properties of one session after the other, over D-Bus.
ReadSessionProperties ==
    /\ wpc = "read"
    /\ \E s \in toRead :
        /\ toRead' = toRead \ {s}
        /\ seen' = IF s \in eligible THEN seen \cup {s} ELSE seen
    /\ UNCHANGED <<world, publication, wpc, pending, pendingAt, failed, history,
                   clients>>

RefreshDecision ==
    /\ wpc = "read" /\ toRead = {}
    /\ Publish(Decide(seen), FALSE)
    /\ UNCHANGED <<world, publication, history, clients>>

\* The source failed while it subscribed, listed, read or waited.
SourceFails ==
    /\ wpc \in {"subscribe", "list", "read", "wait"}
    /\ Publish(None, TRUE)
    /\ UNCHANGED <<world, publication, history, clients>>

\* After publish: the main loop, or reconnect_source.
Published == wpc' = IF failed THEN "backoff" ELSE "wait"

Confirms(s) == lastConfirmed' = [lastConfirmed EXCEPT ![s] = pendingAt]

\* Mutant: any authorised session counts as a confirmation of the current one.
PublishBeginAnySession ==
    /\ wpc = "publish"
    /\ IF pending # None /\ authorized
       THEN /\ confirmed' = pendingAt
            /\ Confirms(pending)
            /\ Published
            /\ UNCHANGED authorized
       ELSE /\ authorized' = FALSE
            /\ wpc' = "bump"
            /\ UNCHANGED <<confirmed, lastConfirmed>>
    /\ UNCHANGED <<world, generation, alive, session, toRead, seen, pending,
                   pendingAt, failed, published, clients>>

\* publish takes the write lock: the current session is only confirmed again,
\* any other decision first withdraws the authorisation.
PublishBegin ==
    /\ wpc = "publish"
    /\ IF pending # None /\ authorized /\ session = pending
       THEN /\ confirmed' = pendingAt
            /\ Confirms(pending)
            /\ Published
            /\ UNCHANGED authorized
       ELSE /\ authorized' = FALSE
            /\ wpc' = "bump"
            /\ UNCHANGED <<confirmed, lastConfirmed>>
    /\ UNCHANGED <<world, generation, alive, session, toRead, seen, pending,
                   pendingAt, failed, published, clients>>

PublishBump ==
    /\ wpc = "bump"
    /\ generation < MaxGeneration
    /\ generation' = generation + 1
    /\ published' = [published EXCEPT ![generation'] = pending]
    /\ wpc' = "store"
    /\ UNCHANGED <<world, authorized, confirmed, alive, session, toRead, seen,
                   pending, pendingAt, failed, lastConfirmed, clients>>

\* session cannot be read while the lock is held: its store and the one of
\* confirmed_at_ms are one step.
PublishStore ==
    /\ wpc = "store"
    /\ session' = pending
    /\ confirmed' = pendingAt
    /\ IF pending = None
       THEN Published /\ UNCHANGED lastConfirmed
       ELSE Confirms(pending) /\ wpc' = "authorize"
    /\ UNCHANGED <<world, authorized, generation, alive, toRead, seen, pending,
                   pendingAt, failed, published, clients>>

PublishAuthorize ==
    /\ wpc = "authorize"
    /\ authorized' = TRUE
    /\ Published
    /\ UNCHANGED <<world, generation, confirmed, alive, session, toRead, seen,
                   pending, pendingAt, failed, history, clients>>

\* Mutant: the monitor is not woken once the last session has ended.
WaitEndsOnlyOnSignal ==
    /\ wpc = "wait" /\ eligible # {}
    /\ wpc' = "list"
    /\ UNCHANGED <<world, publication, toRead, seen, pending, pendingAt, failed,
                   history, clients>>

\* A signal, or the refresh interval has passed.
WaitEnds ==
    /\ wpc = "wait"
    /\ wpc' = "list"
    /\ UNCHANGED <<world, publication, toRead, seen, pending, pendingAt, failed,
                   history, clients>>

\* reconnect_source after its back-off.
Reconnect ==
    /\ wpc = "backoff"
    /\ wpc' = "subscribe"
    /\ UNCHANGED <<world, publication, toRead, seen, pending, pendingAt, failed,
                   history, clients>>

\* The monitor is stopped, or panics: the death guard runs
\* mark_worker_stopped.
WorkerStops ==
    /\ wpc \in {"subscribe", "list", "read", "wait", "backoff"}
    /\ authorized' = FALSE
    /\ wpc' = "killBump"
    /\ UNCHANGED <<world, generation, confirmed, alive, session, toRead, seen,
                   pending, pendingAt, failed, history, clients>>

MarkStoppedBump ==
    /\ wpc = "killBump"
    /\ generation < MaxGeneration
    /\ generation' = generation + 1
    /\ session' = None
    /\ wpc' = "killAlive"
    /\ UNCHANGED <<world, authorized, confirmed, alive, toRead, seen, pending,
                   pendingAt, failed, history, clients>>

MarkStoppedDead ==
    /\ wpc = "killAlive"
    /\ alive' = FALSE
    /\ wpc' = "dead"
    /\ UNCHANGED <<world, authorized, generation, confirmed, session, toRead,
                   seen, pending, pendingAt, failed, history, clients>>

-----------------------------------------------------------------------------
\* The clients.

Goto(c, l) == cpc' = [cpc EXCEPT ![c] = l]

\* An error: no lease is taken; a checked one is kept by its owner.
Refused(c) == Goto(c, IF phase[c] = "check" THEN "held" ELSE "idle")

\* ensure_available is entered with the time read by the caller.
Enter(c, p) ==
    /\ Goto(c, "alive")
    /\ phase' = [phase EXCEPT ![c] = p]
    /\ cnow' = [cnow EXCEPT ![c] = now]

\* backend_lease
TakeLease(c) ==
    /\ cpc[c] = "idle"
    /\ Enter(c, "take")
    /\ UNCHANGED <<world, publication, worker, history, lgen, lsession,
                   wasCurrent>>

\* The lease is authorised and of the published generation.
LeaseCurrent(c) == authorized /\ generation = lgen[c]

\* ensure_current
EnsureCurrent(c) ==
    /\ cpc[c] \in {"held", "passed"}
    /\ Enter(c, "check")
    /\ wasCurrent' = [wasCurrent EXCEPT ![c] = LeaseCurrent(c)]
    /\ UNCHANGED <<world, publication, worker, history, lgen, lsession>>

ReadAlive(c) ==
    /\ cpc[c] = "alive"
    /\ IF alive THEN Goto(c, "authorized") ELSE Refused(c)
    /\ UNCHANGED <<world, publication, worker, history, phase, cnow, lgen,
                   lsession, wasCurrent>>

ReadAuthorized(c) ==
    /\ cpc[c] = "authorized"
    /\ IF authorized THEN Goto(c, "fresh") ELSE Refused(c)
    /\ UNCHANGED <<world, publication, worker, history, phase, cnow, lgen,
                   lsession, wasCurrent>>

\* is_fresh: now_ms.saturating_sub(confirmed_at_ms) <= lease_ttl_ms
Fresh(t) == t <= confirmed + Ttl

ReadConfirmed(c) ==
    /\ cpc[c] = "fresh"
    /\ IF Fresh(cnow[c])
       THEN Goto(c, CASE phase[c] = "take" -> "generation"
                      [] phase[c] = "retake" -> "recheck"
                      [] OTHER -> "current")
       ELSE Refused(c)
    /\ UNCHANGED <<world, publication, worker, history, phase, cnow, lgen,
                   lsession, wasCurrent>>

ReadGeneration(c) ==
    /\ cpc[c] = "generation"
    /\ lgen' = [lgen EXCEPT ![c] = generation]
    /\ Goto(c, "session")
    /\ UNCHANGED <<world, publication, worker, history, phase, cnow, lsession,
                   wasCurrent>>

\* The read lock waits for the monitor; the second ensure_available has the
\* same now_ms.
ReadSession(c) ==
    /\ cpc[c] = "session"
    /\ wpc \notin Publishing
    /\ IF session = None
       THEN Refused(c) /\ UNCHANGED <<phase, lsession>>
       ELSE /\ lsession' = [lsession EXCEPT ![c] = session]
            /\ phase' = [phase EXCEPT ![c] = "retake"]
            /\ Goto(c, "alive")
    /\ UNCHANGED <<world, publication, worker, history, cnow, lgen, wasCurrent>>

Recheck(c) ==
    /\ cpc[c] = "recheck"
    /\ IF generation = lgen[c] THEN Goto(c, "held") ELSE Refused(c)
    /\ UNCHANGED <<world, publication, worker, history, phase, cnow, lgen,
                   lsession, wasCurrent>>

\* Mutant: the sessions are compared, not the generations.
ReadCurrentSession(c) ==
    /\ cpc[c] = "current"
    /\ IF session = lsession[c] THEN Goto(c, "passed") ELSE Refused(c)
    /\ UNCHANGED <<world, publication, worker, history, phase, cnow, lgen,
                   lsession, wasCurrent>>

ReadCurrent(c) ==
    /\ cpc[c] = "current"
    /\ IF generation = lgen[c] THEN Goto(c, "passed") ELSE Refused(c)
    /\ UNCHANGED <<world, publication, worker, history, phase, cnow, lgen,
                   lsession, wasCurrent>>

\* The backend that owns the lease is shut down.
DropLease(c) ==
    /\ cpc[c] \in {"held", "passed"}
    /\ Goto(c, "idle")
    /\ UNCHANGED <<world, publication, worker, history, phase, cnow, lgen,
                   lsession, wasCurrent>>

-----------------------------------------------------------------------------
PublishStep ==
    \/ PublishBegin \/ PublishBump \/ PublishStore \/ PublishAuthorize
    \/ MarkStoppedBump \/ MarkStoppedDead

WorkerStep ==
    \/ Subscribe \/ ListSessions \/ ReadSessionProperties \/ RefreshDecision
    \/ PublishStep \/ WaitEnds \/ Reconnect

ClientStep(c) ==
    \/ TakeLease(c) \/ EnsureCurrent(c)
    \/ ReadAlive(c) \/ ReadAuthorized(c) \/ ReadConfirmed(c)
    \/ ReadGeneration(c) \/ ReadSession(c) \/ Recheck(c) \/ ReadCurrent(c)
    \/ DropLease(c)

Next ==
    \/ Tick \/ SessionsChange
    \/ WorkerStep \/ SourceFails \/ WorkerStops
    \/ \E c \in Clients : ClientStep(c)

Spec == Init /\ [][Next]_vars

\* The monitor thread runs, and logind answers or fails.
FairSpec == Spec /\ WF_vars(WorkerStep)

-----------------------------------------------------------------------------
\* Properties.

\* The client owns a lease, checked at this moment or not.
HasLease(c) ==
    \/ cpc[c] \in {"held", "passed"}
    \/ phase[c] = "check" /\ cpc[c] # "idle"

\* A lease names the session that was published with its generation, although
\* backend_lease reads the two without a common lock.
LeaseIsPublished ==
    \A c \in Clients :
        HasLease(c)
            => /\ lsession[c] \in Sessions
               /\ published[lgen[c]] = lsession[c]

\* A lease that was revoked before a check begins does not pass it, not even
\* when the same session is authorised again meanwhile.
RevokedStaysRevoked ==
    \A c \in Clients : cpc[c] = "passed" => wasCurrent[c]

\* A lease is the one of its session and generation for as long as it passes:
\* reading session and generation one after the other does not mix two of them,
\* and authorising the session again does not revive it (backend_lease,
\* SessionLease::ensure_current).
LeaseIsGenuine == LeaseIsPublished /\ RevokedStaysRevoked

\* A lease that passes a check was confirmed for its own session at most Ttl
\* before the check began: a monitor that hangs cannot keep it alive.
ConfirmedRecently ==
    \A c \in Clients :
        cpc[c] = "passed" => cnow[c] <= lastConfirmed[lsession[c]] + Ttl

\* A session that logind no longer reports as the active local one loses its
\* authorisation, whatever the source fails at and however often it reconnects.
EndedSessionLosesAccess ==
    \A s \in Sessions :
        <>[](s \notin eligible) => <>[](authorized => session # s)
=============================================================================
