------------------------- MODULE SyntheticOperation -------------------------
(***************************************************************************)
(* One synthetic operation at a time on the virtual keyboard: the          *)
(* SyntheticOperation of daemon/synthetic_input.rs over the uinput sink of *)
(* daemon/uinput_synthetic.rs, driven by run_uinput_synthetic_operation    *)
(* and its callers in daemon/keyboard.rs, between the physical key events  *)
(* that the same writer thread forwards to the same device.                *)
(*                                                                         *)
(* The device holds real state: a write that reports an error may or may   *)
(* not have taken effect, so the operation keeps a debt for every key that *)
(* may be down.  Cancellation, abort and the session lease are flags set   *)
(* by other threads and read at check points only; the code from one check *)
(* point to the next one is one step.  A key event written but not yet     *)
(* synchronised already counts as the device's state.                      *)
(***************************************************************************)
EXTENDS Naturals, Sequences

CONSTANTS
    Modifiers,     \* keys with a modifier_bit
    Others,        \* every other key
    Order,         \* the order of pressed_uinput_modifier_evdev_keys
    Corrections,   \* scripts of run_correction: sequences of key groups,
                   \* each pressed in order and released in reverse
    Shortcuts,     \* scripts of run_uinput_shortcut: one group
    Separators,    \* scripts of a typed separator: one stroke
    None

Keys == Modifiers \cup Others
Script == Seq(Seq(Keys) \ {<<>>})

ASSUME ConstantsAssumption ==
    /\ Modifiers \cap Others = {}
    /\ None \notin Keys
    /\ Order \in [Modifiers -> Nat]
    /\ \A m, n \in Modifiers : Order[m] = Order[n] => m = n
    /\ Corrections \subseteq Script \ {<<>>}
    /\ Shortcuts \subseteq Script \ {<<>>}
    /\ Separators \subseteq Script \ {<<>>}

VARIABLES
    physical,   \* [Keys -> BOOLEAN], physical keys forwarded as down
    device,     \* [Keys -> BOOLEAN], keys the kernel holds down
    entries,    \* [Modifiers -> state], the SessionModifierLedger
    pc, kind,   \* where the writer is; which caller started the operation
    group, script,   \* keys still to press in this group; groups after it
    toRelease,  \* frozen modifiers still to be temporarily released
    plan,       \* PhysicalRestorePlan, what is left of it to restore
    debts,      \* SyntheticKeyLedger: records of id and key
    nextId,     \* next_press_id
    pressed,    \* ids of this group's presses, to be released in reverse
    fallback,   \* release_only_fallback: at most one token
    err,        \* first error of the execution
    mode,       \* the finalizer that runs
    cleanup,    \* the finalizer has met an error
    todo,       \* debts the finalizer has not tried to release yet
    result,     \* how the last operation ended
    \* set by other threads
    cancelled,  \* soft_cancel_requested of this operation
    aborted,    \* stop, a failed transaction or this operation's deadline
    leaseLost   \* the session lease is no longer current

opvars == <<kind, group, script, toRelease, plan, debts, nextId, pressed,
            fallback, err, mode, cleanup, todo>>
flags == <<cancelled, aborted, leaseLost>>
vars == <<physical, device, entries, pc, opvars, result, flags>>

EntryState == {"none", "OwnedDown", "TemporarilyReleased", "Restoring"}
Debt == [id : Nat, key : Keys]
Executing == {"release", "released", "press", "settle", "wait", "unpress",
              "next"}
Finalizing == {"finish", "restore", "adopt", "cleanup", "report"}

KeyType ==
    /\ physical \in [Keys -> BOOLEAN]
    /\ device \in [Keys -> BOOLEAN]
    /\ entries \in [Modifiers -> EntryState]

ScriptType ==
    /\ kind \in {"none", "correction", "shortcut", "separator"}
    /\ group \in Seq(Keys)
    /\ script \in Script

LedgerType ==
    /\ toRelease \subseteq Modifiers
    /\ plan \subseteq Modifiers
    /\ debts \subseteq Debt
    /\ nextId \in Nat \ {0}
    /\ pressed \subseteq Nat
    /\ fallback \in Keys \cup {None}
    /\ todo \subseteq Debt

ControlType ==
    /\ pc \in {"idle", "failed", "dead"} \cup Executing \cup Finalizing
    /\ err \in {"none", "control", "cancelled", "fatal"}
    /\ mode \in {"none", "success", "soft", "hard", "drop"}
    /\ result \in {"none", "ok", "cancelled", "fatal"}

FlagType ==
    /\ cleanup \in BOOLEAN
    /\ cancelled \in BOOLEAN /\ aborted \in BOOLEAN /\ leaseLost \in BOOLEAN

\* The state is typed.
TypeOK == KeyType /\ ScriptType /\ LedgerType /\ ControlType /\ FlagType

\* No operation, and what SyntheticOperation::new starts from.
Fresh ==
    /\ kind = "none" /\ group = <<>> /\ script = <<>>
    /\ toRelease = {} /\ plan = {} /\ debts = {} /\ nextId = 1
    /\ pressed = {} /\ fallback = None /\ err = "none" /\ mode = "none"
    /\ cleanup = FALSE /\ todo = {}
    /\ cancelled = FALSE /\ aborted = FALSE /\ leaseLost = FALSE

Init ==
    /\ physical = [k \in Keys |-> FALSE]
    /\ device = [k \in Keys |-> FALSE]
    /\ entries = [m \in Modifiers |-> "none"]
    /\ pc = "idle" /\ result = "none"
    /\ Fresh

-----------------------------------------------------------------------------
\* The device and the checks.

\* write_key: a failed write may have been applied.
Write(k, value, ok) ==
    \E applied \in BOOLEAN :
        /\ ok => applied
        /\ device' = [device EXCEPT ![k] = IF applied THEN value ELSE @]

\* WriterTransactionControl::ensure_active, absent for a separator.
WriterCheck ==
    IF kind = "separator" THEN "none"
    ELSE IF leaseLost \/ aborted THEN "fatal"
    ELSE IF cancelled THEN "cancelled"
    ELSE "none"

\* OperationControl::ensure_active
ControlRefuses == cancelled \/ aborted

\* The errors of the checks in front of a mutation: the writer's own
\* permission, then the operation's control.
Refusals ==
    ({WriterCheck} \ {"none"}) \cup (IF ControlRefuses THEN {"control"} ELSE {})

\* keep_first_error, on the error of the execution.
FirstError(e) == IF err = "none" THEN e ELSE err

EntryOf(k) == IF k \in Modifiers THEN entries[k] ELSE "none"

SetEntry(k, s) == entries' = [entries EXCEPT ![k] = s]

\* Modifiers are released in reverse and restored in the frozen order; debts
\* are released in reverse.
IsLast(m, S) == m \in S /\ \A n \in S : Order[n] <= Order[m]
IsFirst(m, S) == m \in S /\ \A n \in S : Order[m] <= Order[n]
IsNewest(d, D) == d \in D /\ \A e \in D : e.id <= d.id

-----------------------------------------------------------------------------
\* Between operations: physical events and the end of the writer.

\* forward_physical with value 1: refused while the key has a session entry.
ForwardPress(k) ==
    /\ pc = "idle" /\ ~physical[k]
    /\ IF EntryOf(k) # "none"
       THEN pc' = "failed" /\ UNCHANGED <<physical, device>>
       ELSE \E ok \in BOOLEAN :
              /\ Write(k, TRUE, ok)
              /\ physical' = [physical EXCEPT ![k] = TRUE]
              /\ \E sync \in BOOLEAN : pc' = IF ok /\ sync THEN "idle" ELSE "failed"
    /\ UNCHANGED <<entries, opvars, result, flags>>

\* forward_physical with value 0 and commit_physical_release.  A key that
\* was held before the grab is released without a forwarded press.
ForwardRelease(k) ==
    /\ pc = "idle"
    /\ physical' = [physical EXCEPT ![k] = FALSE]
    /\ \E ok, sync \in BOOLEAN :
        /\ Write(k, FALSE, ok)
        /\ IF ok /\ sync /\ EntryOf(k) \in {"none", "OwnedDown"}
           THEN /\ pc' = "idle"
                /\ entries' = [m \in Modifiers |->
                                  IF m = k THEN "none" ELSE entries[m]]
           ELSE pc' = "failed" /\ UNCHANGED entries
    /\ UNCHANGED <<opvars, result, flags>>

\* The writer loop ends, on shutdown or after a failure: the device is
\* dropped and the kernel releases every key of it.
Destroy ==
    /\ pc \in {"idle", "failed"}
    /\ pc' = "dead"
    /\ device' = [k \in Keys |-> FALSE]
    /\ UNCHANGED <<physical, entries, opvars, result, flags>>

\* run_uinput_synthetic_operation up to its first check.  The modifier state
\* the service passes is the forwarded one; a separator passes none.
Begin(c, s) ==
    /\ pc = "idle"
    /\ kind' = c /\ group' = Head(s) /\ script' = Tail(s)
    /\ toRelease' = IF c = "separator" THEN {}
                    ELSE {m \in Modifiers : physical[m]}
    /\ pc' = IF toRelease' = {} THEN "press" ELSE "release"
    /\ result' = "none"
    /\ UNCHANGED <<physical, device, entries, plan, debts, nextId, pressed,
                   fallback, err, mode, cleanup, todo, flags>>

BeginCorrection == \E s \in Corrections : Begin("correction", s)
BeginShortcut == \E s \in Shortcuts : Begin("shortcut", s)
BeginSeparator == \E s \in Separators : Begin("separator", s)

-----------------------------------------------------------------------------
\* The execution: temporarily_release_uinput_modifiers, then the script.

\* The outcomes of "check, synchronize, check" after a mutation.
Settlements ==
    {"fatal"} \cup (IF ControlRefuses THEN {"control"} ELSE {"none"})

\* A shortcut leaves its presses to the finalizer; a stroke or a layout
\* combination releases them first.
AfterPressError == IF kind = "shortcut" THEN "finish" ELSE "unpress"

\* A check in front of a mutation refuses it.
Refuse ==
    /\ pc \in {"release", "press"}
    /\ \E e \in Refusals : err' = e
    /\ pc' = IF pc = "release" THEN "finish" ELSE AfterPressError
    /\ UNCHANGED <<physical, device, entries, kind, group, script, toRelease,
                   plan, debts, nextId, pressed, fallback, mode, cleanup,
                   todo, result, flags>>

\* Mutant: only a modifier with a session entry is planned for restore.
TemporarilyReleaseUnplanned ==
    /\ pc = "release" /\ Refusals = {}
    /\ \E k \in toRelease, ok \in BOOLEAN :
        LET legal == entries[k] \in {"none", "OwnedDown"} IN
        /\ IsLast(k, toRelease)
        /\ toRelease' = toRelease \ {k}
        /\ plan' = IF entries[k] = "OwnedDown" THEN plan \cup {k} ELSE plan
        /\ IF entries[k] = "OwnedDown" THEN SetEntry(k, "TemporarilyReleased")
                                       ELSE UNCHANGED entries
        /\ Write(k, FALSE, ok)
        /\ pc' = IF ok /\ legal THEN "released" ELSE "finish"
        /\ err' = IF ok /\ legal THEN err ELSE "fatal"
    /\ UNCHANGED <<physical, kind, group, script, debts, nextId, pressed,
                   fallback, mode, cleanup, todo, result, flags>>

\* temporarily_release_physical_modifier: the plan is recorded before the
\* write, and the entry is marked even when the write failed.
TemporarilyRelease ==
    /\ pc = "release" /\ Refusals = {}
    /\ \E k \in toRelease, ok \in BOOLEAN :
        LET legal == entries[k] \in {"none", "OwnedDown"} IN
        /\ IsLast(k, toRelease)
        /\ toRelease' = toRelease \ {k}
        /\ plan' = plan \cup {k}
        /\ IF entries[k] = "OwnedDown" THEN SetEntry(k, "TemporarilyReleased")
                                       ELSE UNCHANGED entries
        /\ Write(k, FALSE, ok)
        /\ pc' = IF ok /\ legal THEN "released" ELSE "finish"
        /\ err' = IF ok /\ legal THEN err ELSE "fatal"
    /\ UNCHANGED <<physical, kind, group, script, debts, nextId, pressed,
                   fallback, mode, cleanup, todo, result, flags>>

SettleRelease ==
    /\ pc = "released"
    /\ \E e \in Settlements :
        /\ err' = e
        /\ pc' = IF e # "none" THEN "finish"
                 ELSE IF toRelease = {} THEN "press" ELSE "release"
    /\ UNCHANGED <<physical, device, entries, kind, group, script, toRelease,
                   plan, debts, nextId, pressed, fallback, mode, cleanup,
                   todo, result, flags>>

\* SyntheticOperation::press: the debt exists before the write.
Press ==
    /\ pc = "press" /\ Refusals = {}
    /\ LET k == Head(group) IN
       /\ debts' = debts \cup {[id |-> nextId, key |-> k]}
       /\ \E ok \in BOOLEAN :
             /\ IF EntryOf(k) = "OwnedDown" THEN ~ok /\ UNCHANGED device
                                            ELSE Write(k, TRUE, ok)
             /\ pc' = IF ok THEN "settle" ELSE AfterPressError
             /\ err' = IF ok THEN err ELSE "fatal"
    /\ nextId' = nextId + 1
    /\ UNCHANGED <<physical, entries, kind, group, script, toRelease, plan,
                   pressed, fallback, mode, cleanup, todo, result, flags>>

\* The rest of press: only an undisturbed press is in the caller's list.
SettlePress ==
    /\ pc = "settle"
    /\ \E e \in Settlements :
        /\ err' = e
        /\ IF e = "none"
           THEN /\ pressed' = pressed \cup {nextId - 1}
                /\ group' = Tail(group)
                /\ pc' = IF Tail(group) = <<>> THEN "wait" ELSE "press"
           ELSE /\ pc' = AfterPressError
                /\ UNCHANGED <<pressed, group>>
    /\ UNCHANGED <<physical, device, entries, kind, script, toRelease, plan,
                   debts, nextId, fallback, mode, cleanup, todo, result,
                   flags>>

\* sleep_for_transaction with every key of the group down.
Wait ==
    /\ pc = "wait"
    /\ err' = WriterCheck
    /\ pc' = "unpress"
    /\ UNCHANGED <<physical, device, entries, kind, group, script, toRelease,
                   plan, debts, nextId, pressed, fallback, mode, cleanup,
                   todo, result, flags>>

\* Mutant: the debt is acknowledged although its release failed.
UnpressAlwaysAcknowledged ==
    /\ pc = "unpress" /\ pressed # {}
    /\ \E d \in debts, up, sync \in BOOLEAN :
        /\ IsNewest(d, {e \in debts : e.id \in pressed})
        /\ Write(d.key, FALSE, up)
        /\ debts' = debts \ {d}
        /\ err' = FirstError(IF ~(up /\ sync) THEN "fatal"
                             ELSE IF ControlRefuses THEN "control"
                             ELSE "none")
        /\ pressed' = pressed \ {d.id}
    /\ UNCHANGED <<physical, entries, pc, kind, group, script, toRelease,
                   plan, nextId, fallback, mode, cleanup, todo, result,
                   flags>>

\* SyntheticOperation::release, in release_synthetic_presses: the release is
\* attempted whatever the checks say, and the debt is removed only when both
\* the write and the synchronisation succeeded.
Unpress ==
    /\ pc = "unpress" /\ pressed # {}
    /\ \E d \in debts, up, sync \in BOOLEAN :
        /\ IsNewest(d, {e \in debts : e.id \in pressed})
        /\ Write(d.key, FALSE, up)
        /\ debts' = IF up /\ sync THEN debts \ {d} ELSE debts
        /\ err' = FirstError(IF ~(up /\ sync) THEN "fatal"
                             ELSE IF ControlRefuses THEN "control"
                             ELSE "none")
        /\ pressed' = pressed \ {d.id}
    /\ UNCHANGED <<physical, entries, pc, kind, group, script, toRelease,
                   plan, nextId, fallback, mode, cleanup, todo, result,
                   flags>>

Unpressed ==
    /\ pc = "unpress" /\ pressed = {}
    /\ pc' = IF err = "none" THEN "next" ELSE "finish"
    /\ UNCHANGED <<physical, device, entries, opvars, result, flags>>

\* After a group: the delay after a stroke, the checks around the layout
\* switch, and an X11 layout switch that fails after it was permitted.
NextGroup ==
    /\ pc = "next"
    /\ \E e \in (IF kind = "shortcut" THEN {"none"} ELSE {WriterCheck})
                \cup (IF kind = "correction" THEN {"fatal"} ELSE {}) :
        /\ err' = e
        /\ IF e = "none" /\ script # <<>>
           THEN group' = Head(script) /\ script' = Tail(script) /\ pc' = "press"
           ELSE pc' = "finish" /\ UNCHANGED <<group, script>>
    /\ UNCHANGED <<physical, device, entries, kind, toRelease, plan, debts,
                   nextId, pressed, fallback, mode, cleanup, todo, result,
                   flags>>

-----------------------------------------------------------------------------
\* The finalizers.

\* map_synthetic_control_error and is_matching_soft_cancel: an error of the
\* operation's control is a soft cancel only if the writer says so now.
Verdict ==
    IF err # "control" THEN err
    ELSE IF WriterCheck = "cancelled" THEN "cancelled" ELSE "fatal"

ToCleanup == pc' = "cleanup" /\ todo' = debts'

\* Mutant: a hard failure restores the held modifiers too.
FinishRestoringAlways ==
    /\ pc = "finish"
    /\ mode' = CASE Verdict = "none" -> "success"
                 [] Verdict = "cancelled" -> "soft"
                 [] OTHER -> "hard"
    /\ UNCHANGED debts
    /\ pc' = "restore" /\ UNCHANGED todo
    /\ UNCHANGED <<physical, device, entries, kind, group, script, toRelease,
                   plan, nextId, pressed, fallback, err, cleanup, result,
                   flags>>

Finish ==
    /\ pc = "finish"
    /\ mode' = CASE Verdict = "none" -> "success"
                 [] Verdict = "cancelled" -> "soft"
                 [] OTHER -> "hard"
    /\ UNCHANGED debts
    /\ IF mode' = "hard" THEN ToCleanup ELSE pc' = "restore" /\ UNCHANGED todo
    /\ UNCHANGED <<physical, device, entries, kind, group, script, toRelease,
                   plan, nextId, pressed, fallback, err, cleanup, result,
                   flags>>

\* restore_one_modifier up to the write.  ensure_cleanup_active and the
\* restore authorizer ignore the operation's own soft cancel and the lease.
RestoreDown ==
    /\ pc = "restore"
    /\ \E k \in plan :
       /\ IsFirst(k, plan)
       /\ IF aborted \/ entries[k] \notin {"none", "TemporarilyReleased"}
          THEN /\ UNCHANGED <<device, entries, debts, nextId>>
               /\ cleanup' = TRUE
               /\ ToCleanup
          ELSE /\ debts' = debts \cup {[id |-> nextId, key |-> k]}
               /\ nextId' = nextId + 1
               /\ IF entries[k] = "TemporarilyReleased"
                  THEN SetEntry(k, "Restoring") ELSE UNCHANGED entries
               /\ \E ok \in BOOLEAN :
                    /\ Write(k, TRUE, ok)
                    /\ IF ok THEN pc' = "adopt" /\ UNCHANGED <<cleanup, todo>>
                             ELSE cleanup' = TRUE /\ ToCleanup
    /\ UNCHANGED <<physical, kind, group, script, toRelease, plan, pressed,
                   fallback, err, mode, result, flags>>

\* The rest of restore_one_modifier: transfer and adopt_restored, whose
\* token falls back to release-only when the session ledger refuses it.
Adopt ==
    /\ pc = "adopt"
    /\ \E k \in plan, sync \in BOOLEAN :
       /\ IsFirst(k, plan)
       /\ IF aborted \/ ~sync
          THEN /\ UNCHANGED <<debts, entries, fallback, plan>>
               /\ cleanup' = TRUE
               /\ ToCleanup
          ELSE /\ debts' = {d \in debts : d.id # nextId - 1}
               /\ IF entries[k] \in {"none", "Restoring"}
                  THEN /\ SetEntry(k, "OwnedDown")
                       /\ plan' = plan \ {k}
                       /\ pc' = "restore"
                       /\ UNCHANGED <<fallback, cleanup, todo>>
                  ELSE /\ fallback' = k
                       /\ cleanup' = TRUE
                       /\ ToCleanup
                       /\ UNCHANGED <<entries, plan>>
    /\ UNCHANGED <<physical, device, kind, group, script, toRelease, nextId,
                   pressed, err, mode, result, flags>>

Restored ==
    /\ pc = "restore" /\ plan = {}
    /\ UNCHANGED debts
    /\ ToCleanup
    /\ UNCHANGED <<physical, device, entries, kind, group, script, toRelease,
                   plan, nextId, pressed, fallback, err, mode, cleanup,
                   result, flags>>

\* release_all: one attempt for every debt, the newest first, going on after
\* an error.
ReleaseDebt ==
    /\ pc = "cleanup" /\ todo # {}
    /\ \E d \in todo, up, sync \in BOOLEAN :
        /\ IsNewest(d, todo)
        /\ Write(d.key, FALSE, up)
        /\ debts' = IF up /\ sync THEN debts \ {d} ELSE debts
        /\ cleanup' = (cleanup \/ ~(up /\ sync))
        /\ todo' = todo \ {d}
    /\ UNCHANGED <<physical, entries, pc, kind, group, script, toRelease,
                   plan, nextId, pressed, fallback, err, mode, result, flags>>

\* drain_release_only_fallback
DrainFallback ==
    /\ pc = "cleanup" /\ todo = {}
    /\ IF fallback = None
       THEN UNCHANGED <<device, fallback, cleanup>>
       ELSE \E up, sync \in BOOLEAN :
              /\ Write(fallback, FALSE, up)
              /\ fallback' = IF up /\ sync THEN None ELSE fallback
              /\ cleanup' = (cleanup \/ ~(up /\ sync))
    /\ pc' = "report"
    /\ UNCHANGED <<physical, entries, kind, group, script, toRelease, plan,
                   debts, nextId, pressed, err, mode, todo, result, flags>>

\* remaining_debt is zero: the uinput sink's terminal_proof is Reconciled.
Reconciled == debts = {} /\ fallback = None

\* The last synchronisation, the terminal report and what
\* run_uinput_synthetic_operation makes of it.  Only ok and cancelled let the
\* writer go on, and the operation and its control are dropped.
Outcome(sync) ==
    IF ~Reconciled \/ cleanup \/ ~sync THEN "fatal"
    ELSE CASE mode = "success" -> IF ~cancelled THEN "ok"
                                  ELSE IF WriterCheck = "cancelled"
                                       THEN "cancelled" ELSE "fatal"
           [] mode = "soft" -> "cancelled"
           [] OTHER -> "fatal"

Drop ==
    /\ kind' = "none" /\ group' = <<>> /\ script' = <<>>
    /\ toRelease' = {} /\ plan' = {} /\ debts' = {} /\ nextId' = 1
    /\ pressed' = {} /\ fallback' = None /\ err' = "none" /\ mode' = "none"
    /\ cleanup' = FALSE /\ todo' = {}
    /\ cancelled' = FALSE /\ aborted' = FALSE /\ leaseLost' = FALSE

Report ==
    /\ pc = "report"
    /\ \E sync \in BOOLEAN :
        /\ result' = Outcome(sync)
        /\ IF Outcome(sync) = "fatal"
           THEN pc' = "failed" /\ UNCHANGED <<opvars, flags>>
           ELSE pc' = "idle" /\ Drop
    /\ UNCHANGED <<physical, device, entries>>

\* Drop of an operation that was never finalised: a panic unwinds the writer.
Unwind ==
    /\ pc \in Executing \cup {"restore", "adopt"}
    /\ mode' = "drop"
    /\ UNCHANGED debts
    /\ ToCleanup
    /\ UNCHANGED <<physical, device, entries, kind, group, script, toRelease,
                   plan, nextId, pressed, fallback, err, cleanup, result,
                   flags>>

-----------------------------------------------------------------------------
\* The other threads.
Running == pc \in Executing \cup Finalizing

\* Only a correction that the service tracks can be cancelled.
RequestSoftCancel ==
    /\ Running /\ kind = "correction" /\ ~cancelled
    /\ cancelled' = TRUE
    /\ UNCHANGED <<physical, device, entries, pc, opvars, result, aborted,
                   leaseLost>>

Abort ==
    /\ Running /\ ~aborted
    /\ aborted' = TRUE
    /\ UNCHANGED <<physical, device, entries, pc, opvars, result, cancelled,
                   leaseLost>>

\* The lease is revoked or goes stale; a stale one can be confirmed again.
LeaseChanges ==
    /\ Running
    /\ leaseLost' = ~leaseLost
    /\ UNCHANGED <<physical, device, entries, pc, opvars, result, cancelled,
                   aborted>>

Execute ==
    \/ Refuse \/ TemporarilyRelease \/ SettleRelease
    \/ Press \/ SettlePress \/ Wait \/ Unpress \/ Unpressed \/ NextGroup

Finalize ==
    \/ Finish \/ RestoreDown \/ Adopt \/ Restored
    \/ ReleaseDebt \/ DrainFallback \/ Report

Next ==
    \/ \E k \in Keys : ForwardPress(k) \/ ForwardRelease(k)
    \/ BeginCorrection \/ BeginShortcut \/ BeginSeparator
    \/ Execute \/ Finalize \/ Unwind
    \/ RequestSoftCancel \/ Abort \/ LeaseChanges
    \/ Destroy

Spec == Init /\ [][Next]_vars

-----------------------------------------------------------------------------
\* Properties.

\* Whenever the writer is between two commands, a key that the virtual device
\* holds down is held on the physical keyboard: no operation that reports
\* success or cancellation leaves one of its own keys stuck, whatever writes
\* failed on the way (Reconciled is a proof).
NoStuckKey ==
    pc = "idle" => \A k \in Keys : device[k] => physical[k]

\* The session ledger owns only modifiers that are physically held, and
\* between two commands no transition of it is in flight: the next physical
\* press is never refused, and the next physical release always commits.
SessionOwned ==
    \A m \in Modifiers :
        entries[m] # "none" =>
            /\ pc # "failed" /\ pc # "dead" => physical[m]
            /\ pc = "idle" => entries[m] = "OwnedDown"

\* Both books of the writer are right between two commands: the device holds
\* down only what the user holds, and the session ledger owes only modifiers
\* whose release is still to come (SyntheticKeyLedger, SessionModifierLedger).
KeysAreAccountedFor == NoStuckKey /\ SessionOwned

\* A modifier that is physically held is down again on the device when the
\* operation returns r.
RestoredOn(r) ==
    pc = "report" /\ pc' = "idle" /\ result' = r /\ kind # "separator"
        => \A m \in Modifiers : physical[m] => device'[m]

\* A successful operation ends with the physical modifiers restored.
SuccessRestores == [][RestoredOn("ok")]_vars

\* After a fatal error, and in the clean-up of an unwound operation, no key of
\* the device goes down: cleanup only releases.
OnlyReleases ==
    (err = "fatal" \/ mode \in {"hard", "drop"}) /\ pc # "idle"
        => \A k \in Keys : device'[k] => device[k]

HardFailureOnlyReleases == [][OnlyReleases]_vars
====
