------------------------------ MODULE InputBackend ------------------------------
(***************************************************************************)
(* How the daemon takes a keyboard from the desktop and gives it back: the *)
(* discovery of the devices, the writer, the watchers and the worker that  *)
(* have to run before the grab, the handoff that waits for a quiet         *)
(* keyboard, the health checks of the event loop, the stop of a backend,   *)
(* the retries and the end of the process (keyboard.rs, input_backend.rs,  *)
(* service.rs, daemon/mod.rs).                                             *)
(*                                                                         *)
(* The main thread is sequential and pc says where it is; the writer       *)
(* thread, the watchers, the session, the devices and the user move at any *)
(* moment between two of its steps.                                        *)
(***************************************************************************)
EXTENDS Integers, Sequences, FiniteSets, SequencesExt

CONSTANTS
  Nodes,        \* the event devices, in the order of their paths
  Kind,         \* what a device is: "keyboard", "mouse" or "virtual"
  Seat,         \* the seat udev gives it
  Linked,       \* the keyboards with a link in /dev/input/by-path or by-id
  X11,          \* is it an X11 session
  Configured,   \* the device the environment names, or "none"
  Denied0,      \* what may not be opened at first
  Moving,       \* the devices that come and go
  Contested,    \* what the user may be given and denied: devices and "uinput"
  Keys,
  Windows,      \* quiet windows that fit in the handoff's deadline
  MaxFaults,    \* bound on what goes wrong
  MaxPresses    \* bound on what the user types

VARIABLES
  activeSeat,   \* the seat of the user's active session, or "none"
  lease,        \* "none", "current" or "revoked"
  node,         \* of a device: "absent", "settling" (udev) or "ready"
  denied,       \* what the user may not open: devices and "uinput"
  held,         \* keys that are physically down
  shown,        \* those of them whose press went to the desktop
  path,         \* the device prepare() verified
  swapped,      \* another device has its path since then
  kbd,          \* "closed", "open" or "grabbed"
  unread,       \* events on the descriptor of the daemon
  writer,       \* "none", "alive", "broken", "ended" (by the session),
                \* "hung", "late" (hung and a transaction timed out)
  cmds,         \* events the writer has still to forward
  virt,         \* keys down on the virtual device
  pointer,      \* watchers: "none", "off", "alive" or "dead"
  target,       \* and "hung", waiting for a reply of the X server
  runner,       \* is the worker of the selected text running
  slot,         \* does the service hold a backend
  state, retry, \* InputBackendLifecycle: its state, "none", "waiting" or "due"
  unresp,       \* a writer did not stop in time
  report,       \* the terminal report of the last writer
  monitors,     \* session and owner monitors: "running", "stopped", "hung"
  quit,         \* Quit was called
  process,      \* "running", "ok" or "failed"
  pc, err, origin,
  left,         \* quiet windows left before the deadline
  faults, presses

sessionVars == <<activeSeat, lease>>
deviceVars == <<node, denied, path, swapped>>
keyVars == <<held, shown, unread>>
workerVars == <<writer, cmds, virt, pointer, target, runner>>
serviceVars == <<slot, state, retry, unresp, report>>
processVars == <<monitors, quit, process>>
mainVars == <<pc, err, origin, left>>
faultVars == <<faults, presses>>
backendVars == <<sessionVars, deviceVars, keyVars, kbd, workerVars, serviceVars,
                 processVars, mainVars, faultVars>>

Paths == Range(Nodes)
Nothing == "none"

\* is_recoverable_input_error: what a retry may cure.
Waits == {"NotFound", "Denied", "Session", "Seat", "Identity"}
Recovers == {"Lost", "Worker", "NoDevice"}
RecoverableAtOpen == Waits \cup Recovers \cup {"Busy", "Incomplete"}

\* runtime_failure_recovery_state: the state in which a failure leaves the
\* lifecycle, if it may go on at all.
RecoveryState(e) == IF e \in Waits THEN "Waiting" ELSE "Recovering"
RecoverableAtRuntime == Waits \cup Recovers

DaemonInit ==
  /\ path = Nothing /\ swapped = FALSE /\ kbd = "closed" /\ unread = <<>>
  /\ writer = Nothing /\ cmds = <<>> /\ virt = {}
  /\ pointer = Nothing /\ target = Nothing /\ runner = FALSE
  /\ slot = FALSE /\ state = "Waiting" /\ retry = "due"
  /\ unresp = FALSE /\ report = Nothing
  /\ monitors = "running" /\ process = "running"
  /\ pc = "open" /\ err = Nothing /\ origin = "open" /\ left = 0
  /\ lease = Nothing

BackendInit ==
  /\ activeSeat = "seat0"
  /\ node = [p \in Paths |-> "ready"]
  /\ denied = Denied0
  /\ held = {} /\ shown = {}
  /\ quit = FALSE
  /\ faults = 0 /\ presses = 0
  /\ DaemonInit

-----------------------------------------------------------------------------
(***************************************************************************)
(* Discovery.  A candidate of another seat, one udev has not settled and   *)
(* one that is gone are passed over; one that may not be opened is passed  *)
(* over too, and is the error when no other is found.  The links come      *)
(* before all the devices, and are not asked for their keys.               *)
(***************************************************************************)
VerifyInputDevice(p, seat) ==
  IF node[p] = "absent" THEN "NoEntry"
  ELSE IF node[p] = "settling" THEN "Identity"
  ELSE IF Seat[p] # seat THEN "Seat" ELSE "ok"

Verified(p) == VerifyInputDevice(p, activeSeat) = "ok"

FirstOf(ps) == CHOOSE i \in ps : \A j \in ps : i <= j

Candidate(among, refused) ==
  LET found == {i \in DOMAIN Nodes : Nodes[i] \in among /\ Verified(Nodes[i])}
      opened == {i \in found : Nodes[i] \notin refused}
  IN  CASE opened # {} -> [path |-> Nodes[FirstOf(opened)], error |-> Nothing]
        [] opened = {} /\ found # {} -> [path |-> Nothing, error |-> "Denied"]
        [] OTHER -> [path |-> Nothing, error |-> Nothing]

\* Mutant: the first device that may not be opened ends the search.
FindStopsAtDenied(among, refused) ==
  LET found == {i \in DOMAIN Nodes : Nodes[i] \in among /\ Verified(Nodes[i])}
      first == Nodes[FirstOf(found)]
  IN  CASE found # {} /\ first \notin refused -> [path |-> first, error |-> Nothing]
        [] found # {} /\ first \in refused -> [path |-> Nothing, error |-> "Denied"]
        [] OTHER -> [path |-> Nothing, error |-> Nothing]

FindKeyboardViaSymlinks(among, refused) == Candidate(among, refused)

\* A device refuses to tell its keys unless it is opened, so one that is
\* refused counts whatever it is.
FindKeyboard ==
  Candidate({p \in Paths : Kind[p] = "keyboard" \/ p \in denied}, denied)

\* A device that is named is not searched for, and its error is final when it
\* is not there.
ConfiguredDevice ==
  LET e == VerifyInputDevice(Configured, activeSeat)
  IN  [path |-> IF e = "ok" THEN Configured ELSE Nothing, error |-> e]

ResolveKeyboardDevice ==
  LET linked == FindKeyboardViaSymlinks(Linked, denied)
      any == FindKeyboard
  IN  CASE Configured # Nothing -> ConfiguredDevice
        [] Configured = Nothing /\ (linked.path # Nothing \/ linked.error # Nothing)
             -> linked
        [] Configured = Nothing /\ linked.path = Nothing /\ linked.error = Nothing
           /\ (any.path # Nothing \/ any.error # Nothing) -> any
        [] OTHER -> [path |-> Nothing, error |-> "NotFound"]

PointerDevices ==
  {p \in Paths : Kind[p] = "mouse" /\ Verified(p) /\ p \notin denied}

-----------------------------------------------------------------------------
(***************************************************************************)
(* The open of a backend.                                                  *)
(***************************************************************************)
Lost == node[path] = "absent" \/ swapped

WriterAlive == writer \in {"alive", "hung"}
WatchersReady == pointer \in {"off", "alive"} /\ target \in {"off", "alive", "hung"}

\* ensure_input_dependencies_ready
DependencyError ==
  CASE ~WriterAlive -> "WriterGone"
    [] WriterAlive /\ ~WatchersReady -> "Worker"
    [] OTHER -> Nothing

OpenFails(e) == pc' = "stop" /\ origin' = "open" /\ err' = e

Advance(next) == pc' = next /\ UNCHANGED <<origin, err>>

\* SessionAccessPublication::backend_lease, the first thing of an open.
LeaseSession ==
  /\ pc = "open"
  /\ \/ activeSeat = Nothing /\ OpenFails("Session") /\ UNCHANGED lease
     \/ activeSeat # Nothing /\ lease' = "current" /\ Advance("resolve")
  /\ UNCHANGED <<activeSeat, deviceVars, keyVars, kbd, workerVars, serviceVars,
                 processVars, left, faultVars>>

\* KeyboardController::prepare up to the devices.
Resolve ==
  /\ pc = "resolve"
  /\ LET found == ResolveKeyboardDevice IN
     \/ lease # "current" /\ OpenFails("Session") /\ UNCHANGED <<path, swapped>>
     \/ /\ lease = "current" /\ activeSeat # "seat0"
        /\ OpenFails("Seat") /\ UNCHANGED <<path, swapped>>
     \/ /\ lease = "current" /\ activeSeat = "seat0" /\ found.path = Nothing
        /\ OpenFails(found.error) /\ UNCHANGED <<path, swapped>>
     \/ /\ lease = "current" /\ activeSeat = "seat0" /\ found.path # Nothing
        /\ path' = found.path /\ swapped' = FALSE
        /\ Advance("uinput")
  /\ UNCHANGED <<sessionVars, node, denied, keyVars, kbd, workerVars,
                 serviceVars, processVars, left, faultVars>>

\* open_uinput_for_session up to the pause after the device is created.
CreateUinput ==
  /\ pc = "uinput"
  /\ \/ lease # "current" /\ OpenFails("Session")
     \/ lease = "current" /\ "uinput" \in denied /\ OpenFails("Denied")
     \/ lease = "current" /\ "uinput" \notin denied /\ Advance("writer")
  /\ UNCHANGED <<sessionVars, deviceVars, keyVars, kbd, workerVars, serviceVars,
                 processVars, left, faultVars>>

\* The lease is asked again, then VirtualKeyboardWriter::new starts the
\* thread and finish_startup waits for it: it may end at once, or not answer
\* in time, which no retry cures.
StartWriter ==
  /\ pc = "writer"
  /\ \/ /\ lease # "current" /\ OpenFails("Session")
        /\ UNCHANGED <<writer, faults>>
     \/ /\ lease = "current" /\ writer' = "alive" /\ Advance("pointer")
        /\ UNCHANGED faults
     \/ /\ lease = "current" /\ faults < MaxFaults
        /\ faults' = faults + 1
        /\ writer' \in {"broken", "late"}
        /\ OpenFails(IF writer' = "broken" THEN "WriterGone" ELSE "StartupTimeout")
  /\ UNCHANGED <<sessionVars, deviceVars, keyVars, kbd, cmds, virt, pointer,
                 target, runner, serviceVars, processVars, left, presses>>

\* A device, a thread or the X server fails the start of a watcher.
StartFails == faults < MaxFaults /\ faults' = faults + 1

\* PointerWatcher::spawn: without a device that opens it is not required.  One of
\* the devices may be another than was verified by then, and the thread may end
\* at once or not answer in time.
StartPointerWatcher ==
  /\ pc = "pointer"
  /\ \/ /\ pointer' = IF PointerDevices = {} THEN "off" ELSE "alive"
        /\ Advance("target") /\ UNCHANGED faults
     \/ /\ PointerDevices # {} /\ StartFails /\ UNCHANGED pointer
        /\ \E e \in {"Identity", "Worker", "StartupTimeout"} : OpenFails(e)
  /\ UNCHANGED <<sessionVars, deviceVars, keyVars, kbd, writer, cmds, virt,
                 target, runner, serviceVars, processVars, left, presses>>

\* InputTargetWatcher::spawn: only an X11 session has one.
StartTargetWatcher ==
  /\ pc = "target"
  /\ \/ /\ target' = IF X11 THEN "alive" ELSE "off"
        /\ Advance("runner") /\ UNCHANGED faults
     \/ X11 /\ StartFails /\ OpenFails("Worker") /\ UNCHANGED target
  /\ UNCHANGED <<sessionVars, deviceVars, keyVars, kbd, writer, cmds, virt,
                 pointer, runner, serviceVars, processVars, left, presses>>

\* SelectedTextJobRunner::new and the first half of activate(): the device is
\* opened, and is the one that was verified.
OpenForHandoff ==
  /\ pc = "runner"
  /\ runner' = TRUE
  /\ LET e == CASE lease # "current" -> "Session"
                [] lease = "current" /\ DependencyError # Nothing -> DependencyError
                [] OTHER -> IF node[path] = "absent" THEN "NoEntry"
                            ELSE IF path \in denied THEN "Denied"
                            ELSE IF swapped THEN "Identity" ELSE Nothing
     IN  \/ e # Nothing /\ OpenFails(e) /\ UNCHANGED <<kbd, unread, left>>
         \/ /\ e = Nothing /\ kbd' = "open" /\ unread' = <<>>
            /\ left' = Windows /\ Advance("drain")
  /\ UNCHANGED <<sessionVars, deviceVars, held, shown, writer, cmds, virt,
                 pointer, target, serviceVars, processVars, faultVars>>

-----------------------------------------------------------------------------
(***************************************************************************)
(* wait_for_quiescent_input: what was typed is read and thrown away, no    *)
(* key may be down, and nothing may come for a whole quiet window.         *)
(***************************************************************************)
HandoffUnchanged ==
  UNCHANGED <<sessionVars, deviceVars, held, shown, workerVars, serviceVars,
              processVars, faultVars>>

Drain ==
  /\ pc = "drain"
  /\ \/ Lost /\ OpenFails("Lost") /\ UNCHANGED <<kbd, unread, left>>
     \/ /\ ~Lost /\ left = 0
        /\ kbd' = "closed" /\ unread' = <<>> /\ OpenFails("Busy")
        /\ UNCHANGED left
     \/ /\ ~Lost /\ left > 0 /\ held # {}
        /\ unread' = <<>> /\ left' = left - 1
        /\ Advance("drain") /\ UNCHANGED kbd
     \/ /\ ~Lost /\ left > 0 /\ held = {}
        /\ unread' = <<>> /\ Advance("quiet") /\ UNCHANGED <<kbd, left>>
  /\ HandoffUnchanged

\* The wait ends at an event, in less than a window, or after the window.
QuietWindow ==
  /\ pc = "quiet"
  /\ \/ Lost /\ OpenFails("Lost") /\ UNCHANGED left
     \/ ~Lost /\ unread # <<>> /\ left' \in {left, left - 1} /\ Advance("drain")
     \/ ~Lost /\ unread = <<>> /\ left' = left - 1 /\ Advance("recheck")
  /\ UNCHANGED <<kbd, unread>> /\ HandoffUnchanged

AfterWindow ==
  /\ pc = "recheck"
  /\ \/ Lost /\ OpenFails("Lost") /\ UNCHANGED unread
     \/ /\ ~Lost /\ (unread # <<>> \/ held # {})
        /\ unread' = <<>> /\ Advance("drain")
     \/ /\ ~Lost /\ unread = <<>> /\ held = {}
        /\ Advance("lastpoll") /\ UNCHANGED unread
  /\ UNCHANGED <<kbd, left>> /\ HandoffUnchanged

LastPoll ==
  /\ pc = "lastpoll"
  /\ \/ Lost /\ OpenFails("Lost")
     \/ ~Lost /\ unread # <<>> /\ Advance("drain")
     \/ ~Lost /\ unread = <<>> /\ Advance("grab")
  /\ left' = IF pc' = "drain" THEN left ELSE 0
  /\ UNCHANGED <<kbd, unread>> /\ HandoffUnchanged

\* The dependencies, the lease, and the grab.
Grab ==
  /\ pc = "grab"
  /\ LET e == CASE DependencyError # Nothing -> DependencyError
                [] DependencyError = Nothing /\ lease # "current" -> "Session"
                [] OTHER -> IF Lost THEN "NoDevice" ELSE Nothing
     IN  \/ e # Nothing /\ OpenFails(e) /\ UNCHANGED kbd
         \/ e = Nothing /\ kbd' = "grabbed" /\ Advance("validate")
  /\ UNCHANGED <<unread, left>> /\ HandoffUnchanged

\* Mutant: the keys are not looked at once the device is grabbed.
ValidateGrabWithoutKeys ==
  CASE Lost -> "NoDevice"
    [] ~Lost /\ lease # "current" -> "Session"
    [] OTHER -> Nothing

\* acquire_grab_then_snapshot after the grab: the lease again, and no key may
\* have gone down on the way; the grab is given up at once.  A device that is
\* gone cannot be released either, and that error is the one returned.
ValidateGrabError ==
  CASE Lost -> "NoDevice"
    [] ~Lost /\ lease # "current" -> "Session"
    [] OTHER -> IF held # {} THEN "Busy" ELSE Nothing

ValidateGrab ==
  /\ pc = "validate"
  /\ LET e == ValidateGrabError
     IN  \/ /\ e # Nothing /\ OpenFails(e)
            /\ kbd' = IF Lost THEN "closed" ELSE "open"
         \/ e = Nothing /\ Advance("install") /\ UNCHANGED kbd
  /\ UNCHANGED <<unread, left>> /\ HandoffUnchanged

\* The readiness of the whole, and the service's slot.
Install ==
  /\ pc = "install"
  /\ \/ /\ DependencyError # Nothing /\ OpenFails("Incomplete")
        /\ UNCHANGED <<slot, state, retry>>
     \/ /\ DependencyError = Nothing
        /\ slot' = TRUE /\ state' = "Ready" /\ retry' = Nothing
        /\ Advance("loop")
  /\ UNCHANGED <<sessionVars, deviceVars, keyVars, kbd, workerVars, unresp,
                 report, processVars, left, faultVars>>

-----------------------------------------------------------------------------
(***************************************************************************)
(* The event loop.                                                         *)
(***************************************************************************)
\* poll_manual_completion_and_ensure_input_backend_healthy: the writer comes
\* first, because its completions are polled before the health is looked at.
HealthError ==
  IF slot /\ writer \in {"broken", "ended"} THEN "WriterGone"
  ELSE IF slot /\ writer = "late" THEN "TimedOut"
  ELSE IF monitors = "stopped" THEN "MonitorStopped"
  ELSE IF slot /\ writer \in {"alive", "hung"} /\ lease # "current" THEN "Session"
  ELSE IF slot /\ WriterAlive /\ lease = "current" /\ ~WatchersReady THEN "Worker"
  ELSE Nothing

\* handle_runtime_input_failure: the backend is stopped before anything else
\* when the failure can be recovered from, the run ends when it cannot.
RuntimeFails(e) ==
  /\ err' = e
  /\ \/ e \in RecoverableAtRuntime /\ pc' = "stop" /\ origin' = "runtime"
     \/ e \notin RecoverableAtRuntime /\ pc' = "stop" /\ origin' = "final"

LoopTop ==
  /\ pc = "loop"
  /\ \/ quit /\ pc' = "stop" /\ origin' = "final" /\ err' = Nothing
     \/ ~quit /\ HealthError # Nothing /\ RuntimeFails(HealthError)
     \/ /\ ~quit /\ HealthError = Nothing
        /\ pc' = IF state # "Ready" /\ retry = "due" THEN "open" ELSE "fetch"
        /\ UNCHANGED <<err, origin>>
  /\ UNCHANGED <<sessionVars, deviceVars, keyVars, kbd, workerVars, serviceVars,
                 processVars, left, faultVars>>

\* fetch_events_timeout, the health again, and the events to the writer.
Fetch ==
  /\ pc = "fetch"
  /\ \/ /\ ~slot /\ pc' = "loop"
        /\ UNCHANGED <<err, origin, unread, cmds>>
     \/ /\ slot /\ Lost /\ RuntimeFails("Lost")
        /\ UNCHANGED <<unread, cmds>>
     \/ /\ slot /\ ~Lost /\ unread' = <<>>
        /\ \/ HealthError # Nothing /\ RuntimeFails(HealthError) /\ UNCHANGED cmds
           \/ /\ HealthError = Nothing /\ cmds' = cmds \o unread
              /\ pc' = "loop" /\ UNCHANGED <<err, origin>>
  /\ UNCHANGED <<sessionVars, deviceVars, held, shown, kbd, writer, virt, pointer,
                 target, runner, serviceVars, processVars, left, faultVars>>

-----------------------------------------------------------------------------
(***************************************************************************)
(* run_keyboard_shutdown_sequence: the writer is asked to stop, the grab   *)
(* is released before anything is waited for, then the writer is waited    *)
(* for, and the watchers are joined only when it has ended.                *)
(***************************************************************************)
StopWriter ==
  /\ pc = "stop"
  /\ runner' = FALSE /\ slot' = FALSE
  /\ pc' = "release"
  /\ UNCHANGED <<sessionVars, deviceVars, keyVars, kbd, writer, cmds, virt,
                 pointer, target, state, retry, unresp, report, processVars,
                 err, origin, left, faultVars>>

\* Mutant: the watchers are joined while the keyboard is still grabbed.
ReleaseGrabAfterJoin ==
  /\ pc = "release"
  /\ target # "hung"
  /\ kbd' = "closed" /\ unread' = <<>>
  /\ pc' = "finish"
  /\ UNCHANGED <<sessionVars, deviceVars, held, shown, workerVars, serviceVars,
                 processVars, err, origin, left, faultVars>>

\* release_grab_best_effort: when it cannot be released it is closed.
ReleaseGrab ==
  /\ pc = "release"
  /\ kbd' = "closed" /\ unread' = <<>>
  /\ pc' = "finish"
  /\ UNCHANGED <<sessionVars, deviceVars, held, shown, workerVars, serviceVars,
                 processVars, err, origin, left, faultVars>>

WriterReport ==
  CASE writer = "ended" -> "session"
    [] writer = "broken" -> "failed"
    [] OTHER -> "clean"

\* The report is kept only by drop_active_input_backend, and only when there
\* was a writer.
FinishWriter ==
  /\ pc = "finish"
  /\ pc' = "join"
  /\ \/ /\ writer \in {"hung", "late"}
        /\ unresp' = TRUE
        /\ UNCHANGED <<writer, cmds, virt, report>>
     \/ /\ writer \notin {"hung", "late"}
        /\ writer' = Nothing /\ cmds' = <<>> /\ virt' = {}
        /\ report' = IF writer = Nothing \/ origin = "open" THEN report ELSE WriterReport
        /\ UNCHANGED unresp
  /\ UNCHANGED <<sessionVars, deviceVars, keyVars, kbd, pointer, target, runner,
                 slot, state, retry, processVars, err, origin, left, faultVars>>

\* A join waits for a watcher that waits for the X server.
JoinWatchers ==
  /\ pc = "join"
  /\ unresp \/ target # "hung"
  /\ pointer' = Nothing /\ target' = Nothing
  /\ pc' = "decide"
  /\ UNCHANGED <<sessionVars, deviceVars, keyVars, kbd, writer, cmds, virt,
                 runner, serviceVars, processVars, err, origin, left, faultVars>>

\* try_reopen, recover_runtime_failure_after_backend_shutdown and
\* finalize_daemon_run: what the stopped backend leads to.
CanGoOn ==
  /\ ~unresp
  /\ CASE origin = "open" -> err \in RecoverableAtOpen
       [] origin = "runtime" -> report # "failed"
       [] OTHER -> FALSE

DecideRetry ==
  /\ pc = "decide"
  /\ \/ /\ CanGoOn /\ pc' = "loop" /\ retry' = "waiting"
        /\ state' = IF origin = "open" THEN state ELSE RecoveryState(err)
        /\ err' = Nothing
     \/ /\ ~CanGoOn /\ pc' = "exit"
        /\ err' = IF unresp THEN "Unresponsive" ELSE err
        /\ UNCHANGED <<state, retry>>
  /\ lease' = Nothing
  /\ UNCHANGED <<activeSeat, deviceVars, keyVars, kbd, workerVars, slot, unresp,
                 report, processVars, origin, left, faultVars>>

\* shutdown_daemon_monitors: joined, or left behind by a process that has to
\* end.
MonitorsStopped == unresp \/ monitors # "hung"

\* The end of the process: the kernel closes what is still open.  Without an
\* error of its own the run takes the report of the last writer for one.
Exit ==
  /\ pc = "exit"
  /\ MonitorsStopped
  /\ process' = IF err = Nothing /\ report \in {Nothing, "clean"} THEN "ok" ELSE "failed"
  /\ pc' = "ended" /\ kbd' = "closed" /\ unread' = <<>>
  /\ writer' = Nothing /\ cmds' = <<>> /\ virt' = {}
  /\ pointer' = Nothing /\ target' = Nothing /\ runner' = FALSE
  /\ monitors' = "stopped"
  /\ UNCHANGED <<sessionVars, deviceVars, held, shown, serviceVars, quit,
                 err, origin, left, faultVars>>

\* Restart=on-failure of the service's unit.
Restart ==
  /\ process = "failed"
  /\ path' = Nothing /\ swapped' = FALSE /\ kbd' = "closed" /\ unread' = <<>>
  /\ writer' = Nothing /\ cmds' = <<>> /\ virt' = {}
  /\ pointer' = Nothing /\ target' = Nothing /\ runner' = FALSE
  /\ slot' = FALSE /\ state' = "Waiting" /\ retry' = "due"
  /\ unresp' = FALSE /\ report' = Nothing
  /\ monitors' = "running" /\ process' = "running" /\ quit' = FALSE
  /\ pc' = "open" /\ err' = Nothing /\ origin' = "open" /\ left' = 0
  /\ lease' = Nothing
  /\ UNCHANGED <<activeSeat, node, denied, held, shown, faultVars>>

-----------------------------------------------------------------------------
(***************************************************************************)
(* The other threads.                                                      *)
(***************************************************************************)
\* The writer forwards an event, or ends when the session is over
\* (authorize_writer_mutation_start); its device goes with its thread.
WriterForwards ==
  /\ writer = "alive" /\ cmds # <<>>
  /\ \/ /\ lease = "current"
        /\ virt' = IF Head(cmds).down THEN virt \cup {Head(cmds).key}
                   ELSE virt \ {Head(cmds).key}
        /\ cmds' = Tail(cmds) /\ UNCHANGED writer
     \/ /\ lease # "current"
        /\ writer' = "ended" /\ cmds' = <<>> /\ virt' = {}
  /\ UNCHANGED <<sessionVars, deviceVars, keyVars, kbd, pointer, target, runner,
                 serviceVars, processVars, mainVars, faultVars>>

\* retain_available_pointer_devices: the watcher ends with its last device.
PointerWatcherEnds ==
  /\ pointer = "alive"
  /\ \A p \in Paths : Kind[p] = "mouse" => node[p] = "absent"
  /\ pointer' = "dead"
  /\ UNCHANGED <<sessionVars, deviceVars, keyVars, kbd, writer, cmds, virt,
                 target, runner, serviceVars, processVars, mainVars, faultVars>>

\* The deadline of the next attempt passes.
RetryDue ==
  /\ retry = "waiting" /\ process = "running"
  /\ retry' = "due"
  /\ UNCHANGED <<sessionVars, deviceVars, keyVars, kbd, workerVars, slot, state,
                 unresp, report, processVars, mainVars, faultVars>>

-----------------------------------------------------------------------------
(***************************************************************************)
(* What happens around the daemon.                                         *)
(***************************************************************************)
Fault(kind) ==
  /\ faults < MaxFaults
  /\ faults' = faults + 1
  /\ UNCHANGED presses

SessionChanges ==
  /\ activeSeat' \in {Nothing, "seat0", "seat1"} \ {activeSeat}
  /\ IF activeSeat' = "seat0" THEN UNCHANGED faultVars ELSE Fault("session")
  /\ lease' = IF lease = "current" THEN "revoked" ELSE lease
  /\ UNCHANGED <<deviceVars, keyVars, kbd, workerVars, serviceVars, processVars,
                 mainVars>>

\* A key of a device that goes away goes up for the desktop as well.
Unplug(p) ==
  /\ node[p] # "absent"
  /\ Fault("device")
  /\ node' = [node EXCEPT ![p] = "absent"]
  /\ IF Kind[p] = "keyboard" THEN held' = {} /\ shown' = {} ELSE UNCHANGED <<held, shown>>
  /\ UNCHANGED <<sessionVars, denied, path, swapped, unread, kbd, workerVars,
                 serviceVars, processVars, mainVars>>

Plug(p) ==
  /\ node[p] = "absent"
  /\ node' = [node EXCEPT ![p] = "settling"]
  /\ swapped' = (swapped \/ p = path)
  /\ UNCHANGED <<sessionVars, denied, path, keyVars, kbd, workerVars, serviceVars,
                 processVars, mainVars, faultVars>>

\* udev is done with a device; logind may not have given it to the user.
Settle(p) ==
  /\ node[p] = "settling"
  /\ node' = [node EXCEPT ![p] = "ready"]
  /\ UNCHANGED <<sessionVars, denied, path, swapped, keyVars, kbd, workerVars,
                 serviceVars, processVars, mainVars, faultVars>>

AccessChanges(p) ==
  /\ \/ p \in denied /\ denied' = denied \ {p} /\ UNCHANGED faultVars
     \/ p \notin denied /\ denied' = denied \cup {p} /\ Fault("access")
  /\ UNCHANGED <<sessionVars, node, path, swapped, keyVars, kbd, workerVars,
                 serviceVars, processVars, mainVars>>

\* The user types: the daemon's descriptor gets the event when it is open, the
\* desktop gets it unless the device is grabbed.
Typed(k, down) ==
  /\ \E p \in Paths : Kind[p] = "keyboard" /\ node[p] # "absent"
  /\ unread' = IF kbd = "closed" \/ Lost THEN unread
               ELSE Append(unread, [key |-> k, down |-> down])
  /\ UNCHANGED <<sessionVars, deviceVars, kbd, workerVars, serviceVars,
                 processVars, mainVars, faults>>

Press(k) ==
  /\ k \notin held /\ presses < MaxPresses
  /\ presses' = presses + 1
  /\ held' = held \cup {k}
  /\ shown' = IF kbd = "grabbed" THEN shown ELSE shown \cup {k}
  /\ Typed(k, TRUE)

Release(k) ==
  /\ k \in held
  /\ held' = held \ {k} /\ shown' = shown \ {k}
  /\ Typed(k, FALSE)
  /\ UNCHANGED presses

\* The writer fails, hangs, or a transaction of a hung one times out.
WriterFails ==
  /\ \/ /\ writer = "alive" /\ writer' = "broken" /\ cmds' = <<>> /\ virt' = {}
        /\ Fault("writer")
     \/ /\ writer = "alive" /\ writer' = "hung" /\ UNCHANGED <<cmds, virt>>
        /\ Fault("writer")
     \/ /\ writer = "hung" /\ writer' = "late" /\ UNCHANGED <<cmds, virt, faultVars>>
  /\ UNCHANGED <<sessionVars, deviceVars, keyVars, kbd, pointer, target, runner,
                 serviceVars, processVars, mainVars>>

TargetWatcherFails ==
  /\ target = "alive" /\ target' \in {"dead", "hung"} /\ Fault("x11")
  /\ UNCHANGED <<sessionVars, deviceVars, keyVars, kbd, writer, cmds, virt,
                 pointer, runner, serviceVars, processVars, mainVars>>

MonitorFails ==
  /\ monitors = "running" /\ monitors' \in {"stopped", "hung"} /\ Fault("monitor")
  /\ UNCHANGED <<sessionVars, deviceVars, keyVars, kbd, workerVars, serviceVars,
                 quit, process, mainVars>>

Quit ==
  /\ process = "running" /\ ~quit
  /\ quit' = TRUE
  /\ UNCHANGED <<sessionVars, deviceVars, keyVars, kbd, workerVars, serviceVars,
                 monitors, process, mainVars, faultVars>>

Main ==
  \/ LeaseSession \/ Resolve \/ CreateUinput \/ StartWriter
  \/ StartPointerWatcher \/ StartTargetWatcher \/ OpenForHandoff
  \/ Drain \/ QuietWindow \/ AfterWindow \/ LastPoll
  \/ Grab \/ ValidateGrab \/ Install
  \/ LoopTop \/ Fetch
  \/ StopWriter \/ ReleaseGrab \/ FinishWriter \/ JoinWatchers \/ DecideRetry \/ Exit

Environment ==
  \/ SessionChanges
  \/ \E p \in Moving : Unplug(p) \/ Plug(p) \/ Settle(p)
  \/ \E p \in Contested : AccessChanges(p)
  \/ \E k \in Keys : Press(k) \/ Release(k)
  \/ WriterFails \/ TargetWatcherFails \/ MonitorFails \/ Quit

BackendNext ==
  \/ Main \/ Restart
  \/ WriterForwards \/ PointerWatcherEnds \/ RetryDue
  \/ Environment

\* The scheduler runs every thread of the daemon, the timer of a retry ends and
\* systemd starts a failed service again.  Nothing is asked of the user, the
\* devices, the session and the X server.
Fairness ==
  /\ WF_backendVars(Main) /\ WF_backendVars(Restart)
  /\ WF_backendVars(WriterForwards) /\ WF_backendVars(PointerWatcherEnds)
  /\ WF_backendVars(RetryDue)

BackendSpec == BackendInit /\ [][BackendNext]_backendVars /\ Fairness

-----------------------------------------------------------------------------
\* A key the desktop saw go down is never held over into a backend: the
\* release would reach the daemon alone and the desktop would keep the key
\* (the quiet window, and the look at the keys after the grab).
NoKeyIsTakenOver == slot => shown = {}

\* A backend that is no use any more: the session is over, the writer or a
\* watcher has ended, the device is gone.
Useless ==
  \/ lease = "revoked" \/ writer \in {"broken", "ended", "late"}
  \/ pointer = "dead" \/ target = "dead" \/ Lost

\* A useless backend gives the keyboard back to the desktop, whatever else
\* hangs, and a process whose writer did not stop ends, which closes its virtual
\* keyboard, even when its monitors hang (detach_for_process_fail_stop).
KeyboardIsGivenBack ==
  /\ (slot /\ Useless) ~> (kbd # "grabbed")
  /\ unresp ~> (process # "running")

\* The session, the devices and the X server are all right and no key is down.
AllRight ==
  /\ activeSeat = "seat0" /\ "uinput" \notin denied
  /\ \E p \in Linked : node[p] = "ready" /\ Seat[p] = "seat0" /\ p \notin denied
  /\ held = {} /\ target # "hung" /\ monitors # "hung"
  /\ writer # "hung" /\ ~quit

\* Once everything is all right again the daemon has the keyboard again, by
\* itself (maybe_retry_input_backend).
BackendComesBack == <>[]AllRight => []<>slot

================================================================================
