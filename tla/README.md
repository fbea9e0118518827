# OpenSwitcher: TLA+ models, model checking and proofs

OpenSwitcher is a keyboard layout switcher for Linux. Its daemon grabs the
physical keyboard (evdev), forwards every key to a virtual keyboard (uinput),
remembers the word being typed, and erases and retypes it in another layout
when it was typed in the wrong one. It stands between the user and every
program of the desktop, so the failures that matter are of a few kinds: a key
that stays down although nobody holds it, a keyboard that answers no more, text
erased or typed that is not what the daemon believes it to be, keys typed into
a session that is no longer the user's, a clipboard or a setting that is lost.
The modules in this directory model the parts of the program that decide these.
Paths are relative to the repository; `service.rs` and the like without a
directory are under `src/daemon/`.

Contents: [the system](#1-the-system), [modules](#2-the-modules),
[runs](#3-the-runs), [bounds](#4-bounds), [fairness](#5-fairness),
[proofs](#6-the-proofs), [disagreements](#7-where-the-code-and-its-documents-disagree),
[not modelled](#8-not-modelled), [plan](#9-plan).

To repeat a check: `tlc -workers 2 -config XtestGuardian.cfg MC_XtestGuardian`;
to repeat a proof: `tlapm LayoutSwitchCaptureProofs.tla`. PROJECT.json lists every
run, the source lines of every definition, a mutation for every property, and
the hazards the properties were written for.

## 1. The system

### Processes and threads, and what they share

| thread or process | keeps | talks to |
|---|---|---|
| input event loop (`service.rs`) | word buffer, suppressed keys, pending commit, manual flow, deferred ledger, the backend | reads evdev events; queues commands and transactions to the writer; reads snapshots; polls completions, health and captures |
| uinput writer (`keyboard.rs`) | the virtual device, the session modifier ledger, one operation with its debts | takes commands from a bounded queue; replies by per-transaction channels; reads cancel flag, deadline, stop flag and lease between writes |
| guardian process and its broker thread (`xtest_guardian/`) | a token for each X11 key it pressed, mirrored in the daemon | request and reply over a socket; on Cinnamon the writer types through it |
| session monitor (`session_activity/`) | the published decision: authorised, generation, time of confirmation, session | logind; everyone else reads its atomics without a lock |
| refresh coordinator (`runtime.rs`) | detection epochs, setup, input snapshot | asks the desktop; publishes snapshots that the event loop adopts |
| D-Bus service (`src/dbus/`) | settings, owner monitor | settings windows and tray call it one at a time; it starts, renews and ends captures |
| selected text worker (`selected_text/`) | one job with its clipboard transaction | clipboard, writer |
| watchers (`keyboard.rs`) | pointer devices, focus of the X server | invalidate the context of the event loop |
| settings window (`src/settings_ui/`) | draft, request state, capture dialog | threads that call the daemon and post the answer to the UI thread |
| tray (`src/tray/`) and watchdog (`runtime.rs`) | whether the other one runs | systemd's user manager |

### Components

The operations, the hard part and what makes each correct.

- **Virtual keyboard writer.** Blocking and polled transactions, soft cancel,
  start, shutdown, join. The caller's deadline races the writer's publication,
  and the writer may hang in the kernel. Correct when caller and writer agree on
  every outcome, nothing is typed after a failure, and every caller returns.
- **Synthetic operation.** Presses, releases, modifiers put aside and back,
  four ways to finish, unwinding. A write that reports an error may have taken effect.
  Correct when no key is left down that nobody holds, success leaves the
  modifiers as they are held, and after a hard failure it only releases.
- **X11 guardian.** The same operations through a second process, either of
  which may be killed at any step. Correct when no key is forgotten by both, and
  the bytes of a request are never taken for another.
- **Session leases.** Publish, take and check a lease, load by load. Correct when a
  lease names the session that was published with it, a revoked one never
  passes again, and one that passes was confirmed recently.
- **Shortcut capture and its dialog.** Start, renew, end, expiry, routing of each
  event; heartbeats and late signals in the window. Correct when a release goes where its
  press went, a dead or hung window does not keep the keyboard, and nobody
  renews the lease of a closed dialog.
- **Input event loop and deferred ledger.** One step per event, completion,
  replay, focus change, failure. Correct when no key is stuck, the remembered
  word is what is before the cursor, replayed keys keep their order and every
  correction ends.
- **Input backend and physical keyboard.** Discovery, quiet handoff and grab,
  watchers, loss, retry, end of the process. Correct when no held key is taken
  over, the keyboard is given back whatever hangs, and comes back by itself.
- **Layout knowledge.** Detection of backend, setup and layout, snapshots by
  epoch and generation. Correct when a decision rests on a layout that was shown
  after the last invalidation, and the snapshot catches up.
- **Correction.** Plan, erase, switch, type within a deadline. Correct when the
  strokes come out in the right layout with the right case, with one switch at
  most, and in time.
- **Selected text.** Copy, convert, paste, restore. Correct when the clipboard
  comes back, other copies survive, the right text is converted, and the worker
  becomes free.
- **Settings.** File, memory, snapshot, D-Bus patches, windows, tray, detected
  shortcut. Correct when concurrent updates merge, what was answered is on
  disk, text is read back as it was written, and no form stays locked.
- **Application pair.** Daemon and tray start, miss and restart each other.
  Correct when both run in the end or none does.

## 2. The modules

| module | what it models | source |
|---|---|---|
| `WriterTransaction` | writer thread, its callers, start and shutdown | `keyboard.rs` |
| `SyntheticOperation` | one operation on the uinput device at a time | `synthetic_input.rs`, `uinput_synthetic.rs`, `keyboard.rs` |
| `XtestGuardian`, `XtestWire` | operations through the guardian; the bytes of its frames | `xtest_guardian/`, `keyboard.rs` |
| `SessionLease` | monitor and lease checks | `session_activity/` |
| `LayoutSwitchCapture`, `CaptureContract` | capture session; what it promises | `capture.rs`, `service.rs` |
| `CaptureDialog` | the window's dialog over the capture session | `settings_ui/`, `dbus/mod.rs` |
| `InputService` | event loop and deferred ledger, over the capture session | `service.rs`, `deferred_input.rs`, `input_snapshot.rs` |
| `InputBackend` | discovery, handoff, lifecycle, end of the process | `keyboard.rs`, `input_backend.rs`, `input_device_identity.rs`, `service.rs`, `mod.rs` |
| `LayoutRuntime` | coordinator, snapshots, detection and policy | `runtime.rs`, `input_snapshot.rs`, `layout_setup_retry.rs`, `layout_backend/` |
| `CorrectionRun` | one correction with its switch and its time | `keyboard.rs`, `layout_switcher.rs`, `model.rs` |
| `WordCorrection` | what is decided about a word and typed instead | `switch_logic.rs`, `keyboard.rs` |
| `SelectedText`, `LayoutConversion` | the job on the clipboard; the conversion | `selected_text/`, `service.rs` |
| `SettingsCommit` | the settings in the daemon and on disk | `runtime.rs`, `config.rs`, `config/atomic.rs`, `dbus/mod.rs`, `model.rs` |
| `SettingsWindow` | windows and tray over it | `settings_ui/` |
| `HotkeyText` | hotkeys as text | `model.rs` |
| `LayoutSwitchDetection` | the shortcut found in the desktop's settings | `layout_switch/mod.rs` |
| `ApplicationPair` | daemon, watchdog, tray, listener, systemd | `runtime.rs`, `tray/`, `system/user_services.rs` |

Composition. `InputService` uses the operators of `LayoutSwitchCapture` by
INSTANCE, so keys are routed by the very definitions that
`LayoutSwitchCaptureProofs` proves about; `CaptureDialog` extends that module, and
`LayoutSwitchCapture` implements `CaptureContract` by a refinement mapping.
`SettingsWindow` extends `SettingsCommit`, which extends `HotkeyText` and
`LayoutSwitchDetection`; `SelectedText` extends `LayoutConversion`. The others
meet at their interfaces: `WriterTransaction` executes a plan of opaque
mutations that `SyntheticOperation` and `XtestGuardian` open up; its session is the
verdict of `SessionLease`; `InputService` takes the outcomes that `WriterTransaction`
shows to be delivered, the authorisations that `LayoutRuntime` issues, and the
empty keyboard after `Recover` that `InputBackend` establishes (NoKeyIsTakenOver).

### How state and actions correspond to the code

**WriterTransaction.** A step is one atomic access: a load, a compare-and-exchange, a channel
operation. `MarkTimedOut` and `FinishMark` are the two writes under the terminal
gate (`keyboard.rs` 609–646), with `gate` held in between so that
other holders wait and lock-free readers do not. `Sync` transactions belong to blocking callers,
which go through `Start`, `SendCheck`, `TrySend` and the polling loop of
`wait_for_reply`; `Manual` ones are begun, polled and softly cancelled by the event loop. The writer's
program counter follows `run_virtual_device_worker`; `MainStep` stops and joins.
A transaction is used once, since request ids are fresh; `MaxSubmitted` bounds
how many are submitted, and the theorems hold for each value of it.

**SyntheticOperation.** `Write` of a key succeeds, or fails with or without effect.
`Press` records its debt before it writes, `TemporarilyRelease` extends the
restore plan before it writes, and the finalizers follow `finish_with_restore`
and `release_all` in their order. `Unwind` is a panic at any step. Between
operations the writer forwards physical keys, and a refused authorisation there
ends the writer, which destroys the device. Assumed: the modifiers frozen at the start are
those whose state was forwarded.

**XtestGuardian.** The writer's operation, the client's `submit` and the broker's
exchange, the guardian's accept, execute and reply, and the emergency release
each have a program counter; the socket is a queue each way. `expired`
is the passing of the deadline, at any moment. The mirror is a set: identifiers are given out in order, and `Tracked` gives its order back. An answer that was sent stays where the writer will find it when the broker stops.
`KillGuardian`, `KillDaemon` and
`Signal` may strike between any two steps, and one X request may fail after it
took effect. `XtestWire` encodes and decodes every kind of message byte by byte, with the
widths of the code and each number by its bytes.

**SessionLease.** Every store of `publish` and every load of `backend_lease`,
`ensure_available` and `ensure_current` is a step, and the properties of the sessions are read
one after the other (`logind.rs` 86–107). logind is external. The session name and its time
are stored in one step, as no reader uses one without checking the generation after it.

**LayoutSwitchCapture.** `cap` is `LayoutSwitchCaptureSession` as a record. Every entry point first
lets the lease expire (`Current`). `before` holds the keys that
were down when the backend was opened; `started` and `heard` are history. `CaptureContract` knows
neither phases nor clocks: a keyboard is lent to a window, taken back, and every release settles
its own press. The mapping takes as the holder the owner of the lease that has not
run out, although the session notices that only at its next call.

**CaptureDialog.** The UI thread and its calls, a heartbeat per capture, the
listener and its reconciliation, loads, and the queue of events to the UI thread;
captures are told apart by `gen`. Another window and the monitor of vanished owners act
at any time (`DaemonStep`). A user acts on what the window shows (`Shown`).

**InputService.** `Press`, `Repeat` and `Release` of a physical key go through `Handled`, which follows
`handle_key_event` in its order: suppressed hotkey, undo and separator (`Proceeds`), capture routing
(`CaptureTakes`), deferral (`Enqueues`), processing (`Process`). `Succeeded`,
`Cancelled` and `Failed` are the outcomes of a manual correction, `DrainOne` replays one event
through the same `Process`, `BarrierOver` and `DrainDone` end a barrier and the replay, `Overflow` is
an event at the hard limit, `Invalidate` a focus change or click, `Fail` and `Recover` the loss of the backend and
the opening of the next. A profile has both hotkeys with their modifiers; they differ, as the validation of the
settings demands, but may share a key. `screen` is history: how many characters of the word
are before the cursor. So are three fields of `count`, which name the cases of section 7 that the properties leave out: `overtaken` (a
capture began during a flow), `early` (an event was kept from the desktop, which is decided before the
deferral, while the ledger held an event of its key) and `missed` (the word changed behind the back of a
correction, or by Backspace or Space under Ctrl, Alt or the logo key). Assumed: one configuration in a behaviour; the decision of
`should_switch`, the freshness of the layout and `settings_hotkey_capture_inhibited` are free choices; `manual_hotkey_latch`,
which the code never arms, is left out; time in a capture's lease is the free choice `CaptureExpire`.

**InputBackend.** The main thread is sequential and `pc` says where it is, from `LeaseSession` through `Resolve`,
writer, watchers and the handoff (`Drain`, `QuietWindow`, `LastPoll`, `Grab`, `ValidateGrab`) to the loop
(`LoopTop`, `Fetch`) and, in the order of the code, `StopWriter`, `ReleaseGrab`, `FinishWriter`, `JoinWatchers`, `DecideRetry`, `Exit`. Devices, access,
session, writer, watchers, monitors and the user move in between. Waiting times are counted in
quiet windows (`Windows`); what systemd does (`Restart`) is external.

**LayoutRuntime.** `Coordinator` is one round of the refresh thread, one action per
question to the desktop and per critical section; `Invalidate`, `Adopt`, `Evaluate` and `FinishPending` are
the input thread. `since` is history: what the desktop showed since the epoch last advanced, and so is a snapshot's
`under`, the context it was confirmed in, which a session taken for X11 and found to be GNOME on Wayland leaves behind. `changed` is history too: whether, since the input
thread took the copy a correction was planned from (`plan`), another layout was published or another setup was in force. A confirmation
expires, and a retry falls due, at any moment.

**CorrectionRun.** Time is counted in milliseconds: `waited` are the code's own
pauses, `slow` what calls and the scheduler add. Three ways to switch: key combination, request to the X
server, and on Cinnamon a request that is verified before anything is erased. Assumed, because the code does: with the first two the desktop
has switched when the configured layout delay is over (`Settle`).

**WordCorrection, LayoutConversion, HotkeyText, LayoutSwitchDetection, XtestWire** are pure: operators
translated from the code's functions, checked over all bounded inputs at the initial states. The
keyboard of `WordCorrection` has eight letters and three other keys, and each table is given by all
its entries over them; in `LayoutConversion` one key stands for each group that the tables treat alike.

**SelectedText.** One action per call of the job; `Observe` is `read_with_stable_owner`, during which an application may copy.
On Wayland the owner is unknown and a write lands later. A text is a sequence of `Characters`. Assumed (`TextsAssumption`): the
sentinels, random in the code, differ, nobody else has one, and no conversion gives one. `write_operation_text` is two steps, as in the code: `WriteOperationText` sets the text, which may fail
after it took effect, and `RecordOwner` asks the X server for the owner in a second request, which may go unanswered and finds whoever has copied since.

**SettingsCommit, SettingsWindow.** `bus` is the queue of calls, of which the daemon executes one
at a time; `gate` is `settings_update_gate` between it and the coordinator's detection. `file` is what is read, `durable` what a
power failure leaves. `edition` is history: which save was promised and which is durable. Each load and each save of a window is a thread.

**ApplicationPair.** Watchdog, start of the tray and listener, step by step with their attempts and the queries that may fail (one at the start
of the tray ends it, one of the listener counts as an absent daemon); systemd restarts what failed and starts the daemon with the tray
(`debian/*.user.service`). The listener leaves its stream of signals only with the connection to the bus, so there is no step by which it notices
that the daemon has gone. `quit` is history: whether Quit found the watchdog asleep and the listener at its stream (`settled`) or one of them past its look at the other side (`busy`).

## 3. The runs

All twelve runs are exhaustive for their bounds. `CHECK_DEADLOCK FALSE` stands where the system
may stop: a process that has ended, a finite budget of events, a clock at its bound.

| run | instance | states | checks |
|---|---|---|---|
| `writer` | one blocking and one polled transaction, queue of one, plan of one, all three faults | 191,728 | OneVerdict, FailStop, CallerReturns, StopReachesWriter |
| `operation` | two modifiers and a letter; corrections of one and of three groups, a shortcut, a separator | 746,924 | KeysAreAccountedFor, SuccessRestores, HardFailureOnlyReleases |
| `lease` | two sessions, one client, time to live 0, time to 1, generations to 4, two changes | 2,329,199 | LeaseIsGenuine, ConfirmedRecently, EndedSessionLosesAccess |
| `input` | five users (below), ledger limits 2 and 4, words to 2 | 285,302 | NoStuckKey, WordIsOnScreen, NothingOvertakesTheLedger, FlowEnds |
| `capture` | one key that is a shortcut, two windows, leases 2 and 3, time to 3, one start, one load or signal | 300,384 | HeartbeatHasDialog, LendsTheKeyboard, CaptureEnds |
| `guardian` | a modifier and a letter, two operations, one loss, one X error, one cancel, two debts | 291,765 | NoOrphanKey, FramesAreExact, LostKeysComeUp |
| `layout` | a pair, a reordered pair with a third layout; X11, GNOME, a session detected late; two events | 813,552 | FreshLayoutWasShown, GenerationNamesLayout, SnapshotCatchesUp |
| `settings` | two windows with two threads each, the tray, three hotkeys, two desktops, three operations | 716,794 | ConfigIsValid, AnsweredIsOnDisk, DetectedComboWorks, LockedFormIsServed, TextIsReadBack, OnlyAskedChanges |
| `backend` | two keyboards, of which the first is refused, and a mouse; a key pressed once, two quiet windows, two faults | 213,860 | NoKeyIsTakenOver, KeyboardIsGivenBack, BackendComesBack |
| `selected` | two jobs, two copies by others, one failed call, X11 and Wayland; words to 4 keys, texts to 3 | 331,692 | ClipboardIsCleanedUp, CopiesAreToldApart, RoundTrip, WordsAreCorrectedAsTyped, RunnerBecomesFree |
| `pair` | three attempts each, as in the code, three faults, two launches, either service broken or none | 11,148 | PairRunsTogether |
| `correction` | words of 2, 128 and 129 strokes; delays from the default to above the limits; calls 645 or 1000 ms late; two events | 2,736,903 | TypedInTheRightLayout, ScheduleIsEnough |

What they show:

- **OneVerdict**: a caller told of a timeout is never contradicted by a published reply, success
  and cancellation come from a Completed transaction, an accepted cancel is never answered with success, and
  whoever sees Completed finds its own reply. **FailStop**: once a caller was told that a transaction failed, no further mutation is
  authorised, whatever is queued or half done. **CallerReturns**: although the writer may hang at any step, blocking
  callers and the shutdown return. **StopReachesWriter**: a writer that runs
  exits after a stop even when the full queue had no room for the command.
- **KeysAreAccountedFor**: between two commands each key down on the device is held physically, and the
  session ledger owns only held modifiers. **SuccessRestores**, **HardFailureOnlyReleases**: as in section 1.
- **NoOrphanKey**: a key XTEST holds down has a token in a running guardian, or is in the
  mirror the daemon will release, or the published proof admits that it is in doubt; while both live the mirror covers every debt of the guardian.
  **LostKeysComeUp**: after a noticed loss of either side such keys come up, or the doubt is admitted.
  **FramesAreExact**: every message is read as it was written and no byte of a damaged frame is ignored.
- **LeaseIsGenuine, ConfirmedRecently, EndedSessionLosesAccess**: as in section 1, every load and store interleaved.
- **LendsTheKeyboard**: the capture session implements `CaptureContract`, and is leased exactly while it is active.
  **CaptureEnds**: it ends though no key is pressed and though its owner renews it again and again, up to the absolute limit. **HeartbeatHasDialog**: a closed dialog has no
  heartbeat of the current generation, and there is never more than one. It is said of behaviours in which the
  settings are not loaded again (`loads = MaxLoads`); section 7 has the other case.
- **NoStuckKey**: at rest each key down on the virtual keyboard is held, and each key whose release the service waits to swallow is held and not down there.
  **WordIsOnScreen**: what a correction would erase is before the cursor (not said once a capture ran, which forwards repeats untracked, nor after `count.missed`).
  **NothingOvertakesTheLedger**: during a flow the desktop gets replayed events only, in their order. **FlowEnds**: each
  manual correction gives the keyboard back. All but WordIsOnScreen leave out behaviours in which a
  capture began during a flow (`count.overtaken`), NoStuckKey also those of `count.early` (section 7).
- **NoKeyIsTakenOver**: a key whose press the desktop saw is never held over into the grab.
  **KeyboardIsGivenBack**: a useless backend releases the grab whatever else hangs, and a process with a stuck writer ends. **BackendComesBack**: once session,
  devices and access are right for good, the daemon has the keyboard again and again.
- **FreshLayoutWasShown**: a layout that a decision may use was shown after the last invalidation, and a
  correction is possible only in a setup of one English and one Russian layout. **GenerationNamesLayout**: between plan and commit no other
  layout was published and no other setup was in force, also not there and back. **SnapshotCatchesUp**: when the desktop is quiet, snapshot and status signal end up right.
- **TypedInTheRightLayout**: at most one switch is asked for, and the word is typed in the layout intended, unless the user
  switched. **ScheduleIsEnough**: a correction runs out of time only when calls took more than the grace,
  up to 128 strokes under the slowest accepted delays, to the millisecond.
- **ClipboardIsCleanedUp**: on X11, where the owner is known, a job ends with the text it found. **CopiesAreToldApart**: what is converted was copied
  during the job, and the rollback does not overwrite somebody else's copy, unless that application had copied between a write of the job and the request for its owner, and copied the same text (section 7). **RoundTrip**: a second switch undoes the first. **WordsAreCorrectedAsTyped**: a
  correction shows what the user would have typed, and a decision depends on the keys alone. **RunnerBecomesFree**: whatever fails, the next job can start.
- **ConfigIsValid**: no merge of valid updates gives both actions one hotkey. **AnsweredIsOnDisk**: what was answered as saved survives a power
  failure, and memory, snapshot and file agree. **OnlyAskedChanges**: an update changes only the fields its user touched, and no detection replaces a choice
  made by hand. **LockedFormIsServed**: a locked form has a thread that will unlock it. **DetectedComboWorks**: a reported shortcut switches the layout of the desktop it was read from. **TextIsReadBack**: every spelling is read as what was written.
- **PairRunsTogether**: in the end daemon and tray both run or neither does, or the tray is left with a listener at its stream (`Deaf`); a daemon never stays without a tray. A Quit that
  finds the watchdog asleep and the listener at its stream ends both for good. Section 7 has both exceptions.

Each property has a mutant in PROJECT.json: a plausible slip in one definition under which TLC finds the property violated.

## 4. Bounds

*Writer.* Transactions interact through the queue, the failure id, the gate and the completion channel. A queue of one is full as soon as
one command waits; a blocking and a polled transaction are what a failure met by a queued command needs.
*Operation.* Two modifiers tell the order of release from that of restoration; the scripts press a modifier that is held, one that is not, and both.
*Guardian.* The script presses a letter while a modifier is held, so tokens of both kinds and the restoration occur; the second operation starts with what the first left.
One loss and one X error together reach every clean-up path. Two debts are the limit MAX_ACTIVE_DEBTS at its edge.
*Leases.* Two sessions show a wrong name, four generations a session that ends and comes back; with a time to live of 0 one tick is an expiry. Leases do not interact.
*Capture.* Two owners for a replacement; a soft lease of 2 is prolonged by a renewal one tick after the start and again one tick later, when only the absolute lease of 3 cuts it, and the clock goes on to 3, where it ends. A behaviour has a load or a signal, not both. The proofs cover all lengths, keys and owners, and any number of captures, loads and signals.
*Input.* The instance has five users: one switches windows on X11 (5 presses or repeats, a focus change) or Wayland (4), one writes words with separators and backspaces under automatic corrections (5, a focus change, a lost backend), one captures a shortcut around a correction (4),
one has automatic corrections and both hotkeys and writes on while a word is corrected (5), one has Pause and Shift+Pause as hotkeys and erases with modifiers (4).
Releases are free. The limits `DEFERRED_INPUT_SOFT_LIMIT`, `DEFERRED_INPUT_HARD_LIMIT` and `MAX_CORRECTION_KEYSTROKES` are shrunk so that all are reached.
The fourth user reaches `early` and `missed`: without these exceptions TLC finds NoStuckKey and WordIsOnScreen violated there. The proofs cover all profiles and limits.
*Layout.* Two events out of changes, invalidations, failed reads and expiries: one for what is read and one that falls between reading and publishing.
*Settings.* Three operations are two overlapping updates and a crash, or a save, a load and a failure.
*Backend.* Two faults are a loss and something that goes wrong during the recovery from it.
*Selected text.* Two jobs for what the first leaves behind; two copies, one before and one during the rollback. The copy timeout is three polls.
*Pair.* Attempts are as many as in the code; three faults exhaust a round of them. A service that is broken fails without using up a fault.
*Correction.* The delays include the slowest accepted ones and the first refused; the slow calls are the grace itself and what the verification leaves of it.

## 5. Fairness

- `WriterTransaction!LiveSpec`: callers, the poll, deadlines, the holder of the gate and an owner that is shutting down go on; the
  writer is **not** fair, it may hang in a write. The polling loops wake by timeout, which justifies the rest. StopReachesWriter states its own hypothesis.
- `SessionLease!FairSpec`: the monitor's thread runs; its waits have timeouts.
- `CaptureDialog!FairDialogSpec`: time passes and the event loop polls expiry each round (`service.rs` 1925). Nothing is asked of windows.
- `InputService!FairSpec`: the outcome of a manual transaction arrives (a writer that hangs is ended by its deadline), the loop drains one event a
  round, a barrier has a timeout, and nobody holds a key for ever. That the user stops typing follows from the bound; in the
  code one who types on fills the ledger to its hard limit, which ends the flow.
- `XtestGuardian!Fairness`: the writer, the broker, the guardian and the emergency release run as long as they live; the owner stops a writer whose health has failed.
- `LayoutRuntime!Fairness`: the coordinator polls for ever, and the input thread finishes the invalidation it began and looks at the watcher's flag and the status each round. Failures are bounded by `MaxEvents`.
- `InputBackend!Fairness`: the main thread, a writer that does not hang, the watchers and the retry timer go on, and systemd restarts a failed service. A join of a hung watcher is disabled, so weak fairness asks nothing of it.
- `SelectedText!FairClipboardSpec`: the worker, the event loop that starts a job, an application that was asked to paste, and writes on their way; nothing is asked of the copy.
- `ApplicationPair`: daemon, watchdog, tray and listener run and systemd restarts what failed. Nothing is asked of the stream of signals: a listener that waits for one may wait for ever. Assumed in two guards: a daemon or a tray
  that has been started asks for its name before the last of the delayed attempts that look for it.

## 6. The proofs

Eight modules hold theorems, each for all values of the constants that satisfy the named assumption of its module, which TLC evaluates in the runs.
An invariant of a run is seldom inductive; each item says what had to be added. Three of the modules hold the proofs of a second part, in a section of its own:
the specifications have different names (`RunSpec`, `BackendSpec`, `ClipboardSpec`) and share no variable.

- **WriterTransactionProofs** (TypeCorrect, CallersAgree, CancelsAreHonoured, NoCompletionIsLost, VerdictsAreOne, WriterFailsStop), for any number of
  transactions, any capacity and plan. OneVerdict is not inductive: a caller may read Completed long before it
  takes the reply, and the writer may have published before it died. The
  invariant adds where each transaction is (`PlaceInv`), what the reply and completion channels hold
  (`CompletionInv`), that the gate is held exactly while one of the two writes is done and
  not the other (`GateInv`), what a place in the writer's loop implies (`WriterInv`, `StartInv`, `OutcomeInv`),
  and what each place in a poll has seen (`PollInv`, `ToldInv`). The idea that carries it is `Doomed`: a stop, a failure id,
  a half-finished marking or an exited writer stays so, and what a reader saw before it loaded a second variable still holds.
- The same module about **SelectedText** (ClipboardIsInOrder, TheUsersTextComesBack, NobodysCopyIsTaken), for any texts, any sentinels as assumed and any number of jobs, copies and faults. The two properties
  speak of the end of a job; `TxInOrder` gives the shape of the transaction at each of its calls (the sentinel pending or confirmed, the selection taken, the replacement pending or confirmed). `SentinelsAreNew`: the sentinel of a later job is nowhere, so that
  what the clipboard has is told from what this job wrote. `OldTextIsTold`: a poll that saw the sentinel, and then something else, saw a text copied since. `CleanIsOurs`: while nobody else used the clipboard, it has what the job wrote
  last, or what it meant to write and could not confirm, which is why the rollback must know the pending write as well. `CopiesAreKept`: a copy that has to survive is in the clipboard until the end, unless it was taken for the selection or is the job's own to all that the rollback can see (`Spared`,
  `CountsAsTheJobs`). `RecordOwnerIsRight` is the step that asks for the owner: while nobody else used the clipboard it finds the job.
- The same about **LayoutConversion** (SecondSwitchUndoesFirst, TextsComeBack), for a text of any length. There is no induction: a segment's direction is the one of some word, the last before it or the first after it (`DirectionIsOfAWord`), and a set of
  positions has a first and a last element because the natural numbers are well-founded (`PositionsHaveEnds`). In a text typed in one layout each word has letters of one alphabet only, so each is converted the same way and back (`CharactersComeBack`).
- The same about **WordCorrection** (EveryWordIsRetyped, EveryDecisionSeesTheWordOnly, WordsAreTypedRight), for a word of any keys and length, where TLC has three keys and four strokes. Case fixes keep a pattern or make it one capital
  (`PatternIsKeptOrFixed`), a replay undoes what Caps Lock does to each letter (`ReplayShows`, `CapitalIsShown`), and `DecisionSeesKeys`: two words that agree on their keys, and on Shift where the key is no Latin letter, have the same core, word and scores. That the
  keyboard has eleven keys and the tables their entries over these remains.
- **SyntheticOperationProofs** (OperationTyped, NoKeyIsStuck, SessionLedgerIsOwned, BooksAreRight, HardFailuresOnlyRelease, SuccessRestoresModifiers), for any
  keys and scripts. `Covered`: in the middle of each write that may have failed, a key that is down is held, owed or in the fallback;
  `HeldInv`, `GroupInv` and `RestoreInv`: a modifier that is held and not down is still planned to be restored; `LedgerInv` ties the session ledger to both;
  `IdleInv` and `ModeInv` say what is empty between operations and in each finalizer.
- The same module about **CorrectionRun** (CorrectedInTheRightLayout, DeadlineCoversThePauses), for any plan, delays and number of events. `RunInOrder` and `SwitchInOrder` say where the one switch is (not asked for, on its way, made, never to come)
  at each place of each of the three ways to switch, and which layout the desktop then has unless the user changed it. `WithinSchedule` is the arithmetic: what was waited and the pauses that are still to come never exceed the
  pauses of the schedule, from which the deadline was computed; so only slow calls can exceed it, and then by more than the grace.
- **SessionLeaseProofs** (PublicationTyped, LeasesAreConsistent, NoLeaseRevives, LeasesAreGenuine, PassedLeasesAreFresh), for any sessions, clients, time to live and bounds. `PubInv`
  relates the stores of a publication that is half done to its history; `TimeInv` orders the times of confirmation; `LeaseInv` and `CheckInv` say, for each
  place of a check, what the loads so far imply. A generation once spent is never current again.
- The same module about **InputBackend** (KeyboardIsTakenQuiet), for any devices, keys, windows and faults. A key the desktop saw go down, and not up, is down (`SeenAreHeld`), so that a look at the
  keys after the grab that finds none of them held shows that the desktop waits for no release (`GrabIsClean`); nothing reaches the desktop from a grabbed keyboard, so this lasts while the service has the backend, and an open does not begin
  before that one is stopped (`SlotIsClean`).
- **XtestGuardianProofs** (GuardianAndMirrorAgree, NoKeyIsForgotten), for any keys, scripts, operations, losses and failed requests. A guardian that dies, a daemon that dies and a deadline interleave with every step of an exchange, and NoOrphanKey relates three
  ledgers: the debts of the guardian, the mirror of the daemon, and the keys of the server. The idea that carries it: one request or answer is on its way at any time, and it belongs to the call that the writer waits for or to none (`OneAtATime`, `InStep`). So what the guardian did for an
  answered request still holds when the answer is acted upon (`AnswersAreTrue`), a request that touches a key is sent only when the mirror has its token (`RequestsAreSound`), every key the server holds is owed by the guardian (`KeysAreOwed`), the mirror
  covers what is owed (`MirrorCovers`), and when the guardian is gone the emergency release has the keys (`EmergencyCovers`).
- **LayoutSwitchCaptureProofs** (CaptureTyped, ReleasesFollowTheirPresses, CapturesAreLeased, SwallowingIsBounded, CaptureKeepsContract, DialogImplementsCapture,
  HeartbeatsHaveDialogs, DialogKeepsContract), for any keys, owners and leases with soft <= absolute.
  DebtIsExact with `KeysInv` is inductive; bounded swallowing needs that the deadlines follow from `started` and `heard` (`DeadlineInv`).
  CaptureKeepsContract is the refinement: with the holder defined as the owner of a lease that has not run out, every step of
  the session is a step of `CaptureContract` or leaves its variables alone. `HolderAfter` says what each entry point does to the holder, `Kept` that the
  keys are shared out as the contract says, and `StepRefines` puts the actions together; the invariant supplies that a press found neither forwarded nor swallowed is new.
  Above it stands the dialog: every step of windows, heartbeats and listener is a step of the session or changes nothing of it (DialogImplementsCapture), so that
  what is proved of the session holds under every dialog. HeartbeatHasDialog needs that no heartbeat belongs to a later generation, and that the events still queued lead
  the view from what it shows to what the dialog is (`ViewFollows`), so that an old one cannot close a new dialog.
- **LayoutRuntimeProofs** (Invariance, TypeCorrectness, FreshLayout, GenerationNames), for any setups, contexts and number of events. What the coordinator has read of the desktop
  belongs to the epoch it woke at: while that is still the epoch, it is in `since` (`ObservationWasShown`), and what it publishes is marked with
  no later epoch than the current one (`EpochsBehind`); `SetupsAreClassified` says that a setup in force has exactly one English and one Russian layout. `GenerationsInOrder` says that the input thread's copy is behind the published snapshot and that one
  generation has one layout, and that, as long as the generation is the one the plan was made under, nothing has been published or put in force since that differs: so a plan that is still authorised has its layout and its setup, and `changed.plan` is false.
- **SettingsWindowProofs** (Invariance, TypeCorrectness, ValidConfig, AnswersAreOnDisk, LockedForms, ReadingBack, DetectedCombos, AskedChanges), for any windows, jobs, hotkeys, desktops and number
  of operations. `CallInOrder` and `GateIsHeld` say who owns the settings at each step of a call or a detection, and that a call still differs from memory in touched fields only; `InStep` what
  memory, snapshot and file then hold; `PromisesAreKept` that the newest edition of the file is durable until the call that promises it has answered; `WaitersAreServed` and `FormsHaveThreads` that
  each waiting caller is on the bus, executed or answered, and each locked form has a thread. Settings travel as text, so the theorems have the hypothesis
  SpellingsAreExact (every spelling of the program is read as what was written), and DetectedCombos also DetectorIsRight (the detector is right about each single desktop). Both are closed statements without
  variables about finitely many texts, and conjuncts of TextIsReadBack and DetectedComboWorks: TLC decides them in the `settings` run, SpellingsAreExact for all hotkeys of the code, DetectorIsRight for the desktops of the instance and every accelerator of one modifier and one
  key. ReadingBack and DetectedCombos therefore establish the other conjuncts, those about the states.
- **InputServiceProofs** (Invariance, TypeCorrectness, NoStuckKeys, WordsAreOnScreen, LedgerOrder), for any profiles, limits, lengths of words and numbers of events.
  NoStuckKey speaks of a service at rest and says nothing of what is on its way. What is invariant is `Balanced`: a key is owed while the desktop has it down or the service waits for its release, and
  the ledger leads from the keys that are owed to those that are down, that is, what is held at some place of it is down in the end or released further on, and what is pressed again was released
  before. Every way in which an event joins the ledger, leaves it at the head or bypasses it keeps this, provided that the key is not in the ledger when it is bypassed, which is where `early` comes from. `DebtInv` adds
  that nothing is owed twice, `HotkeyInv` and `CaptureInv` to whom, and `RepeatInv` that a separator which is held has ended its word, so that its repeats begin no second correction. `WordInv` ties the
  word, the word in the flow's session and the modifiers the service believes in to `screen` and `device`. NothingOvertakesTheLedger follows from the routing alone.

Five proof attempts failed for a reason and changed the models. FreshLayoutWasShown was false of a
session that is first taken for X11 and then found to be GNOME on Wayland: the context now belongs to the snapshot (`under`), and the instance has such a session. NoStuckKey and WordIsOnScreen
were true only because no user of the run had automatic corrections together with the manual hotkey, or a hotkey with modifiers: the model now has hotkeys as the settings have them, two more users, and the exceptions `early` and `missed`, each a behaviour of the code (section 7).
Of the guardian, a broker that stopped used to take an answer with it that had been sent, so that the behaviours in which the writer acts on it after the loss were missing; and a reconciliation removed a token whether or not the mirror had it, which the code makes an error.

Only model-checked: liveness, which this prover does not reach (CallerReturns, StopReachesWriter, EndedSessionLosesAccess, CaptureEnds, FlowEnds,
LostKeysComeUp, SnapshotCatchesUp, KeyboardIsGivenBack, BackendComesBack, RunnerBecomesFree, PairRunsTogether), and what three pure operators compute: FramesAreExact, a fold over the bytes of a message, which would need induction over data,
and SpellingsAreExact and DetectorIsRight, statements about finitely many texts. Every other safety property of the runs is a theorem.

## 7. Where the code and its documents disagree

Met while modelling. Each was reproduced with TLC by stating the promise as a property; the properties of the runs above are worded so that they leave exactly these cases out.

- `service.rs` 2420: `handle_key_event` asks the capture before the manual flow. A capture started during a correction splits a press from
  its release, and a key stays down. The design of deferred input (`docs/superpowers/specs/2026-07-23-deferred-input-conservation-design.md` 64) names as its first priority
  "освободить физическую клавиатуру и не оставить логически зажатые клавиши" (to free the physical keyboard and leave no key logically down).
- `service.rs` 1960: a focus change clears the buffer and leaves `pending_word_commit`. The case correction is carried out where the cursor now is; line 65 of the same
  document: "не продолжать синтетическую коррекцию в окне, которое уже могло измениться" (not to go on with a correction in a window that may have changed).
- `synthetic_input.rs` 866: `finish_with_restore` restores modifiers before `release_all` releases the debts. When a soft cancel is noticed inside the press of a modifier that is also
  held, the older debt releases what was just restored; `2026-07-28-h06-synthetic-input-failsafe-design.md` 625: "Temporary keys отпущены; frozen physical state восстановлен; затем `Cancelled`" (the physical state is restored, then Cancelled).
- `runtime.rs` 4151: `record_confirmed` clears a redetection that `force_due` asked for while the detection being applied was under way. If the number of layouts is the same, the old pair stays trusted;
  `2026-07-30-h07-fail-closed-layout-detection-design.md` 135: "одинаковое число групп не сохраняет доверие к старой паре" (an equal number of groups does not keep the trust in the old pair). SnapshotCatchesUp is about the layout within the setup the daemon has.
- `service.rs` 508: completions are polled before the session is asked, so a writer that ended with the session is met as a disconnection, which ends the process with a failure; systemd restarts it. `2026-07-30-seat-aware-input-access-design.md` 29: the daemon
  "остаётся запущенным" (stays running). BackendComesBack counts the restart as coming back.
- `settings_ui/state.rs` 93: `apply_loaded` sets `layout_switch_capture_active` to false without stopping the heartbeat; the dialog closed afterwards does not stop it either, and it renews until the absolute lease ends. `docs/superpowers/plans/2026-07-16-owner-bound-layout-capture.md` 331: "Stop it on Cancel, Finish, Unsupported, timeout, focus/window close".
- `service.rs` 2325–2418: the release of a key whose press was swallowed (a separator that waits for a correction, a hotkey) is handled before the deferral, ahead of what the ledger holds of the same key. Press F12, type A, Space, release, Space during the
  correction, and release the second Space while the replayed first press waits for its own, still queued release: the second press is replayed afterwards and Space stays down on the virtual keyboard. The design of deferred input, line 218, has new key events
  "кроме уже документированного подавления ручной hotkey и capture routing, добавляются в ledger строго в порядке чтения" (apart from the suppression of the manual hotkey and capture routing, added to the ledger strictly in the order they are read), which exempts
  neither separators nor the hotkey of the selected text. NoStuckKey leaves out these behaviours (`count.early`).
- `service.rs` 2029: the success of a manual correction restores the word it corrected unless `context_invalidated` is set. A word commit that was waiting for its separator, or a selected text job, ends between the request and the success and sets nothing, so that a word which is not before the
  cursor any more becomes the current one; the retry after the drain (2207) does not ask for a pending commit either. Line 65 of the design again. WordIsOnScreen leaves out these behaviours, and Backspace or Space typed under Ctrl, Alt or the logo key, which 2926 tracks like plain ones (`count.missed`).
- `tray/dbus_listener.rs` 135: `for signal in &mut stream` ends with the connection to the bus, not with the daemon. When the daemon leaves while the listener waits for a signal, and neither systemd nor a user brings it back (it ended without
  a failure because its watchdog gave the tray up, or it cannot be started), the tray stays alone, with a switch that does nothing. `README.md` 113: "`daemon + tray` are treated as one application lifecycle". PairRunsTogether excepts just this (`Deaf`).
- `runtime.rs` 4464–4468: the watchdog looks at `should_exit` before a round and not within it; the listener has no such look at all. A round that has begun when the user quits finds the tray gone and starts its service again, which
  starts the daemon, and a listener past its query starts the daemon. So Quit may be undone, against the same line. PairRunsTogether says that Quit is final when it was `settled`.
- `selected_text/clipboard_transaction.rs` 129–141: between `set_text` and `owner_token` another application may copy. It is then recorded as the owner of what the job wrote; if it copied the very same text, or does so later, the rollback takes the copy for
  the job's own and overwrites it. `2026-08-11-clipboard-transaction-safety-design.md` 65–66 grants only "микроокна между последней проверкой clipboard и последующей записью" (the micro-window between the last check and the write that follows). CopiesAreToldApart excepts it (`CountsAsTheJobs`).
- `switch_logic.rs`: with Caps Lock on, a punctuation key that is a letter in Russian counts as a capital, so a case fix of dON'T gives Don"t (`CapsOverPunctuation`). `selected_text/engine.rs`: a Russian word of punctuation keys only has no letter once it is converted, so that it is not converted back (`TypedInOneLayout`).

## 8. Not modelled

- Debug log, texts, icons, construction of widgets, decoding of evdev and X11 records, D-Bus and TOML syntax, argument parsing, packaging and the vendored crate: input and output, presentation or third-party code
  without state another part depends on. This and the tests are most of the lines that no definition is mapped to.
- The whole of the scoring tables: `WordCorrection` has their entries over its alphabet.
- The lease by which an open hotkey dialog inhibits the hotkeys (`runtime.rs` 3837) is a free choice in InputService; configurations do not change during its behaviours.
- Several keyboards at once: the daemon uses one.
- `x11_group_state` (`runtime.rs` 3585–3594) asks for the number of groups and for the current one in two requests, which `GroupState` reads at once. With the two requests as two steps the three properties of the `layout` run hold as well (2,104,302 states); the model
  keeps one for the size of the run.
- The condition on the confidence in `runtime_layout_switch_redetect_would_downgrade` (`runtime.rs` 306) is implied: a setting with the source AutoFallback never has a confidence of High (`layout_switch/mod.rs`), so `Downgrades` does without it.
- Memory order weaker than sequential consistency: the atomics of the lease and of the writer are acquire and release or stronger.

## 9. Plan

1. Done: the modules above, twelve runs, the proofs of every safety property but FramesAreExact, two refinements (capture over its contract, dialog over capture).
2. An abstract specification of a transaction (submitted, then executed, refused or unknown) that `WriterTransaction` implements, and one of the keys a device may hold down that both `SyntheticOperation` and `XtestGuardian` implement.
3. The rest of the tables of `WordCorrection`: a theorem about a decision that does not depend on which entries they have, as EveryDecisionSeesTheWordOnly already is, holds for all of them.
