----------------------------- MODULE CaptureDialog -----------------------------
(***************************************************************************)
(* The dialog of a settings window that captures a shortcut                *)
(* (src/src/settings_ui/presenter.rs, ui.rs, state.rs, dbus_client.rs) on  *)
(* top of the daemon's capture.  Four threads of the window meet: the UI   *)
(* thread, which calls the daemon and waits; a heartbeat per capture,      *)
(* which renews the lease; the listener of the daemon's signals; and a     *)
(* load of the settings.  They talk to the UI thread through one queue and *)
(* tell captures apart by a generation.  Signals may be lost, late and     *)
(* repeated.  Other windows use the daemon as they like.                   *)
(***************************************************************************)
EXTENDS LayoutSwitchCapture, Sequences

CONSTANTS
    Window,        \* the D-Bus name of this window
    MaxStarts,     \* bound: captures the user starts here
    MaxLoads,      \* bound: loads of the settings
    MaxSignals,    \* bound: signals the listener receives
    MaxEvents      \* bound: loads and signals together

ASSUME DialogAssumption ==
    /\ Window \in Owners
    /\ MaxStarts \in Nat /\ MaxLoads \in Nat /\ MaxSignals \in Nat /\ MaxEvents \in Nat

VARIABLES
    ui,        \* the call the UI thread waits for, or "idle"
    open,      \* the dialog is on the screen
    candidate, \* it shows a combination that may be confirmed
    active,    \* DomainState::layout_switch_capture_active
    view,      \* the same in the view state the UI thread has applied
    timer,     \* the timeout of the dialog is armed
    gen,       \* capture_generation
    beats,     \* the heartbeat threads
    queue,     \* events for the UI thread
    observed,  \* a signal the listener works on, or NoSignal
    starts, loads, signals  \* what is left of the bounds

dialogVars == <<ui, open, candidate, active, view, timer, gen, beats, queue,
                observed, starts, loads, signals>>
allVars == <<vars, dialogVars>>

NoSignal == [gen |-> 0]

DialogInit ==
    /\ Init
    /\ ui = "idle" /\ gen = 1 /\ beats = {} /\ queue = <<>>
    /\ open = FALSE /\ candidate = FALSE /\ active = FALSE /\ view = FALSE /\ timer = FALSE
    /\ observed = NoSignal
    /\ starts = MaxStarts /\ loads = MaxLoads /\ signals = MaxSignals

\* The events of the queue: emit_view_state, send_capture_state_event and the
\* failure of a heartbeat.
ViewEvent(a) == [kind |-> "view", active |-> a]
StateEvent(g, phase) == [kind |-> "state", gen |-> g, phase |-> phase]
FailedEvent(g) == [kind |-> "failed", gen |-> g]

MoreEvents == (MaxLoads - loads) + (MaxSignals - signals) < MaxEvents

-----------------------------------------------------------------------------
\* The UI thread starts a capture.

\* A user reacts to what the window shows: the UI thread has taken its events.
Shown == ui = "idle" /\ queue = <<>>

\* The row of the combination is activated.  start_layout_switch_capture:
\* stop_capture_heartbeat, then the state, then the call.
RowActivated ==
    /\ Shown /\ ~open /\ starts > 0
    /\ starts' = starts - 1
    /\ gen' = gen + 1
    /\ active' = TRUE
    /\ queue' = Append(queue, ViewEvent(TRUE))
    /\ ui' = "start"
    /\ UNCHANGED <<vars, open, candidate, view, timer, beats, observed, loads, signals>>

\* The daemon has answered: a heartbeat of a new generation, the dialog and
\* its timeout; or, when another window has the capture, nothing.
CallStart ==
    /\ ui = "start"
    /\ ui' = "idle"
    /\ StartOwned(Window)
    /\ candidate' = FALSE
    /\ \/ /\ OwnedBy(cap', Window)
          /\ gen' = gen + 2
          /\ beats' = beats \cup {[gen |-> gen + 2, at |-> "sleep"]}
          /\ queue' = queue \o (IF active THEN <<>> ELSE <<ViewEvent(TRUE)>>)
                            \o <<StateEvent(gen + 2, cap'.phase)>>
          /\ active' = TRUE /\ open' = TRUE /\ timer' = TRUE
       \/ /\ ~OwnedBy(cap', Window)
          /\ queue' = Append(queue, ViewEvent(FALSE))
          /\ active' = FALSE /\ open' = FALSE /\ timer' = FALSE
          /\ UNCHANGED <<gen, beats>>
    /\ UNCHANGED <<view, observed, starts, loads, signals>>

-----------------------------------------------------------------------------
\* The UI thread ends a capture.

\* Mutant: the heartbeat of a cancelled capture goes on.
BeginCancelKeepingHeartbeat ==
    /\ ui' = "cancel"
    /\ active' = FALSE
    /\ queue' = IF active THEN Append(queue, ViewEvent(FALSE)) ELSE queue
    /\ UNCHANGED gen

\* SettingsPresenter::cancel_layout_switch_capture up to the call.
BeginCancel ==
    /\ ui' = "cancel"
    /\ gen' = gen + 1
    /\ active' = FALSE
    /\ queue' = IF active THEN Append(queue, ViewEvent(FALSE)) ELSE queue

\* cancel_capture_safely, by the Cancel button, the timeout or the loss of the
\* focus, and the close of the dialog: what counts is the view state.
CloseDialog ==
    /\ Shown /\ open
    /\ timer' = FALSE /\ candidate' = FALSE
    /\ \/ view /\ BeginCancel /\ UNCHANGED open
       \/ ~view /\ open' = FALSE /\ UNCHANGED <<ui, gen, active, queue>>
    /\ UNCHANGED <<vars, view, beats, observed, starts, loads, signals>>

\* The call returns: with the state when the capture was this window's.
CallCancel ==
    /\ ui = "cancel"
    /\ ui' = "idle"
    /\ cap' = IF OwnedBy(Current, Window) THEN End(Current, "Cancelled") ELSE Current
    /\ queue' = IF OwnedBy(Current, Window)
                THEN Append(queue, StateEvent(gen, "Cancelled")) ELSE queue
    /\ open' = FALSE
    /\ UNCHANGED <<now, phys, device, before, started, heard>>
    /\ UNCHANGED <<candidate, active, view, timer, gen, beats, observed, starts, loads, signals>>

\* The OK button: confirm_captured_layout_switch up to the call.
Confirm ==
    /\ Shown /\ open /\ candidate
    /\ ui' = "finish"
    /\ gen' = gen + 1
    /\ timer' = FALSE
    /\ UNCHANGED <<vars, open, candidate, active, view, beats, queue, observed,
                   starts, loads, signals>>

\* finish_owned: the combination is taken only when the capture was still
\* this window's.
CallFinish ==
    /\ ui = "finish"
    /\ ui' = "idle"
    /\ cap' = IF OwnedBy(Current, Window) THEN End(Current, "Finished") ELSE Current
    /\ active' = FALSE /\ candidate' = FALSE /\ open' = FALSE
    /\ queue' = Append(queue, ViewEvent(FALSE))
                  \o (IF OwnedBy(Current, Window)
                      THEN <<StateEvent(gen, "Finished")>> ELSE <<>>)
    /\ UNCHANGED <<now, phys, device, before, started, heard>>
    /\ UNCHANGED <<view, timer, gen, beats, observed, starts, loads, signals>>

-----------------------------------------------------------------------------
\* The heartbeat threads.

\* A thread that wakes up ends when the generation is another one, and renews
\* the lease otherwise: the call fails when the capture is not this window's.
Beat(b) ==
    /\ b.at = "sleep"
    /\ \/ /\ gen # b.gen
          /\ beats' = beats \ {b}
          /\ UNCHANGED vars
       \/ /\ gen = b.gen
          /\ RenewOwned(Window)
          /\ beats' = (beats \ {b}) \cup
               {[gen |-> b.gen, at |-> "called",
                 result |-> IF OwnedBy(cap', Window) THEN "active" ELSE "error"]}
    /\ UNCHANGED <<ui, open, candidate, active, view, timer, gen, queue, observed, starts,
                   loads, signals>>

\* The call returns, and the generation is checked again.
BeatReturns(b) ==
    /\ b.at = "called"
    /\ beats' = (beats \ {b}) \cup
         (IF gen = b.gen /\ b.result = "active" THEN {[gen |-> b.gen, at |-> "sleep"]}
          ELSE {})
    /\ queue' = IF gen = b.gen /\ b.result = "error"
                THEN Append(queue, FailedEvent(b.gen)) ELSE queue
    /\ UNCHANGED <<vars, ui, open, candidate, active, view, timer, gen, observed,
                   starts, loads, signals>>

-----------------------------------------------------------------------------
\* The listener: observe_layout_switch_capture_state.

\* A signal arrives, of whatever phase: it may be from an earlier capture, of
\* this window or of another one.  Idle and Finished are taken like Unsupported.
Observe ==
    /\ observed = NoSignal /\ signals > 0 /\ MoreEvents
    /\ signals' = signals - 1
    /\ \E phase \in Phases \ {"Idle", "Finished"} :
         observed' = [gen |-> gen, local |-> active, phase |-> phase]
    /\ UNCHANGED <<vars, ui, open, candidate, active, view, timer, gen, beats, queue,
                   starts, loads>>

\* During a capture of this window the daemon is asked for the present state;
\* the event is dropped when the generation has changed meanwhile.
Reconcile ==
    /\ observed # NoSignal
    /\ LET phase == IF observed.local THEN cap.phase ELSE observed.phase
       IN  queue' = IF gen = observed.gen THEN Append(queue, StateEvent(gen, phase))
                    ELSE queue
    /\ observed' = NoSignal
    /\ UNCHANGED <<vars, ui, open, candidate, active, view, timer, gen, beats,
                   starts, loads, signals>>

\* A load that ends: apply_loaded resets the capture as well.
LoadEnds ==
    /\ loads > 0 /\ MoreEvents
    /\ loads' = loads - 1
    /\ active' = FALSE
    /\ queue' = Append(queue, ViewEvent(FALSE))
    /\ UNCHANGED <<vars, ui, open, candidate, view, timer, gen, beats, observed,
                   starts, signals>>

-----------------------------------------------------------------------------
\* The UI thread takes an event.

\* stop_capture_heartbeat and set_layout_switch_capture_active(false).
Deactivate ==
    /\ gen' = gen + 1
    /\ active' = FALSE
    /\ queue' = IF active THEN Append(Tail(queue), ViewEvent(FALSE)) ELSE Tail(queue)

\* apply_view_state.
TakeView ==
    /\ Head(queue).kind = "view"
    /\ view' = Head(queue).active
    /\ queue' = Tail(queue)
    /\ UNCHANGED <<open, candidate, active, timer, gen>>

\* An event of another generation.
TakeStale ==
    /\ Head(queue).kind # "view" /\ Head(queue).gen # gen
    /\ queue' = Tail(queue)
    /\ UNCHANGED <<open, candidate, active, view, timer, gen>>

\* apply_capture_state_event and apply_capture_state.
TakeState ==
    /\ Head(queue).kind = "state" /\ Head(queue).gen = gen
    /\ LET phase == Head(queue).phase
           ends == phase \notin {"Waiting", "Candidate"}
       IN  /\ IF ends THEN Deactivate
              ELSE queue' = Tail(queue) /\ UNCHANGED <<gen, active>>
           /\ candidate' = (phase = "Candidate")
           /\ timer' = (timer /\ ~ends)
           /\ open' = (open /\ phase # "Cancelled")
    /\ UNCHANGED view

\* apply_capture_renew_failure and handle_capture_failed.
TakeFailure ==
    /\ Head(queue).kind = "failed" /\ Head(queue).gen = gen
    /\ Deactivate
    /\ candidate' = FALSE /\ timer' = FALSE /\ open' = FALSE
    /\ UNCHANGED view

TakeEvent ==
    /\ ui = "idle" /\ queue # <<>>
    /\ TakeView \/ TakeStale \/ TakeState \/ TakeFailure
    /\ UNCHANGED <<vars, ui, beats, observed, starts, loads, signals>>

\* The window is closed: discard_pending_changes.
CloseWindow ==
    /\ Shown /\ starts > 0
    /\ starts' = starts - 1
    /\ timer' = FALSE /\ candidate' = FALSE
    /\ \/ view /\ BeginCancel
       \/ ~view /\ gen' = gen + 1 /\ active' = FALSE /\ UNCHANGED <<ui, queue>>
    /\ UNCHANGED <<vars, open, view, beats, observed, loads, signals>>

-----------------------------------------------------------------------------
\* The daemon and its other clients.

\* run_capture_owner_monitor: a name nobody owns any more cancels the capture
\* that was made under it.  Should the monitor have ended, the lease runs out
\* instead.
OwnerVanishes(o) ==
    /\ cap' = IF OwnedBy(Current, o) THEN End(Current, "Cancelled") ELSE Current
    /\ UNCHANGED <<now, phys, device, before, started, heard>>

DaemonStep ==
    /\ \/ Tick \/ Expire
       \/ \E P \in SUBSET Keys : BackendReset(P)
       \/ \E o \in Owners \ {Window} : StartOwned(o) \/ RenewOwned(o) \/ EndOwned(o)
                                           \/ OwnerVanishes(o)
       \/ \E k \in Keys : Press(k) \/ Repeat(k) \/ Release(k)
    /\ UNCHANGED <<ui, open, candidate, active, view, timer, gen, beats, queue, observed,
                   starts, loads, signals>>

UiCall == CallStart \/ CallCancel \/ CallFinish

DialogNext ==
    \/ DaemonStep
    \/ RowActivated \/ CloseDialog \/ Confirm \/ CloseWindow
    \/ UiCall \/ TakeEvent
    \/ \E b \in beats : Beat(b) \/ BeatReturns(b)
    \/ Observe \/ Reconcile \/ LoadEnds

DialogSpec == DialogInit /\ [][DialogNext]_allVars

\* The event loop polls and time passes, whatever the windows do.
FairDialogSpec ==
    /\ DialogSpec
    /\ WF_now(Tick)
    /\ WF_cap(Expire)

-----------------------------------------------------------------------------
\* Properties.

\* As long as the settings are not loaded again, whatever order the calls, the
\* signals, the failures and the events are taken in: a dialog that is closed
\* has no heartbeat left that would renew the lease; and there is never more
\* than one such thread (start_capture_heartbeat, stop_capture_heartbeat).
HeartbeatHasDialog ==
    /\ loads = MaxLoads /\ ui = "idle" /\ ~open => \A b \in beats : b.gen # gen
    /\ \A b, c \in beats : b.gen = gen /\ c.gen = gen => b = c
=============================================================================
