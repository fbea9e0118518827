---------------------------- MODULE CorrectionRun ----------------------------
(***************************************************************************)
(* One correction of a word on the writer thread (daemon/keyboard.rs,      *)
(* daemon/layout_switcher.rs): erase it, switch the layout, type it again, *)
(* within a deadline computed from the configured delays (model.rs,        *)
(* daemon/runtime.rs).                                                     *)
(*                                                                         *)
(* The layout is switched in one of three ways: with the user's own key    *)
(* combination, with a request to the X server, or, on Cinnamon, with a    *)
(* request whose effect is verified before anything is erased.  A request  *)
(* takes effect some time after it was sent, and one that failed may have  *)
(* been sent all the same.  The user may switch the layout at any time.    *)
(*                                                                         *)
(* Time is counted in milliseconds: waited are the pauses of the code      *)
(* itself, slow what the calls and the scheduler add.  The keys, and what  *)
(* is left of them after an error, are the subject of SyntheticOperation.  *)
(***************************************************************************)
EXTENDS Naturals

CONSTANTS
    Plans,        \* [strokes, shifted, extra]: the word, its shifted strokes,
                  \* separators to erase
    Delays,       \* [layout, backspace, typing]: delays a file may hold
    Slow,         \* what a slow call may add
    MaxEvents     \* bound: switches of the user, failures, slow calls

ASSUME RunAssumption ==
    /\ \A p \in Plans : p.strokes \in Nat /\ p.shifted \in 0..p.strokes /\ p.extra \in Nat
    /\ \A d \in Delays : d.layout \in Nat /\ d.backspace \in Nat /\ d.typing \in Nat
    /\ Slow \subseteq Nat /\ MaxEvents \in Nat

VARIABLES
    env,        \* session, desktop, number of groups, an X11 connection
    shown,      \* the desktop's current layout, from 0
    inflight,   \* {} or the layout of a switch the desktop has not made yet
    run,        \* the correction in progress
    stop,       \* "cancel" or "abort" requested by another thread
    slow,       \* time added to the pauses so far
    ended,      \* how the correction ended
    moved,      \* history: the user switched the layout during the correction
    switches,   \* history: switches the correction asked for
    typed,      \* history: the layouts its strokes were typed in
    events

runVars == <<env, shown, inflight, run, stop, slow, ended, moved, switches, typed, events>>

-----------------------------------------------------------------------------
(* The schedule.                                                           *)

ModifierSync == 20
KeyTap == 2
ShiftSettle == 1
MaxStrokes == 128
MaxExtra == 1
MaxSchedule == 4000
KeyDelayMax == 10
LayoutDelayMax == 500
BackendGrace == 1000
SwitchTimeout == 350
PollInterval == 5

\* Mutant: the layout delay is counted once.
ScheduleOneDelay(strokes, extra, d, switch) ==
    ModifierSync + (strokes + extra) * (KeyTap + d.backspace)
                 + strokes * (KeyTap + ShiftSettle + d.typing)
                 + (IF switch THEN d.layout ELSE 0)

\* estimated_correction_schedule_ms.  Its checked arithmetic cannot overflow:
\* the delays are 32 bits wide.
Schedule(strokes, extra, d, switch) ==
    ModifierSync + (strokes + extra) * (KeyTap + d.backspace)
                 + strokes * (KeyTap + ShiftSettle + d.typing)
                 + (IF switch THEN 2 * d.layout ELSE 0)

\* AppConfig::validate: the delays a configuration is accepted with.
Accepted(d) ==
    /\ d.layout <= LayoutDelayMax
    /\ d.backspace <= KeyDelayMax /\ d.typing <= KeyDelayMax
    /\ Schedule(MaxStrokes, MaxExtra, d, TRUE) <= MaxSchedule

\* RuntimeConfigSnapshot::estimated_correction_schedule refuses.
Refused(p, d, switch) ==
    \/ p.strokes > MaxStrokes \/ p.extra > MaxExtra
    \/ Schedule(p.strokes, p.extra, d, switch) > MaxSchedule

\* execution_timeout of the two kinds of correction.
Timeout == Schedule(run.plan.strokes, run.plan.extra, run.delays, run.switch) + BackendGrace

-----------------------------------------------------------------------------
(* The strategy and the checks.                                            *)

\* initialize_cinnamon_x11_xtest_runtime: on Cinnamon a writer that cannot
\* reach the guardian does not start.
Cinnamon == env.session = "X11" /\ env.desktop = "Cinnamon"

\* initialize_x11_switcher_for_session: without a connection, the keys.
X11Switcher == env.session = "X11" /\ env.connected

\* run_correction
Strategy(switch) ==
    CASE ~switch -> "none"
      [] switch /\ Cinnamon -> "xkb"
      [] switch /\ ~Cinnamon /\ X11Switcher -> "x11"
      [] OTHER -> "keys"

Idle == [pc |-> "idle"]
Correcting == run.pc # "idle"
Elapsed == run.waited + slow
Expired == Elapsed > Timeout

\* ensure_transaction_active, and authorize_transaction_mutation before a
\* change of the desktop.
Active == stop = "none" /\ ~Expired

At(pc) == run.pc = pc /\ Active

Event == events < MaxEvents /\ events' = events + 1

\* The pauses of the code.
Go(pc, wait) == run' = [run EXCEPT !.pc = pc, !.waited = @ + wait]

End(how) == run' = Idle /\ ended' = how /\ stop' = "none" /\ slow' = 0

Fails == Event /\ End("failed")

-----------------------------------------------------------------------------
(* The correction.                                                         *)

\* The two transactions that correct a word.
Kinds == {"ApplyCorrection", "ApplySameLayoutCorrection"}
Switches(kind) == kind = "ApplyCorrection"

\* apply_correction and apply_same_layout_correction: a plan beyond the
\* limits is refused before the writer sees it.  A behaviour is one correction.
ApplyCorrection ==
    /\ ~Correcting /\ ended = "none"
    /\ \E p \in Plans, d \in {x \in Delays : Accepted(x)}, kind \in Kinds :
         LET switch == Switches(kind) IN
         IF Refused(p, d, switch)
         THEN ended' = "refused" /\ UNCHANGED run
         ELSE /\ run' = [pc |-> IF Strategy(switch) = "xkb" THEN "target" ELSE "sync",
                         plan |-> p, delays |-> d, switch |-> switch,
                         strategy |-> Strategy(switch), from |-> shown,
                         target |-> shown, erase |-> p.strokes + p.extra,
                         type |-> p.strokes, waited |-> 0, started |-> 0]
              /\ UNCHANGED ended
    /\ UNCHANGED <<env, shown, inflight, stop, slow, moved, switches, typed, events>>

\* A check finds the transaction cancelled, aborted or past its deadline.
CheckFails ==
    /\ Correcting /\ ~Active
    /\ End(CASE stop = "cancel" -> "cancelled"
             [] stop = "abort" -> "failed"
             [] OTHER -> "expired")
    /\ UNCHANGED <<env, shown, inflight, moved, switches, typed, events>>

\* temporarily_release_uinput_modifiers ends with a pause; the guardian's
\* release has none.
ReleaseModifiers ==
    /\ At("sync")
    /\ Go("erase", IF run.strategy = "xkb" THEN 0 ELSE ModifierSync)
    /\ UNCHANGED <<env, shown, inflight, stop, slow, ended, moved, switches, typed, events>>

\* replay_synthetic_backspaces
Erase ==
    /\ At("erase") /\ run.erase > 0
    /\ run' = [run EXCEPT !.erase = @ - 1, !.waited = @ + KeyTap + run.delays.backspace]
    /\ UNCHANGED <<env, shown, inflight, stop, slow, ended, moved, switches, typed, events>>

\* The guardian's correction has switched already.
Erased ==
    /\ At("erase") /\ run.erase = 0
    /\ Go(CASE run.strategy = "keys" -> "combo"
            [] run.strategy = "x11" -> "groups"
            [] OTHER -> "type", 0)
    /\ UNCHANGED <<env, shown, inflight, stop, slow, ended, moved, switches, typed, events>>

\* replay_synthetic_layout_combo: the keys stay down for the layout delay; the
\* desktop answers with the next layout.
PressCombo ==
    /\ At("combo")
    /\ inflight' = {(shown + 1) % env.count}
    /\ switches' = switches + 1
    /\ Go("settle", run.delays.layout)
    /\ UNCHANGED <<env, shown, stop, slow, ended, moved, typed, events>>

\* switch_layout_with_fallback: a request that failed before it was permitted
\* to change anything is replaced by the keys.
FallBack == Event /\ Go("combo", 0) /\ UNCHANGED <<stop, slow, ended>>

\* execute_x11_layout_switch: the number of groups, ...
ReadGroups ==
    /\ At("groups")
    /\ \/ FallBack
       \/ Go("current", 0) /\ UNCHANGED <<stop, slow, ended, events>>
    /\ UNCHANGED <<env, shown, inflight, moved, switches, typed>>

\* ... the current one; with a single group there is nothing to switch.
ReadCurrent ==
    /\ At("current")
    /\ \/ FallBack
       \/ /\ run' = [run EXCEPT !.target = (shown + 1) % env.count,
                                !.pc = IF env.count <= 1 THEN "settle" ELSE "latch"]
          /\ UNCHANGED <<stop, slow, ended, events>>
    /\ UNCHANGED <<env, shown, inflight, moved, switches, typed>>

\* ... and, once permitted, the request: when it fails it may have been sent,
\* and the correction ends.
Latch ==
    /\ At("latch")
    /\ switches' = switches + 1
    /\ \/ Fails /\ inflight' \in {inflight, {run.target}}
       \/ inflight' = {run.target} /\ Go("settle", 0)
          /\ UNCHANGED <<stop, slow, ended, events>>
    /\ UNCHANGED <<env, shown, moved, typed>>

\* The layout delay again.  Assumed: a desktop that got a request or the keys
\* has switched when the delay is over, which is what the delay is for.
Settle ==
    /\ At("settle") /\ inflight = {}
    /\ Go("type", run.delays.layout)
    /\ UNCHANGED <<env, shown, inflight, stop, slow, ended, moved, switches, typed, events>>

\* cinnamon_xkb_target_group: exactly two groups.
TargetGroup == IF env.count = 2 /\ shown < 2 THEN {(shown + 1) % 2} ELSE {}

\* target_xkb_group, before anything is changed.
ReadTarget ==
    /\ At("target")
    /\ \/ Fails
       \/ TargetGroup = {} /\ End("failed") /\ UNCHANGED events
       \/ /\ \E g \in TargetGroup :
               run' = [run EXCEPT !.pc = "activate", !.target = g]
          /\ UNCHANGED <<stop, slow, ended, events>>
    /\ UNCHANGED <<env, shown, inflight, moved, switches, typed>>

\* activate_and_verify_group: the request ...
Activate ==
    /\ At("activate")
    /\ switches' = switches + 1
    /\ \/ Fails /\ inflight' \in {inflight, {run.target}}
       \/ /\ inflight' = {run.target}
          /\ run' = [run EXCEPT !.pc = "verify", !.started = Elapsed]
          /\ UNCHANGED <<stop, slow, ended, events>>
    /\ UNCHANGED <<env, shown, moved, typed>>

\* Mutant: the request is taken for its effect.
VerifyNothing ==
    /\ At("verify") /\ Go("sync", 0)
    /\ UNCHANGED <<env, shown, inflight, moved, switches, typed, stop, slow, ended, events>>

\* ... and its effect, polled for a while.
Verify ==
    /\ At("verify")
    /\ \/ Elapsed - run.started < SwitchTimeout /\ Fails
       \/ /\ Elapsed - run.started < SwitchTimeout
          /\ IF shown = run.target THEN Go("sync", 0) ELSE Go("verify", PollInterval)
          /\ UNCHANGED <<stop, slow, ended, events>>
       \/ /\ Elapsed - run.started >= SwitchTimeout
          /\ End("failed") /\ UNCHANGED events
    /\ UNCHANGED <<env, shown, inflight, moved, switches, typed>>

\* replay_synthetic_stroke, a shifted one with a pause for Shift.
TypeStroke ==
    /\ At("type") /\ run.type > 0
    /\ run' = [run EXCEPT !.type = @ - 1,
                 !.waited = @ + KeyTap + run.delays.typing
                            + (IF run.type <= run.plan.shifted THEN ShiftSettle ELSE 0)]
    /\ typed' = typed \cup {shown}
    /\ UNCHANGED <<env, shown, inflight, stop, slow, ended, moved, switches, events>>

\* apply_correction returns; the service invalidates the layout.
FinishRun ==
    /\ At("type") /\ run.type = 0
    /\ End("done")
    /\ UNCHANGED <<env, shown, inflight, moved, switches, typed, events>>

-----------------------------------------------------------------------------
(* The desktop, the user and the other threads.                            *)

DesktopSwitches ==
    /\ shown' \in inflight /\ inflight' = {}
    /\ UNCHANGED <<env, run, stop, slow, ended, moved, switches, typed, events>>

UserSwitches ==
    /\ Correcting /\ Event
    /\ shown' \in 0..(env.count - 1) \ {shown}
    /\ moved' = TRUE
    /\ UNCHANGED <<env, inflight, run, stop, slow, ended, switches, typed>>

SlowCall ==
    /\ Correcting /\ Event
    /\ \E t \in Slow : slow' = slow + t
    /\ UNCHANGED <<env, shown, inflight, run, stop, ended, moved, switches, typed>>

RequestStop ==
    /\ Correcting /\ stop = "none" /\ Event
    /\ stop' \in {"cancel", "abort"}
    /\ UNCHANGED <<env, shown, inflight, run, slow, ended, moved, switches, typed>>

\* A correction with a switch is made in a setup of two layouts; there may be
\* one by the time the X server is asked.
Environments ==
    {e \in [session : {"X11", "Wayland"}, desktop : {"Cinnamon", "Other"},
            count : 1..2, connected : BOOLEAN] :
       e.connected = (e.session = "X11" /\ (e.desktop = "Cinnamon" \/ e.connected))}

RunInit ==
    /\ env \in Environments /\ shown = 0 /\ inflight = {}
    /\ run = Idle /\ stop = "none" /\ slow = 0 /\ ended = "none"
    /\ moved = FALSE /\ switches = 0 /\ typed = {} /\ events = 0

Correct ==
    \/ CheckFails \/ ReleaseModifiers \/ Erase \/ Erased \/ PressCombo
    \/ ReadGroups \/ ReadCurrent \/ Latch \/ Settle
    \/ ReadTarget \/ Activate \/ Verify \/ TypeStroke \/ FinishRun

RunNext ==
    \/ ApplyCorrection
    \/ Correct
    \/ DesktopSwitches \/ UserSwitches \/ SlowCall \/ RequestStop

RunSpec == RunInit /\ [][RunNext]_runVars

-----------------------------------------------------------------------------
(* Properties.                                                             *)

\* The word is typed again in the next layout when one is switched to, and in
\* the layout it was typed in otherwise, unless the user switched meanwhile:
\* whichever way the layout is switched, whatever failed before.  The desktop
\* is asked for at most one switch: an error of the X server is never answered
\* with the keys once the request may have been sent
\* (switch_layout_with_synthetic_operation).
TypedInTheRightLayout ==
    /\ switches <= 1
    /\ (Correcting /\ ~moved) =>
         typed \subseteq {IF run.switch THEN (run.from + 1) % env.count ELSE run.from}

\* The deadline allows for every pause of the longest word under the slowest
\* delays that are accepted: a correction expires only when the calls took
\* more than the grace, and a plan within the limits is never refused.
ScheduleIsEnough ==
    /\ ended = "refused" =>
         \E p \in Plans : p.strokes > MaxStrokes \/ p.extra > MaxExtra
    /\ (Correcting /\ Expired) =>
         slow > BackendGrace - (IF run.strategy = "xkb" THEN SwitchTimeout + PollInterval
                                ELSE 0)

=============================================================================
