--------------------------- MODULE LayoutRuntime ---------------------------
(***************************************************************************)
(* What the daemon knows of the keyboard layout (daemon/runtime.rs,        *)
(* input_snapshot.rs, layout_setup_retry.rs, layout_backend/).             *)
(*                                                                         *)
(* The refresh coordinator, a thread, asks the desktop for the configured  *)
(* layouts and the current one and publishes a snapshot.  The input thread *)
(* works from the copy it last adopted and never waits: it invalidates the *)
(* layout by advancing an epoch, and takes a decision only from a snapshot *)
(* confirmed at the current epoch and not too old.  The desktop changes    *)
(* between any two steps.                                                  *)
(*                                                                         *)
(* A source is its code; "odd" stands for a source with a variant, of      *)
(* another type than xkb or with a code that is not a plain one.           *)
(* Time is abstract: a confirmation expires, and a retry falls due, at any *)
(* moment.                                                                 *)
(***************************************************************************)
EXTENDS Naturals, Sequences, FiniteSets, Functions

CONSTANTS
    Setups,       \* setups the user may configure
    Contexts,     \* desktop contexts that may be detected
    MaxEvents,    \* bound: changes of the desktop, invalidations, failed reads,
                  \* expiries
    None

\* AppLayoutKind and LayoutCode.
Kinds == {"English", "Russian", "Other"}
Codes == {"us", "gb", "ru", "de", "odd"}

ASSUME ConstantsAssumption ==
    /\ \A s \in Setups : s # <<>> /\ s \in Seq(Codes)
    /\ MaxEvents \in Nat
    /\ Contexts # {}
    /\ \A c \in Contexts : DOMAIN c = {"session", "desktop", "distro"}

VARIABLES
    \* the desktop
    sources, group, env, rulesChanged,
    \* shared: the epoch and the retry of the setup's detection
    epoch, retry,
    \* RuntimeState: context, setup and the two views of the layout
    context, setup, cached, observation,
    \* the published snapshot, the input thread's copy, the status signal
    published, adopted, pendingStatus, lastStatus,
    \* coordinator and input thread
    c, input, pending,
    \* history: what the desktop showed since the epoch was last advanced;
    \* whether a layout was published, or a setup came into force, in place of
    \* another since the input thread's copy was taken, and since the copy the
    \* plan was made from was; a snapshot's "under" is history too, the context
    \* it was confirmed in
    since, changed,
    events

world == <<sources, group, env, rulesChanged>>
known == <<context, setup, cached, observation>>
plan == <<pending, changed>>
vars == <<world, epoch, retry, known, published, adopted,
          pendingStatus, lastStatus, c, input, plan, since, events>>

Unknown == "Unknown"
Unsupported == <<>>
States == Kinds \cup {Unknown}

-----------------------------------------------------------------------------
(* Detection, as functions.                                                *)

IsX11(ctx) == ctx.session = "X11"
IsGnomeWayland(ctx) == ctx.session = "Wayland" /\ ctx.desktop = "Gnome"
Detectable(ctx) == IsX11(ctx) \/ IsGnomeWayland(ctx)

\* system_layout
KindOf(code) ==
    CASE code \in {"us", "gb"} -> "English"
      [] code = "ru" -> "Russian"
      [] OTHER -> "Other"

Positions(s, kind) == {i \in 1..Len(s) : KindOf(s[i]) = kind}

\* classify_plain_layouts: no code twice, exactly one English and one Russian
\* layout.
Classify(s) ==
    IF /\ IsInjective(s)
       /\ Cardinality(Positions(s, "English")) = 1
       /\ Cardinality(Positions(s, "Russian")) = 1
    THEN s ELSE Unsupported

Plain(s) == \A i \in 1..Len(s) : s[i] # "odd"

\* detect_x11_setup_from_query: the layouts and their variants.
DetectX11(s) == IF Plain(s) THEN Classify(s) ELSE Unsupported

\* detect_gnome_setup_from_sources: the sources and their types.
DetectGnome(s) == IF Plain(s) THEN Classify(s) ELSE Unsupported

\* detect_layout_setup
Detect(ctx, s) ==
    CASE IsX11(ctx) -> DetectX11(s)
      [] IsGnomeWayland(ctx) -> DetectGnome(s)
      [] OTHER -> Unsupported

\* compatibility_from_setup
Compatibility(s) ==
    CASE s = Unsupported -> "Unsupported"
      [] Len(s) = 2 -> "FullStrictPair"
      [] OTHER -> "PairPlusOther"

\* feature_availability_for, with the capabilities of the legacy backend: it
\* reads the layout and switches to the next one, never to a given one.
ManualWordFix(s) == Compatibility(s) = "FullStrictPair"

\* current_layout_from_group
FromGroup(s, g, count) ==
    IF s = Unsupported \/ Len(s) # count \/ g > count THEN Unknown ELSE KindOf(s[g])

\* current_layout_from_gnome_sources: the configured sources and the current
\* one are two reads.
FromSources(s, current) ==
    IF DetectGnome(s) # Unsupported /\ current \in Range(s) THEN KindOf(current)
    ELSE Unknown

\* effective_current_layout_state: on X11 and on GNOME only what was observed
\* counts; the LED of the legacy backend is not trusted there.
Effective(r, o, ctx) ==
    IF ~Detectable(ctx) THEN r ELSE IF o # None THEN o ELSE Unknown

Preserves(now, new) == now = "Unknown" \/ now = new
Fields == {"session", "desktop", "distro"}
KnownScore(ctx) == Cardinality({f \in Fields : ctx[f] # "Unknown"})

\* is_stale_x11_to_gnome_wayland_upgrade
StaleX11(now, new) ==
    /\ now.session = "X11" /\ IsGnomeWayland(new)
    /\ Preserves(now.desktop, new.desktop) /\ Preserves(now.distro, new.distro)

\* is_late_system_context_upgrade
LateUpgrade(now, new) ==
    /\ new # now
    /\ \/ StaleX11(now, new)
       \/ /\ \A f \in Fields : Preserves(now[f], new[f])
          /\ KnownScore(new) > KnownScore(now)

\* The snapshot's status and what it authorises.
Fresh(s) == s.epoch = epoch /\ s.layout # Unknown /\ s.fresh

Authorization(s) == [generation |-> s.generation, epoch |-> epoch]

CurrentLayoutBool(layout) == layout # "Russian"

-----------------------------------------------------------------------------
(* The retry of the setup detection.                                       *)

\* retry is when the next detection is due: never, once it is confirmed;
\* later, after the delay of so many failures; now.
Failed == "later"
PendingAt(r) == IF r = "never" THEN "later" ELSE r

RetryElapses ==
    /\ retry = "later" /\ retry' = "now"
    /\ UNCHANGED <<world, epoch, known, published, adopted,
                   pendingStatus, lastStatus, c, input, plan, since, events>>

-----------------------------------------------------------------------------
(* The coordinator.                                                        *)

IdleCoordinator ==
    [pc |-> "wait", before |-> 0, detected |-> Unsupported, then |-> "observe",
     read |-> Unsupported, observed |-> FALSE, raw |-> Unknown]

Goto(pc) == c' = [c EXCEPT !.pc = pc]

\* The layout published and the setup in force.  That one of them was replaced
\* is remembered until the snapshot is adopted, or the plan is gone.
InForce == <<published.layout, setup>>

Remember ==
    changed' = [copy |-> changed.copy \/ InForce' # InForce,
                plan |-> pending # None /\ (changed.plan \/ InForce' # InForce)]

\* Advancing the epoch starts the history of the desktop anew.
Advance == epoch' = epoch + 1 /\ since' = {<<group, sources[group]>>}

CoordinatorTurn == UNCHANGED <<world, adopted, lastStatus, input, plan>>

\* The first round comes before the grab of the keyboards.
EndRound ==
    /\ c' = IdleCoordinator
    /\ input' = IF input = "starting" THEN "idle" ELSE input

\* Mutant: the epoch is compared with the one last published.
SinceLastPublished == published.epoch = epoch

\* The epoch the round began with is still the current one.
StillCurrent == c.before = epoch

Event == events < MaxEvents /\ events' = events + 1

\* A read of the desktop fails.
ReadFails == Event

\* refresh_system_context_with_detector: a context that was found late is
\* taken over and forces a redetection.
RefreshContext ==
    \/ ReadFails /\ UNCHANGED <<context, retry>>
    \/ ~LateUpgrade(context, env) /\ UNCHANGED <<context, retry, events>>
    \/ /\ LateUpgrade(context, env) /\ context' = env
       /\ retry' = "now" /\ UNCHANGED events

\* run_layout_refresh_loop takes a request, or its period has passed;
\* refresh_and_publish_layout_from reads the epoch, then the context, and
\* whether a detection of the setup is due.  The input thread starts when the
\* first round is done.
Wake ==
    /\ c.pc = "wait"
    /\ RefreshContext
    /\ c' = [c EXCEPT !.pc = IF retry' = "now" THEN "detect" ELSE "observe",
                      !.before = epoch]
    /\ UNCHANGED <<world, adopted, lastStatus, plan, input,
                   epoch, setup, cached, observation, published,
                   pendingStatus, since>>

\* maybe_redetect_layout_setup_at: the query, which the backend keeps as
\* well, ...
DetectSetup ==
    /\ c.pc = "detect"
    /\ \/ /\ Detectable(context) /\ ReadFails
          /\ cached' = Unsupported /\ retry' = Failed /\ Goto("observe")
       \/ /\ UNCHANGED <<events, retry>>
          /\ cached' = Detect(context, sources)
          /\ c' = [c EXCEPT !.pc = "apply", !.detected = cached',
                            !.then = "observe"]
    /\ CoordinatorTurn
    /\ UNCHANGED <<epoch, context, setup, observation,
                   published, pendingStatus, since>>

\* ... and apply_layout_setup_detection: the setup under its lock, the retry
\* under its own ...
RecordRetry(forced) ==
    IF c.detected # Unsupported THEN "never"
    ELSE IF forced THEN Failed ELSE PendingAt(retry)

ApplySetup ==
    /\ c.pc = "apply"
    /\ IF setup # c.detected
       THEN setup' = c.detected /\ Advance
       ELSE UNCHANGED <<setup, epoch, since>>
    /\ retry' = RecordRetry(c.then = "observe")
    /\ c' = [c EXCEPT !.pc = IF setup # c.detected THEN "announce" ELSE c.then,
                      !.detected = Unsupported]
    /\ UNCHANGED <<world, adopted, lastStatus, input, pending, context, cached,
                   observation, published, pendingStatus, events>>
    /\ Remember

\* ... and the snapshot: what was confirmed no longer is.
AnnounceSetup ==
    /\ c.pc = "announce"
    /\ observation' = None
    /\ published' = [published EXCEPT !.manual = ManualWordFix(setup),
                                      !.layout = Unknown, !.fresh = FALSE,
                                      !.generation = @ + 1]
    /\ Goto(c.then)
    /\ UNCHANGED <<world, adopted, lastStatus, input, pending, epoch, retry,
                   context, setup, cached, pendingStatus, since, events>>
    /\ Remember

\* x11_group_state: two requests, the number of groups and the current one, taken
\* here at the moment of the second.  A number of groups from before a change that
\* falls in between differs from the setup's or it does not; where it differs the
\* layout is unknown and a detection is due, as after any such change.
GroupState == [current |-> group, count |-> Len(sources)]

\* x11_current_layout_state
X11LayoutState(g) == FromGroup(setup, g.current, g.count)

\* update_current_layout_observation
UpdateObservation(layout) == observation' = layout

\* update_current_layout_cache
UpdateCache(layout) == c' = [c EXCEPT !.pc = "publish", !.raw = layout]

\* refresh_current_layout_observation_with_readers on X11: the group and the
\* number of groups.
ObserveX11 ==
    /\ c.pc = "observe" /\ IsX11(context)
    /\ \/ /\ ReadFails /\ UNCHANGED <<observation, retry>>
          /\ c' = [c EXCEPT !.pc = "sync", !.observed = FALSE]
       \/ /\ UpdateObservation(X11LayoutState(GroupState))
          /\ retry' = IF setup # Unsupported /\ Len(setup) # GroupState.count
                      THEN "now" ELSE retry
          /\ c' = [c EXCEPT !.pc = "sync", !.observed = TRUE]
          /\ UNCHANGED events
    /\ CoordinatorTurn
    /\ UNCHANGED <<epoch, context, setup, cached, published,
                   pendingStatus, since>>

\* On GNOME: the configured sources are detected and applied first, ...
ObserveSources ==
    /\ c.pc = "observe" /\ IsGnomeWayland(context)
    /\ \/ /\ ReadFails /\ c' = [c EXCEPT !.pc = "sync", !.observed = FALSE]
       \/ /\ c' = [c EXCEPT !.pc = "apply", !.detected = DetectGnome(sources),
                            !.read = sources, !.then = "mru"]
          /\ UNCHANGED events
    /\ CoordinatorTurn
    /\ UNCHANGED <<epoch, retry, known, published, pendingStatus,
                   since>>

\* ... then the most recently used one is read.
ObserveCurrentSource ==
    /\ c.pc = "mru"
    /\ \/ /\ ReadFails /\ UNCHANGED observation
          /\ c' = [c EXCEPT !.pc = "sync", !.observed = FALSE]
       \/ /\ UpdateObservation(FromSources(c.read, sources[group]))
          /\ c' = [c EXCEPT !.pc = "sync", !.observed = TRUE, !.read = Unsupported]
          /\ UNCHANGED events
    /\ CoordinatorTurn
    /\ UNCHANGED <<epoch, retry, context, setup, cached,
                   published, pendingStatus, since>>

\* Elsewhere there is nothing to observe.
ObserveNothing ==
    /\ c.pc = "observe" /\ ~Detectable(context)
    /\ UpdateObservation(None)
    /\ c' = [c EXCEPT !.pc = "sync", !.observed = TRUE]
    /\ CoordinatorTurn
    /\ UNCHANGED <<epoch, retry, context, setup, cached,
                   published, pendingStatus, since, events>>

\* sync_with_backend: the legacy backend shows the keyboard's LED, lit for
\* any group but the first.  The round ends unless the observation was made,
\* and the epoch is read again: an invalidation in between voids the round.
Led ==
    IF cached = Unsupported THEN Unknown
    ELSE IF group = 1 THEN "English" ELSE "Russian"

SyncWithBackend ==
    /\ c.pc = "sync"
    /\ \/ /\ cached # Unsupported /\ ReadFails /\ EndRound
       \/ /\ IF c.observed /\ StillCurrent
             THEN UpdateCache(Led) /\ UNCHANGED input
             ELSE EndRound
          /\ UNCHANGED events
    /\ UNCHANGED <<world, adopted, lastStatus, plan,
                   epoch, retry, context, setup, cached,
                   observation, published, pendingStatus, since>>

\* Mutant: a layout that replaces another keeps the generation.
PublishKeepsGeneration ==
    /\ c.pc = "publish"
    /\ LET layout == Effective(c.raw, observation, context)
           differs == published.layout # layout
       IN /\ published' = [published EXCEPT
                             !.layout = layout, !.manual = ManualWordFix(setup),
                             !.epoch = c.before, !.fresh = TRUE, !.under = context]
          /\ pendingStatus' = (pendingStatus \/ differs)
    /\ EndRound
    /\ UNCHANGED <<world, adopted, lastStatus, pending, epoch,
                   retry, known, since, events>>
    /\ Remember

\* Mutant: what was read is confirmed at the epoch of the publication.
PublishAtCurrentEpoch ==
    /\ c.pc = "publish"
    /\ LET layout == Effective(c.raw, observation, context)
           differs == published.layout # layout
       IN /\ published' = [published EXCEPT
                             !.layout = layout, !.manual = ManualWordFix(setup),
                             !.epoch = epoch, !.fresh = TRUE, !.under = context,
                             !.generation = IF differs THEN @ + 1 ELSE @]
          /\ pendingStatus' = (pendingStatus \/ differs)
    /\ EndRound
    /\ UNCHANGED <<world, adopted, lastStatus, pending, epoch,
                   retry, known, since, events>>
    /\ Remember

\* publish_confirmed_layout
Publish ==
    /\ c.pc = "publish"
    /\ LET layout == Effective(c.raw, observation, context)
           differs == published.layout # layout
       IN /\ published' = [published EXCEPT
                             !.layout = layout, !.manual = ManualWordFix(setup),
                             !.epoch = c.before, !.fresh = TRUE, !.under = context,
                             !.generation = IF differs THEN @ + 1 ELSE @]
          /\ pendingStatus' = (pendingStatus \/ differs)
    /\ EndRound
    /\ UNCHANGED <<world, adopted, lastStatus, pending, epoch,
                   retry, known, since, events>>
    /\ Remember

-----------------------------------------------------------------------------
(* The input thread.  It starts when the first refresh is done.            *)

InputTurn ==
    UNCHANGED <<world, known, c, events>>

\* invalidate_layout_and_request_refresh, for a shortcut the user pressed, a
\* switch the writer made or a finished correction.  The request only brings
\* the coordinator's next round forward.
InvalidateLayout ==
    /\ Advance /\ input' = "idle"
    /\ UNCHANGED <<world, known, c, retry, published, adopted, pendingStatus,
                   lastStatus, plan>>

Invalidate == input = "idle" /\ Event /\ InvalidateLayout
InvalidateForced == input = "forced" /\ InvalidateLayout /\ UNCHANGED events

\* take_layout_setup_invalidation: the watcher saw the X11 rules change.
ForceRedetection ==
    /\ input = "idle" /\ rulesChanged
    /\ rulesChanged' = FALSE
    /\ retry' = "now" /\ input' = "forced"
    /\ UNCHANGED <<sources, group, env, known, c, events,
                   epoch, published, adopted, pendingStatus,
                   lastStatus, plan, since>>

\* adopt_input_snapshot_nonblocking: a contended lock leaves the copy as it is.
AdoptedNext(ok) == IF ok THEN published ELSE adopted
CopyChanged(ok) == ~ok /\ changed.copy

Adopt ==
    /\ input = "idle" /\ adopted' = published
    /\ changed' = [changed EXCEPT !.copy = CopyChanged(TRUE)]
    /\ InputTurn
    /\ UNCHANGED <<epoch, retry, published, pendingStatus,
                   lastStatus, input, pending, since>>

\* word_boundary_action: a correction is planned under an authorisation, or
\* the word goes uncorrected.
Evaluate ==
    /\ input = "idle" /\ pending = None /\ Fresh(adopted)
    /\ pending' = [auth |-> Authorization(adopted), layout |-> adopted.layout]
    /\ changed' = [changed EXCEPT !.plan = changed.copy]
    /\ InputTurn
    /\ UNCHANGED <<epoch, retry, published, adopted, pendingStatus, lastStatus,
                   input, since>>

\* finish_pending_word_commit: the correction is made only when the snapshot
\* just adopted authorises the same.
Commits(ok, s) == ok /\ Fresh(s) /\ Authorization(s) = pending.auth

FinishPending ==
    /\ input = "idle" /\ pending # None
    /\ \E ok \in BOOLEAN :
         /\ adopted' = AdoptedNext(ok)
         /\ changed' = [copy |-> CopyChanged(ok), plan |-> FALSE]
    /\ pending' = None
    /\ InputTurn
    /\ UNCHANGED <<epoch, retry, published, pendingStatus,
                   lastStatus, input, since>>

\* publish_status_changed: put off until the snapshot can be adopted and is
\* fresh.
PublishStatus ==
    /\ input = "idle" /\ pendingStatus
    /\ \E ok \in BOOLEAN :
         /\ adopted' = AdoptedNext(ok)
         /\ changed' = [changed EXCEPT !.copy = CopyChanged(ok)]
         /\ IF ok /\ Fresh(published)
            THEN /\ pendingStatus' = FALSE
                 /\ lastStatus' = CurrentLayoutBool(published.layout)
            ELSE UNCHANGED <<pendingStatus, lastStatus>>
    /\ InputTurn
    /\ UNCHANGED <<epoch, retry, published, input, pending, since>>

-----------------------------------------------------------------------------
(* The desktop and the clock.                                              *)

DesktopTurn ==
    /\ Event
    /\ since' = since \cup {<<group', sources'[group']>>}
    /\ UNCHANGED <<epoch, retry, known, published, adopted,
                   pendingStatus, lastStatus, c, input, plan>>

SwitchLayout ==
    /\ group' \in 1..Len(sources) \ {group}
    /\ UNCHANGED <<sources, env, rulesChanged>> /\ DesktopTurn

\* The user changes the configured layouts; on X11 the root window's property
\* changes too and the watcher sees it.
Reconfigure ==
    /\ sources' \in Setups \ {sources} /\ group' \in 1..Len(sources')
    /\ rulesChanged' = (rulesChanged \/ IsX11(env))
    /\ UNCHANGED env /\ DesktopTurn

SessionSettles ==
    /\ env' \in Contexts /\ LateUpgrade(env, env')
    /\ UNCHANGED <<sources, group, rulesChanged>> /\ DesktopTurn

\* INPUT_LAYOUT_FRESHNESS has passed since the confirmation.
Expire ==
    /\ Event
    /\ adopted.fresh \/ published.fresh
    /\ adopted' = [adopted EXCEPT !.fresh = FALSE]
    /\ published' = [published EXCEPT !.fresh = FALSE]
    /\ UNCHANGED <<world, epoch, retry, known, pendingStatus,
                   lastStatus, c, input, plan, since>>

-----------------------------------------------------------------------------

\* initial_input_snapshot: nothing is confirmed yet.
InitialSnapshot ==
    [layout |-> Unknown, manual |-> ManualWordFix(setup), generation |-> 0,
     epoch |-> 0, fresh |-> FALSE, under |-> context]

\* initialize_layout_backend: the setup is detected, or not.
InitialSetup ==
    /\ setup \in {Unsupported, Detect(context, sources)}
    /\ cached = setup
    /\ retry = IF setup = Unsupported THEN "later" ELSE "never"

\* RuntimeState::new.  The first round comes before the grab.
Init ==
    /\ sources \in Setups /\ group = 1 /\ env \in Contexts
    /\ rulesChanged = FALSE
    /\ context \in {env} \cup {ctx \in Contexts : KnownScore(ctx) = 0}
    /\ InitialSetup
    /\ observation = None /\ published = InitialSnapshot /\ adopted = published
    /\ epoch = 0 /\ since = {<<group, sources[group]>>}
    /\ pendingStatus = FALSE /\ lastStatus = TRUE
    /\ c = IdleCoordinator /\ input = "starting" /\ pending = None
    /\ changed = [copy |-> FALSE, plan |-> FALSE]
    /\ events = IF <<context, setup>> = <<env, Detect(env, sources)>>
                THEN 0 ELSE 1

Coordinator ==
    \/ Wake \/ DetectSetup \/ ApplySetup \/ AnnounceSetup \/ ObserveX11
    \/ ObserveSources \/ ObserveCurrentSource \/ ObserveNothing
    \/ SyncWithBackend \/ Publish

Next ==
    \/ Coordinator \/ RetryElapses
    \/ Invalidate \/ InvalidateForced \/ ForceRedetection \/ Adopt \/ Evaluate
    \/ FinishPending \/ PublishStatus
    \/ SwitchLayout \/ Reconfigure \/ SessionSettles \/ Expire

\* The coordinator polls for ever; the input thread finishes an invalidation
\* it began and looks at the watcher's flag and at the status in every turn
\* of its loop.
Fairness ==
    /\ WF_vars(Coordinator) /\ WF_vars(RetryElapses)
    /\ WF_vars(InvalidateForced)
    /\ WF_vars(ForceRedetection)
    /\ WF_vars(PublishStatus /\ ~pendingStatus')

Spec == Init /\ [][Next]_vars
LiveSpec == Spec /\ Fairness

-----------------------------------------------------------------------------
(* Properties.                                                             *)

Snapshot == [layout : States, manual : BOOLEAN, generation : Nat,
             epoch : Nat, fresh : BOOLEAN, under : Contexts]

TypeOK ==
    /\ sources \in Setups /\ group \in 1..Len(sources)
    /\ env \in Contexts /\ context \in Contexts
    /\ epoch \in Nat
    /\ retry \in {"never", "later", "now"}
    /\ setup \in Setups \cup {Unsupported} /\ cached \in Setups \cup {Unsupported}
    /\ observation \in States \cup {None}
    /\ published \in Snapshot /\ adopted \in Snapshot

\* A layout a decision may be based on is one that the desktop really showed
\* after the last invalidation: a refresh that began before it is never
\* confirmed at the new epoch, whatever it had already read.  X11 shows the
\* number of a group, which the setup names; a session taken for X11 that
\* turns out to be GNOME on Wayland keeps such a snapshot until the next round.
\* And a correction, which switches to the next layout, is possible only where
\* the setup is one English and one Russian layout, also while a changed setup
\* is announced.
FreshLayoutWasShown ==
    \A s \in {published, adopted} :
      Fresh(s) =>
        /\ \E p \in since :
             s.layout = IF IsX11(s.under) THEN FromGroup(setup, p[1], Len(setup))
                        ELSE KindOf(p[2])
        /\ s.manual =>
             Len(setup) = 2 /\ {KindOf(code) : code \in Range(setup)} = {"English", "Russian"}

\* An authorisation names the layout and the setup it was given for: where the
\* snapshot to be adopted lets a correction be committed, it shows the layout of
\* the plan, and since the input thread took the copy the plan was made from no
\* other layout was published and no other setup was in force, also not there
\* and back.
GenerationNamesLayout ==
    (pending # None /\ Commits(TRUE, published)) =>
      published.layout = pending.layout /\ ~changed.plan

Shown ==
    IF IsX11(context) THEN FromGroup(setup, group, Len(sources))
    ELSE IF IsGnomeWayland(context) THEN FromSources(sources, sources[group])
    ELSE Unknown

\* When the desktop settles, the snapshot ends up confirmed at the current
\* epoch with the layout the desktop shows, and the last status signal tells
\* it, whatever was invalidated, failed or expired on the way.
SnapshotCatchesUp ==
    <>[](/\ published.epoch = epoch /\ published.layout = Shown
         /\ Shown # Unknown => lastStatus = CurrentLayoutBool(Shown))

=============================================================================
