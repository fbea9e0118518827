---------------------------- MODULE InputService ----------------------------
(***************************************************************************)
(* The event loop of the daemon (daemon/service.rs, DaemonService): how an *)
(* event of the grabbed keyboard is routed to the virtual one.             *)
(*                                                                         *)
(* While the writer corrects the current word (the manual flow) events are *)
(* queued in the deferred ledger (daemon/deferred_input.rs) and replayed   *)
(* one per round afterwards, behind the barriers of a window switch.  The  *)
(* press of a hotkey, of a separator that commits a correction, or of a    *)
(* shortcut under capture is kept from the desktop, and so is its release. *)
(*                                                                         *)
(* The loop is one thread: each of its steps is an action.  What happens   *)
(* outside it (the user, the writer, focus changes, D-Bus calls that start *)
(* and end captures) is not seen before the step that handles it, so that  *)
(* the event and its handling are one action.  Any step of the loop may    *)
(* follow any other, because a round may find no event and no completion.  *)
(***************************************************************************)
EXTENDS Integers, Sequences, FiniteSets

CONSTANTS
    Keys,                \* keys of the physical keyboard, by name
    None,
    Combo,               \* layout_switch_combo
    SoftLimit, HardLimit,\* DEFERRED_INPUT_SOFT_LIMIT, DEFERRED_INPUT_HARD_LIMIT
    MaxWord,             \* MAX_CORRECTION_KEYSTROKES
    Profiles             \* the users and machines of the instance

\* HotkeySpec
Triggers == {"F9", "F10", "F12", "Pause", "ScrollLock", "Insert", "Menu"}
HotkeySpecs == [key : Triggers, with : SUBSET {"Shift", "Ctrl", "Alt"}]

\* A profile: the session type, manual_correction_hotkey and
\* selected_text_hotkey, what is switched on (features.manual_word_fix and the
\* automatic corrections), the keys the user has, and the bounds on the events
\* of the keyboard, on those of focus, pointer and layout setup, on captures and
\* on lost backends.
Profile == [sessionType : {"X11", "Wayland"}, manual : HotkeySpecs, selected : HotkeySpecs,
            manualWordFix : BOOLEAN, corrections : SUBSET {"layout", "case"},
            keys : SUBSET Keys,
            maxEvents : Nat, maxInvalidations : Nat, maxCaptures : Nat, maxFailures : Nat]

\* validate_hotkey_conflicts: both hotkeys may have the same key.
ASSUME InputAssumption ==
    /\ Profiles \subseteq Profile
    /\ \A p \in Profiles : p.manual # p.selected
    /\ Combo \in {"CtrlShift", "AltShift", "CapsLock", "CtrlSpace", "SuperSpace"}
    /\ SoftLimit \in Nat /\ HardLimit \in Nat /\ SoftLimit < HardLimit
    /\ MaxWord \in Nat
    /\ None \notin Keys

VARIABLES
    profile,     \* which stays what it is
    backend,     \* "ready", "waiting" for a keyboard, or the daemon has "exited"
    phys,        \* keys that are physically down
    repeating,   \* the key the kernel repeats, or None
    device,      \* keys that are down on the virtual keyboard
    mods,        \* modifiers: the modifier keys the service has processed
    word,        \* buffer, word_context and current_word_correction_state
    separator,   \* suppressed_separator_key
    pending,     \* pending_word_commit
    hotkey,      \* suppressed_hotkey_key
    selected,    \* pending_selected_text_switch
    undo,        \* suppressed_undo_keys
    latched,     \* layout_shortcut_latched
    cap,         \* the capture session of the runtime
    flow,        \* phase of manual_current_word_flow
    session,     \* and its DeferredManualCurrentWordSession
    barrier,     \* front marker of deferred_focus_barriers
    ledger,      \* queue of deferred_input
    reported,    \* soft_limit_reported
    screen,      \* history: what is before the cursor of the input target
    count        \* history: what the bounds count, and what went round the ledger

input == <<phys, repeating>>
suppression == <<separator, pending, hotkey, selected, undo, latched>>
manual == <<flow, session, barrier, ledger, reported>>
vars == <<profile, backend, input, device, mods, word, suppression, cap, manual, screen, count>>

\* The functions on a capture session do not use the other state of its module.
Capture == INSTANCE LayoutSwitchCapture
           WITH Owners <- {"settings"}, NoLease <- None, SoftLease <- 1,
                AbsoluteLease <- 1, MaxTime <- 1, now <- 0, before <- {},
                started <- 0, heard <- 0

-----------------------------------------------------------------------------
\* Keys.

Alt == {"LeftAlt", "RightAlt"}
Meta == {"LeftMeta", "RightMeta"}
Ctrl == {"LeftCtrl", "RightCtrl"}
Shift == {"LeftShift", "RightShift"}
Modifiers == Alt \cup Meta \cup Ctrl \cup Shift \cup {"CapsLock"}
Separators == {"Space", "Enter", "Tab"}
Characters == Keys \ (Modifiers \cup Separators \cup Triggers \cup {"Backspace", "Esc"})

ManualKey == profile.manual.key

\* The keys that are down after an event; a repeat changes nothing.
Down(keys, k, v) ==
    CASE v = 1 -> keys \cup {k}
      [] v = 0 -> keys \ {k}
      [] OTHER -> keys

\* is_focus_switch_shortcut, for the modifiers after the event
IsFocusSwitch(m, k, v) ==
    /\ v = 1 /\ k = "Tab" /\ m \cap Ctrl = {}
    /\ (m \cap Alt # {}) # (m \cap Meta # {})

\* plain_character_input
IsPlain(m, k) == k \in Characters /\ m \cap (Ctrl \cup Alt \cup Meta) = {}

-----------------------------------------------------------------------------
\* What the desktop shows before the cursor, as far as a correction relies on
\* it: the length of the word being typed, and of a word that one space follows.
\* A shortcut may do anything to the text, as may a key that is not known.

NoText == [current |-> 0, previous |-> 0]

AfterSeparator(s, k) ==
    [NoText EXCEPT !.previous = IF k = "Space" THEN s.current ELSE 0]

AfterBackspace(s) ==
    IF s.current > 0 THEN [s EXCEPT !.current = @ - 1]
    ELSE [NoText EXCEPT !.current = s.previous]

\* The press or repeat of k reaches the desktop, where the modifiers m are down.
Shown(s, m, k) ==
    LET plain == m \cap (Ctrl \cup Alt \cup Meta) = {}
    IN  CASE k \in Modifiers -> s
          [] plain /\ k \in Characters ->
                [current |-> IF s.current <= MaxWord THEN s.current + 1 ELSE s.current,
                 previous |-> 0]
          [] plain /\ k \in Separators -> AfterSeparator(s, k)
          [] plain /\ k = "Backspace" -> AfterBackspace(s)
          [] OTHER -> NoText

-----------------------------------------------------------------------------
\* The word that is tracked: length of the buffer, length of word_before_cursor
\* while a separator follows it, and the two flags.

NoWord == [length |-> 0, previous |-> 0, corrected |-> FALSE, overflowed |-> FALSE]

TypeCharacter(w) ==
    IF w.overflowed \/ w.length >= MaxWord
    THEN [NoWord EXCEPT !.overflowed = TRUE]
    ELSE [w EXCEPT !.length = @ + 1, !.previous = 0]

EraseCharacter(w) ==
    CASE w.overflowed -> [w EXCEPT !.corrected = FALSE]
      [] ~w.overflowed /\ w.length > 0 -> [w EXCEPT !.corrected = FALSE, !.length = @ - 1]
      [] OTHER -> [w EXCEPT !.corrected = FALSE, !.length = w.previous, !.previous = 0]

\* The word becomes the word before the cursor.
Committed(w, n) == [w EXCEPT !.length = 0, !.previous = n, !.overflowed = FALSE]

\* apply_corrected_word_commit_state
CommitWord(w, k, n) == IF k = "Space" THEN Committed(w, n) ELSE NoWord

\* A case correction erases n characters and types n.
Retyped(s, n) == IF n > s.current THEN [s EXCEPT !.current = n] ELSE s

\* finish_pending_word_commit: a correction that is not authorised any more, or
\* not while the layout is unknown, is left out; the separator is typed anyway.
\* A layout correction retypes the buffer as it is now, a case correction the
\* word it was planned for.
Finished(x) ==
    LET p == x.pending
        Typing(n, s) == [x EXCEPT !.word = CommitWord(@, p.key, n), !.pending = None,
                                  !.screen = AfterSeparator(s, p.key)]
    IN  {Typing(x.word.length, x.screen)}
        \cup (IF p.action = "case" /\ p.authorized
              THEN {Typing(p.length, Retyped(x.screen, p.length))} ELSE {})

\* invalidate_layout_and_request_refresh: a new epoch of the layout withdraws
\* the authorisation of the correction that waits.
Unauthorized(p) == IF p = None THEN None ELSE [p EXCEPT !.authorized = FALSE]

-----------------------------------------------------------------------------
\* The manual flow.

NoSession == [length |-> 0, invalidated |-> FALSE, seen |-> FALSE, retry |-> FALSE,
              observed |-> {}, shortcut |-> None]

Draining == flow = "DrainingDeferredInput"

\* Mutant: the flow is over once the writer is done.
WriterActive == flow \in {"InFlight", "CancelRequested"}

\* has_active_manual_current_word_flow
FlowActive == flow # "Idle"

\* promote_in_flight_to_cancel_requested, invalidate_manual_flow_context
CancelFlow(f) == IF f = "InFlight" THEN "CancelRequested" ELSE f

Invalidated(f, s) == IF f = "Idle" THEN s ELSE [s EXCEPT !.invalidated = TRUE]

ShortcutKeys(kind) == IF kind = "Alt" THEN Alt ELSE Meta

\* observe_physical_event: the shortcut that is being pressed after an event.
ShortcutNow(s, m, k, v) ==
    IF profile.sessionType = "X11" /\ IsFocusSwitch(m, k, v)
    THEN IF m \cap Alt # {} THEN "Alt" ELSE "Meta"
    ELSE s.shortcut

ShortcutEnds(s, m, k, v) ==
    LET now == ShortcutNow(s, m, k, v)
    IN  now # None /\ ShortcutKeys(now) \cap m = {}

-----------------------------------------------------------------------------
Init ==
    /\ profile \in Profiles
    /\ backend = "ready"
    /\ phys = {} /\ repeating = None /\ device = {} /\ mods = {}
    /\ word = NoWord /\ screen = NoText
    /\ separator = None /\ pending = None
    /\ hotkey = None /\ selected = FALSE /\ undo = {} /\ latched = FALSE
    /\ cap = Capture!Idle
    /\ flow = "Idle" /\ session = NoSession /\ barrier = "none"
    /\ ledger = <<>> /\ reported = FALSE
    /\ count = [events |-> 0, invalidations |-> 0, captures |-> 0, failures |-> 0,
                overtaken |-> FALSE, early |-> FALSE, missed |-> FALSE]

-----------------------------------------------------------------------------
\* handle_key_event.  Each step has the condition under which the event gets
\* that far.  The ledger is left to the physical event or the replay.

\* What the handler's parts hand on to each other.
Current == [word |-> word, screen |-> screen, separator |-> separator,
            pending |-> pending, latched |-> latched, session |-> session]

Becomes(x) ==
    /\ word' = x.word /\ screen' = x.screen
    /\ separator' = x.separator /\ pending' = x.pending
    /\ latched' = x.latched /\ session' = x.session

Swallow(x) == Becomes(x) /\ UNCHANGED device

\* forward_event_for_origin
Forward(x, k, v) ==
    /\ device' = Down(device, k, v)
    /\ Becomes(IF v = 0 THEN x
               ELSE [x EXCEPT !.screen = Shown(@, device' \cap Modifiers, k)])

\* apply_selected_text_switch: the job is started, or the feature is off or a
\* job runs already.
SelectedTextSwitched(x) == {x, [x EXCEPT !.word = NoWord, !.screen = NoText]}

HotkeySwallows(k, v) == hotkey = k /\ (v # 1 \/ selected)

SuppressedHotkey(k, v) ==
    /\ HotkeySwallows(k, v)
    /\ hotkey' = IF v = 2 THEN hotkey ELSE None
    /\ selected' = (selected /\ v = 2)
    /\ \E x \in IF selected /\ v # 2 THEN SelectedTextSwitched(Current) ELSE {Current} :
          Swallow(x)
    /\ UNCHANGED <<mods, undo, cap, flow>>

UndoSwallows(k, v) == k \in undo /\ v # 1

SuppressedUndo(k, v) ==
    /\ ~HotkeySwallows(k, v) /\ UndoSwallows(k, v)
    /\ undo' = Down(undo, k, v)
    /\ Swallow(Current)
    /\ UNCHANGED <<mods, hotkey, selected, cap, flow>>

\* Mutant: the release of any separator settles the debt.
AnySeparatorSwallows(k, v) == separator # None /\ k \in Separators /\ v = 0

SeparatorSwallows(k, v) == separator = k /\ v = 0

\* take_suppressed_separator_release_state: the correction waits for this key.
PendingToFinish(k) == pending # None /\ pending.key = k

\* The correction that waits for this release is carried out.
SuppressedSeparator(k, v) ==
    /\ ~HotkeySwallows(k, v) /\ ~UndoSwallows(k, v) /\ SeparatorSwallows(k, v)
    /\ LET x == [Current EXCEPT !.separator = None]
       IN  IF PendingToFinish(k)
           THEN \E y \in Finished(x) : Swallow(y)
           ELSE Swallow(x)
    /\ UNCHANGED <<mods, hotkey, selected, undo, cap, flow>>

Suppressed(k, v) ==
    SuppressedHotkey(k, v) \/ SuppressedUndo(k, v) \/ SuppressedSeparator(k, v)

Suppresses(k, v) == HotkeySwallows(k, v) \/ UndoSwallows(k, v) \/ SeparatorSwallows(k, v)

Proceeds(k, v) == ~Suppresses(k, v)

\* A press that proceeds clears what a lost release has left behind.
HotkeyLeft(k) == IF hotkey = k THEN None ELSE hotkey
UndoLeft(k) == undo \ {k}

ModsAfter(k, v) == Down(mods, k, v) \cap Modifiers

CaptureTakes(k, v) == Capture!Route(cap, k, v).to # "PassThrough"

\* route_layout_switch_capture_event: a capture that ends invalidates the word.
RouteCapture(k, v) ==
    /\ Proceeds(k, v) /\ CaptureTakes(k, v)
    /\ LET r == Capture!Route(cap, k, v)
           ends == Capture!IsActive(cap) /\ ~Capture!IsActive(r.session)
           x == [Current EXCEPT !.word = IF ends THEN NoWord ELSE @]
       IN  /\ cap' = r.session
           /\ IF r.to = "ForwardDirect"
              THEN Forward(x, k, v) /\ mods' = ModsAfter(k, v)
              ELSE Swallow(x) /\ UNCHANGED mods
    /\ hotkey' = HotkeyLeft(k) /\ undo' = UndoLeft(k)
    /\ UNCHANGED <<selected, flow>>

\* request_manual_current_word_retry_after_drain, once something was typed.
RequestRetry(s) == [s EXCEPT !.retry = @ \/ s.seen]

\* manual_current_word_physical_event_action for the hotkey during the flow.
HotkeyDuringFlow(k, v) ==
    /\ Proceeds(k, v) /\ ~CaptureTakes(k, v)
    /\ FlowActive /\ k = ManualKey
    /\ undo' = IF v = 1 THEN undo \cup {k} ELSE undo
    /\ Swallow([Current EXCEPT !.session = IF v = 1 THEN RequestRetry(@) ELSE @])
    /\ hotkey' = HotkeyLeft(k)
    /\ UNCHANGED <<mods, selected, cap, flow>>

Enqueues(k, v) ==
    Proceeds(k, v) /\ ~CaptureTakes(k, v) /\ FlowActive /\ k # ManualKey

\* observe_deferred_physical_focus_invalidation: what the session has seen of
\* the keyboard, though none of it was processed yet.
Observing(s, k, v) ==
    LET m == Down(s.observed, k, v) \cap Modifiers
    IN  [s EXCEPT !.seen = @ \/ (v = 1 /\ k \notin Modifiers),
                  !.observed = m,
                  !.shortcut = IF ShortcutEnds(s, m, k, v) THEN None
                               ELSE ShortcutNow(s, m, k, v)]

\* should_invalidate_for_wayland_focus_switch_shortcut
LeavesWindow(m, k, v) == profile.sessionType = "Wayland" /\ IsFocusSwitch(m, k, v)

\* enqueue_deferred_physical_input_event: a window switch invalidates the
\* context on Wayland, and so does a ledger that grows past the soft limit.
\* On X11 the end of the switch is a fence in the ledger.
Enqueue(k, v) ==
    /\ Enqueues(k, v) /\ Len(ledger) < HardLimit
    /\ LET m == Down(session.observed, k, v) \cap Modifiers
           ends == ShortcutEnds(session, m, k, v)
           full == ~reported /\ Len(ledger) + 1 > SoftLimit
           cancels == LeavesWindow(m, k, v) \/ (full /\ flow = "InFlight")
           seen == Observing(session, k, v)
       IN  /\ ledger' = Append(ledger, [key |-> k, value |-> v, fence |-> ends])
           /\ reported' = (reported \/ full)
           /\ flow' = IF cancels THEN CancelFlow(flow) ELSE flow
           /\ Swallow([Current EXCEPT !.word = IF cancels THEN NoWord ELSE @,
                                      !.session = IF cancels THEN Invalidated(flow, seen) ELSE seen])
    /\ hotkey' = HotkeyLeft(k) /\ undo' = UndoLeft(k)
    /\ UNCHANGED <<mods, selected, cap, barrier>>

-----------------------------------------------------------------------------
\* The event is processed: the rest of handle_key_event.

\* selected_text_hotkey_matches, manual_correction_hotkey_matches
HotkeyMatches(h, m, k, v) ==
    /\ v = 1 /\ k = h.key
    /\ ("Shift" \in h.with) = (m \cap Shift # {})
    /\ ("Ctrl" \in h.with) = (m \cap Ctrl # {})
    /\ ("Alt" \in h.with) = (m \cap Alt # {})

\* matches_layout_switch_combo, keeps_layout_switch_combo_active
ComboGroups ==
    CASE Combo = "CtrlShift" -> {Ctrl, Shift}
      [] Combo = "AltShift" -> {Alt, Shift}
      [] Combo = "CtrlSpace" -> {Ctrl}
      [] Combo = "SuperSpace" -> {Meta}
      [] Combo = "CapsLock" -> {{}}

ComboHolds(m) == \A g \in ComboGroups : g \cap m # {}

ComboMatches(m, k, v) ==
    /\ v = 1
    /\ CASE Combo = "CapsLock" -> k = "CapsLock"
         [] Combo \in {"CtrlSpace", "SuperSpace"} -> k = "Space" /\ ComboHolds(m)
         [] OTHER -> k \in UNION ComboGroups /\ ComboHolds(m)

\* prepare_manual_correction: there is a plan for the buffer when the feature
\* is on, the layout is known and the buffer is not empty.
Prepared(w) == profile.manualWordFix /\ w.length > 0

\* begin_deferred_manual_current_word_correction: started, or not allowed,
\* rejected before a mutation, or without a current word.  (The word before the
\* cursor is then corrected in place, which leaves its length as it is.)
Begun(w, m) ==
    LET started == [flow |-> "InFlight",
                    session |-> [NoSession EXCEPT !.length = w.length, !.observed = m]]
    IN  {[flow |-> "Idle", session |-> NoSession]}
        \cup (IF Prepared(w) THEN {started} ELSE {})

\* The word once its separator is typed: after a space it is the word before
\* the cursor, also when it was corrected by hand.
BoundaryWord(w, k) ==
    IF k = "Space" /\ ~w.overflowed
    THEN [Committed(w, w.length) EXCEPT !.corrected = FALSE]
    ELSE NoWord

\* word_boundary_action and the decisions after it: whether the layout is
\* known, and what the word is, decide which of these there is, if any.
BoundaryActions(w, k) ==
    IF w.length = 0 \/ w.corrected THEN {}
    ELSE IF k = "Space" THEN profile.corrections ELSE profile.corrections \ {"layout"}

\* A correction waits for the release of the separator, which is swallowed.
AwaitRelease(x, k, a) ==
    [x EXCEPT !.separator = k,
              !.pending = [key |-> k, action |-> a, length |-> x.word.length,
                           authorized |-> TRUE]]

\* KEY_SPACE, KEY_ENTER and KEY_TAB.
Boundary(x, k, v) ==
    \/ Forward([x EXCEPT !.word = BoundaryWord(@, k)], k, v)
    \/ \E a \in BoundaryActions(x.word, k) : Swallow(AwaitRelease(x, k, a))

Type(x, k, v, m) ==
    LET w == CASE IsPlain(m, k) -> TypeCharacter(x.word)
               [] k = "Backspace" -> EraseCharacter(x.word)
               [] k \in Modifiers -> x.word
               [] OTHER -> NoWord
    IN  Forward([x EXCEPT !.word = w], k, v)

\* A hotkey that is not inhibited by a settings window.  (ManualKey is never
\* replayed, so that no flow is active.)
Hotkey(x, k, v, m) ==
    /\ \/ /\ HotkeyMatches(profile.selected, m, k, v)
          /\ hotkey' = k /\ selected' = (k # "Pause")
          /\ undo' = UndoLeft(k)
          /\ \E y \in IF k = "Pause" THEN SelectedTextSwitched(x) ELSE {x} : Swallow(y)
          /\ UNCHANGED flow
       \/ /\ HotkeyMatches(profile.manual, m, k, v)
          /\ undo' = undo \cup {k} /\ hotkey' = HotkeyLeft(k)
          /\ \E b \in Begun(x.word, m) :
                flow' = b.flow /\ Swallow([x EXCEPT !.session = b.session])
          /\ UNCHANGED selected

Typed(x, k, v, m) ==
    /\ \/ v = 0 /\ Forward(x, k, v)
       \/ v # 0 /\ k \in Separators /\ Boundary(x, k, v)
       \/ v # 0 /\ k \notin Separators /\ Type(x, k, v, m)
    /\ hotkey' = HotkeyLeft(k) /\ undo' = UndoLeft(k)
    /\ UNCHANGED <<selected, flow>>

\* take_pending_word_commit_for_early_finish: another key is pressed while a
\* correction waits, whose separator stays suppressed.
EarlyFinish(k, v) == v = 1 /\ pending # None /\ k \notin Modifiers

FinishedEarly(x, k, v) ==
    IF EarlyFinish(k, v) THEN Finished([x EXCEPT !.separator = pending.key]) ELSE {x}

\* handle_layout_shortcut_if_matched: the layout changes, and the shortcut goes
\* on to the desktop; while it is latched it is dropped.
LayoutShortcut(x) ==
    [x EXCEPT !.word = NoWord, !.latched = TRUE, !.pending = Unauthorized(@)]

\* handle_key_event.  (manual_hotkey_latch, which would follow a correction of
\* the buffer that is not deferred, is never set.)
Process(k, v) ==
    LET m == ModsAfter(k, v)
        leaves == LeavesWindow(m, k, v)
        holds == latched /\ ComboHolds(m)
        matches == ComboMatches(m, k, v)
        entered == [Current EXCEPT !.word = IF leaves THEN NoWord ELSE @,
                                   !.screen = IF leaves THEN NoText ELSE @,
                                   !.session = IF leaves THEN Invalidated(flow, @) ELSE @,
                                   !.latched = holds]
        returns == \/ EarlyFinish(k, v) /\ HotkeyMatches(profile.manual, m, k, v)
                   \/ matches /\ holds
    IN  /\ Proceeds(k, v)
        /\ mods' = m
        /\ \E x \in FinishedEarly(entered, k, v) :
              LET y == IF matches THEN LayoutShortcut(x) ELSE x
              IN  IF returns
                  THEN /\ Swallow(x)
                       /\ hotkey' = HotkeyLeft(k) /\ undo' = UndoLeft(k)
                       /\ UNCHANGED <<selected, flow>>
                  ELSE Hotkey(y, k, v, m) \/ Typed(y, k, v, m)
        /\ UNCHANGED cap

-----------------------------------------------------------------------------
\* The event loop.

Ready == backend = "ready"
queue == <<barrier, ledger, reported>>

\* reconcile_deferred_input_state_after_backend_shutdown
LedgerReconciled ==
    /\ ledger' = <<>> /\ reported' = FALSE
    /\ flow' = "Idle" /\ session' = NoSession /\ barrier' = "none"

\* reset_transient_input_state
TransientReset ==
    /\ word' = NoWord /\ separator' = None /\ pending' = None
    /\ hotkey' = None /\ selected' = FALSE /\ undo' = {} /\ latched' = FALSE
    /\ mods' = {}

\* handle_runtime_input_failure, drop_active_input_backend: the devices are
\* closed, which lifts every key of the virtual keyboard, the ledger is
\* reconciled and the transient state reset.
Stops(next) ==
    /\ backend' = next
    /\ phys' = {} /\ repeating' = None /\ device' = {} /\ screen' = NoText
    /\ cap' = Capture!EpochReset(cap)
    /\ LedgerReconciled /\ TransientReset

\* What is kept from the desktop is so before the deferral.  The event is early
\* when older events of its key are still in the ledger.
IsEarly(k, v) ==
    /\ Suppresses(k, v) /\ FlowActive
    /\ \E i \in DOMAIN ledger : ledger[i].key = k

\* A commit that waited, or a selected text job, changes the word behind the back
\* of the writer's correction, whose session is not told.
IsMissed(k, v) ==
    /\ flow \in {"InFlight", "CancelRequested"}
    /\ \/ HotkeySwallows(k, v) /\ selected /\ v # 2
       \/ SeparatorSwallows(k, v) /\ PendingToFinish(k)

\* With these modifiers Backspace and Space are tracked as if they were plain.
IsUntracked(k, v) ==
    /\ Proceeds(k, v) /\ v # 0 /\ k \in {"Backspace", "Space"}
    /\ ModsAfter(k, v) \cap (Ctrl \cup Alt \cup Meta) # {}

\* An event that the kernel delivers.  It repeats the key that was pressed last,
\* until a key is released.
Delivered(k, v) ==
    /\ Ready /\ k \in profile.keys
    /\ v = 1 => k \notin phys
    /\ v = 2 => k = repeating
    /\ v = 0 => k \in phys
    /\ v # 0 => count.events < profile.maxEvents
    /\ count' = [count EXCEPT !.events = IF v = 0 THEN @ ELSE @ + 1,
                              !.early = @ \/ IsEarly(k, v),
                              !.missed = @ \/ IsMissed(k, v) \/ (~FlowActive /\ IsUntracked(k, v))]

Handled(k, v) ==
    /\ Delivered(k, v)
    /\ phys' = Down(phys, k, v)
    /\ repeating' = CASE v = 1 -> k [] v = 0 -> None [] OTHER -> repeating
    /\ \/ /\ \/ Suppressed(k, v)
             \/ RouteCapture(k, v)
             \/ HotkeyDuringFlow(k, v)
             \/ ~FlowActive /\ ~CaptureTakes(k, v) /\ Process(k, v)
          /\ UNCHANGED queue
       \/ Enqueue(k, v)
    /\ UNCHANGED backend

Press(k) == Handled(k, 1)
Repeat(k) == Handled(k, 2)
Release(k) == Handled(k, 0)

\* DeferredInputCapacityExceeded cannot be recovered from.
Overflow(k, v) ==
    /\ Delivered(k, v) /\ Enqueues(k, v) /\ Len(ledger) >= HardLimit
    /\ Stops("exited")

\* transition_manual_current_word_completion: the layout is no longer known, and
\* what was deferred is replayed.
Completes ==
    /\ Ready
    /\ flow' = "DrainingDeferredInput"
    /\ pending' = Unauthorized(pending)

\* finalize_manual_correction
Finalized(n) == [NoWord EXCEPT !.length = n, !.corrected = TRUE]

\* Mutant: the word is restored although the context was invalidated.
SucceededAnyway ==
    /\ Ready /\ flow \in {"InFlight", "CancelRequested"}
    /\ flow' = "DrainingDeferredInput"
    /\ word' = Finalized(session.length)
    /\ UNCHANGED <<backend, input, device, mods, suppression, cap, session, queue, screen, count>>

\* poll_manual_completion_and_ensure_input_backend_healthy: the writer is done.
Succeeded ==
    /\ flow \in {"InFlight", "CancelRequested"} /\ Completes
    /\ word' = IF session.invalidated THEN NoWord ELSE Finalized(session.length)
    /\ UNCHANGED <<backend, input, device, mods, separator, hotkey, selected, undo, latched,
                   cap, session, queue, screen, count>>

Cancelled ==
    /\ flow = "CancelRequested" /\ Completes
    /\ word' = NoWord /\ screen' = NoText
    /\ UNCHANGED <<backend, input, device, mods, separator, hotkey, selected, undo, latched,
                   cap, session, queue, count>>

\* FailedAfterMutation
Failed ==
    /\ Ready /\ flow \in {"InFlight", "CancelRequested"}
    /\ Stops("exited")
    /\ UNCHANGED count

\* deferred_focus_barrier_before_next_event: a barrier that is over is removed.
FrontBarrier == IF barrier = "over" THEN "none" ELSE barrier

\* acknowledge_deferred_focus_barrier: the end of a window switch arms the
\* barrier that is then in front; behind an armed one it would never be armed.
BarrierAfter(e) ==
    CASE ~e.fence -> FrontBarrier
      [] e.fence /\ FrontBarrier = "none" -> "armed"
      [] OTHER -> "stuck"

\* DeferredInputLedger::acknowledge: an event leaves once it has been handled.
AcknowledgeHead == ledger' = Tail(ledger)

\* drain_one_deferred_input_event: an armed barrier lets only releases pass.
DrainOne ==
    /\ Ready /\ Draining /\ ledger # <<>>
    /\ LET e == Head(ledger)
       IN  /\ FrontBarrier = "none" \/ e.value = 0
           /\ Suppressed(e.key, e.value) \/ Process(e.key, e.value)
           /\ barrier' = BarrierAfter(e)
           /\ count' = [count EXCEPT !.missed = @ \/ IsUntracked(e.key, e.value)]
    /\ AcknowledgeHead
    /\ UNCHANGED <<backend, input, reported>>

\* The input target has changed, or X11_DEFERRED_FOCUS_BARRIER_TIMEOUT is over.
BarrierOver ==
    /\ Ready /\ Draining /\ barrier = "armed"
    /\ barrier' = "over"
    /\ UNCHANGED <<backend, input, device, mods, word, suppression, cap, flow, session, ledger,
                   reported, screen, count>>

\* Mutant: the end of the replay waits for a barrier also where none was armed.
DrainDoneBehindBarrier ==
    /\ Ready /\ Draining /\ ledger = <<>>
    /\ barrier = "over"
    /\ barrier' = "none" /\ reported' = FALSE
    /\ \E b \in IF session.retry THEN Begun(word, mods)
                ELSE {[flow |-> "Idle", session |-> NoSession]} :
          flow' = b.flow /\ session' = b.session
    /\ UNCHANGED <<backend, input, device, mods, word, suppression, cap, ledger, screen, count>>

\* The ledger is empty and no window switch is under way.
DrainDone ==
    /\ Ready /\ Draining /\ ledger = <<>>
    /\ barrier = "over" \/ (barrier = "none" /\ session.shortcut = None)
    /\ barrier' = "none" /\ reported' = FALSE
    /\ \E b \in IF session.retry THEN Begun(word, mods)
                ELSE {[flow |-> "Idle", session |-> NoSession]} :
          flow' = b.flow /\ session' = b.session
    /\ UNCHANGED <<backend, input, device, mods, word, suppression, cap, ledger, screen, count>>

\* handle_non_key_invalidation: the focus moved or the pointer was clicked, or
\* the layouts were set up anew.
Invalidate(setup) ==
    /\ Ready /\ count.invalidations < profile.maxInvalidations
    /\ count' = [count EXCEPT !.invalidations = @ + 1]
    /\ flow' = CancelFlow(flow) /\ session' = Invalidated(flow, session)
    /\ word' = NoWord
    /\ screen' = IF setup THEN screen ELSE NoText
    /\ pending' = IF setup THEN Unauthorized(pending) ELSE pending
    /\ UNCHANGED <<backend, input, device, mods, separator, hotkey, selected, undo, latched, cap,
                   queue>>

\* A settings window starts a capture over D-Bus and ends it.
CaptureStart ==
    /\ count.captures < profile.maxCaptures
    /\ ~Capture!IsActive(cap)
    /\ cap' = Capture!Started(cap, Capture!Lease("settings"))
    /\ count' = [count EXCEPT !.captures = @ + 1, !.overtaken = @ \/ FlowActive]
    /\ UNCHANGED <<backend, input, device, mods, word, suppression, manual, screen>>

CaptureEnd ==
    /\ Capture!IsActive(cap)
    /\ \E phase \in {"Cancelled", "Finished"} : cap' = Capture!End(cap, phase)
    /\ UNCHANGED <<backend, input, device, mods, word, suppression, manual, screen, count>>

\* poll_layout_switch_capture_expiry
CaptureExpire ==
    /\ Ready /\ Capture!IsActive(cap)
    /\ cap' = Capture!End(cap, "Cancelled")
    /\ word' = NoWord
    /\ UNCHANGED <<backend, input, device, mods, suppression, manual, screen, count>>

\* The backend is lost: a device, the writer or the session is gone.
Fail ==
    /\ Ready /\ count.failures < profile.maxFailures
    /\ count' = [count EXCEPT !.failures = @ + 1]
    /\ \E next \in {"waiting", "exited"} : Stops(next)

\* install_opened_input_backend, once the keyboard was quiet.
Recover ==
    /\ backend = "waiting"
    /\ backend' = "ready"
    /\ UNCHANGED <<input, device, mods, word, suppression, cap, manual, screen, count>>

\* No step changes the profile.
Step(A) == A /\ UNCHANGED profile

Next ==
    \/ \E k \in Keys : Step(Press(k)) \/ Step(Repeat(k)) \/ Step(Release(k))
    \/ \E k \in Keys, v \in 0..2 : Step(Overflow(k, v))
    \/ Step(Succeeded) \/ Step(Cancelled) \/ Step(Failed)
    \/ Step(DrainOne) \/ Step(BarrierOver) \/ Step(DrainDone)
    \/ \E setup \in BOOLEAN : Step(Invalidate(setup))
    \/ Step(CaptureStart) \/ Step(CaptureEnd) \/ Step(CaptureExpire)
    \/ Step(Fail) \/ Step(Recover)

Spec == Init /\ [][Next]_vars

\* The writer finishes every transaction (WriterTransaction), the loop drains in
\* every round, a barrier times out, and nobody holds a key for ever.  Which of
\* them comes first is left open.
Fairness ==
    /\ WF_vars(Step(Succeeded \/ Cancelled \/ Failed \/ DrainOne \/ BarrierOver \/ DrainDone))
    /\ WF_vars(\E k \in Keys : Step(Release(k) \/ Overflow(k, 0)))

FairSpec == Spec /\ Fairness

-----------------------------------------------------------------------------
AtRest == Ready /\ flow = "Idle"

Words == [length : 0..MaxWord, previous : 0..MaxWord, corrected : BOOLEAN, overflowed : BOOLEAN]

TypeOK ==
    /\ profile \in Profiles
    /\ backend \in {"ready", "waiting", "exited"}
    /\ phys \subseteq Keys /\ device \subseteq Keys
    /\ repeating \in phys \cup {None}
    /\ mods \subseteq Keys \cap Modifiers
    /\ word \in Words
    /\ screen \in [current : 0..(MaxWord + 1), previous : 0..(MaxWord + 1)]
    /\ separator \in (Keys \cap Separators) \cup {None}
    /\ pending = None \/ pending \in [key : Separators, action : profile.corrections,
                                      length : 1..MaxWord, authorized : BOOLEAN]
    /\ hotkey \in {None, profile.selected.key} /\ selected \in BOOLEAN /\ latched \in BOOLEAN
    /\ undo \subseteq {ManualKey}
    /\ flow \in {"Idle", "InFlight", "CancelRequested", "DrainingDeferredInput"}
    /\ session \in [length : 0..MaxWord, invalidated : BOOLEAN, seen : BOOLEAN, retry : BOOLEAN,
                    observed : SUBSET (Keys \cap Modifiers), shortcut : {None, "Alt", "Meta"}]
    /\ barrier \in {"none", "armed", "over", "stuck"}
    /\ ledger \in Seq([key : Keys, value : 0..2, fence : BOOLEAN]) /\ Len(ledger) <= HardLimit
    /\ reported \in BOOLEAN

\* A press that was kept from the desktop is a debt, and so is its release.
Debts == {k \in Keys : k \in {hotkey, separator} \cup undo \cup cap.suppressed}

\* At rest no key is down on the virtual keyboard that the user has released,
\* and the service waits only for the release of keys that are held and that
\* the desktop does not hold down: a release is never lost, swallowed, or
\* passed on before its press.  The code does not promise it once a capture
\* has begun during a flow, or a release was kept from the desktop while older
\* events of its key waited, because both come before the ledger
\* (handle_key_event).
NoStuckKey ==
    AtRest /\ ~count.overtaken /\ ~count.early =>
        device \subseteq phys /\ Debts \subseteq phys \ device

\* The keys that a correction would erase are before the cursor: the buffer and
\* the word before the cursor have been typed since the context was last lost
\* (apply_word_tracking_event_and_forward).  A capture forwards the repeats of
\* keys that were held before it without tracking them, a success of the writer
\* brings back the word that a commit or a selected text job has replaced
\* meanwhile, and Backspace and Space are tracked like plain ones under Ctrl, Alt
\* and the logo key, so this is said of behaviours without any of it.
WordIsOnScreen ==
    count.captures = 0 /\ ~count.missed =>
        /\ word.length <= screen.current
        /\ word.previous <= screen.previous

\* While a flow is active the desktop gets only what is replayed, in the order
\* in which it was queued, unless a capture has begun during a flow
\* (enqueue_deferred_physical_input_event).
NothingOvertakesTheLedger ==
    [][flow # "Idle" /\ ~count.overtaken /\ Ready' /\ device' # device =>
          Draining /\ ledger # <<>> /\ ledger' = Tail(ledger)
          /\ device' = Down(device, Head(ledger).key, Head(ledger).value)]_vars

\* The keyboard is given back: every flow ends, whatever is typed, focused,
\* captured or lost during it, and no barrier is left that nothing ends
\* (drain_one_deferred_input_event).  A capture that begins during a flow is
\* again the exception: it may take the release a window switch waits for.
FlowEnds == flow # "Idle" ~> flow = "Idle" \/ count.overtaken
=============================================================================
