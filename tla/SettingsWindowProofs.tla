------------------------- MODULE SettingsWindowProofs -------------------------
(***************************************************************************)
(* Proofs about SettingsWindow: whatever the windows, the tray, the daemon *)
(* and the desktop do, and wherever a process or the power fails, updates  *)
(* merge as asked, what was answered is durable, and no form stays locked. *)
(* The windows, jobs, desktops, hotkeys and the number of operations are   *)
(* arbitrary.                                                              *)
(*                                                                         *)
(* Settings travel as text, so each theorem has the hypothesis             *)
(* SpellingsAreExact: every spelling is read as what was written.  It is a *)
(* statement about the finitely many hotkeys and combinations of the code, *)
(* without variables or parameters, which model checking decides.  The     *)
(* same holds of DetectorIsRight for a given set of desktops.              *)
(***************************************************************************)
EXTENDS SettingsWindow, SequenceTheorems, TLAPS

(***************************************************************************)
(* Settings, their text and their merge.                                   *)
(***************************************************************************)
ValidSettings == {s \in Settings : Valid(s)}

\* What the bus and the file carry.
Forms == {Serialized(s) : s \in Settings}

LEMMA ComboIsNotSplit ==
    ASSUME SpellingsAreExact, NEW c \in Combos, NEW d \in Combos, ComboValue(c) = ComboValue(d)
    PROVE  c = d
<1>1. ParseCombo(ComboValue(c)) = c /\ ParseCombo(ComboValue(d)) = d
  BY DEF SpellingsAreExact
<1>. QED  BY <1>1

LEMMA InvalidIsNoSetting == Invalid \notin Settings
BY DEF Invalid, Settings

LEMMA SettingsFields ==
    ASSUME NEW s \in Settings
    PROVE  /\ s.enabled \in BOOLEAN /\ s.manual \in Hotkeys /\ s.selected \in Hotkeys
           /\ s.layout \in LayoutSettings
           /\ s = [enabled |-> s.enabled, manual |-> s.manual, selected |-> s.selected,
                   layout |-> s.layout]
           /\ DOMAIN s = Fields
BY DEF Settings, Fields

LEMMA SettingsIntro ==
    ASSUME NEW e \in BOOLEAN, NEW m \in Hotkeys, NEW h \in Hotkeys, NEW l \in LayoutSettings
    PROVE  [enabled |-> e, manual |-> m, selected |-> h, layout |-> l] \in Settings
BY DEF Settings

LEMMA ReadBack ==
    ASSUME SpellingsAreExact, NEW s \in Settings
    PROVE  Deserialized(Serialized(s)) = s
<1>1. /\ Reading[Spelling[s.manual]] = s.manual
      /\ Reading[Spelling[s.selected]] = s.selected
  BY CommitAssumption, SettingsFields DEF SpellingsAreExact
<1>2. s.manual # Invalid /\ s.selected # Invalid
  <2>1. \A h \in HotkeySpecs : h # Invalid
    BY DEF HotkeySpecs, Invalid
  <2>. QED  BY <2>1, SettingsFields, CommitAssumption
<1>. DEFINE c == s.layout.combo
            form == [enabled |-> s.enabled, manual |-> Spelling[s.manual],
                     selected |-> Spelling[s.selected],
                     layout |-> [combo |-> ComboValue(c), source |-> s.layout.source]]
<1>3. /\ c \in Combos
      /\ s.layout = [combo |-> c, source |-> s.layout.source]
      /\ s = [enabled |-> s.enabled, manual |-> s.manual, selected |-> s.selected,
              layout |-> [combo |-> c, source |-> s.layout.source]]
  BY SettingsFields DEF LayoutSettings
<1>4. Serialized(s) = form
  BY <1>3 DEF Serialized
<1>5. {d \in Combos : ComboValue(d) = form.layout.combo} = {c}
  BY <1>3, ComboIsNotSplit
<1>6. Deserialized(form) = [enabled |-> s.enabled, manual |-> s.manual,
           selected |-> s.selected, layout |-> [combo |-> c, source |-> s.layout.source]]
  BY <1>1, <1>2, <1>5 DEF Deserialized
<1>. QED  BY <1>3, <1>4, <1>6

LEMMA MergeSettings ==
    ASSUME NEW patch, patch.values \in Settings, NEW current \in Settings
    PROVE  /\ Merge(patch, current) \in Settings
           /\ \A f \in Fields : Merge(patch, current)[f] =
                IF f \in patch.changed THEN patch.values[f] ELSE current[f]
BY SettingsFields DEF Merge, Fields, Settings

LEMMA ReadingIsSettings ==
    ASSUME SpellingsAreExact, NEW form \in Forms
    PROVE  /\ Deserialized(form) \in Settings
           /\ Deserialized(form) # Invalid
           /\ form = Serialized(Deserialized(form))
           /\ Deserialized(form).layout.source = form.layout.source
BY ReadBack, InvalidIsNoSetting DEF Forms, Serialized

LEMMA FileReadBack ==
    ASSUME SpellingsAreExact, NEW s \in ValidSettings
    PROVE  FromFile(ToFile(s)) = s
BY ReadBack, InvalidIsNoSetting DEF FromFile, ToFile, ValidSettings

LEMMA LayoutReplaced ==
    ASSUME NEW s \in ValidSettings, NEW l \in LayoutSettings
    PROVE  /\ [s EXCEPT !.layout = l] \in ValidSettings
           /\ [s EXCEPT !.layout = l].layout = l
           /\ \A f \in Fields \ {"layout"} : [s EXCEPT !.layout = l][f] = s[f]
<1>. DEFINE r == [s EXCEPT !.layout = l]
<1>1. s \in [enabled : BOOLEAN, manual : Hotkeys, selected : Hotkeys, layout : LayoutSettings]
  BY DEF ValidSettings, Settings
<1>2. r \in Settings /\ r.manual = s.manual /\ r.selected = s.selected /\ r.layout = l
  BY <1>1 DEF Settings
<1>3. \A f \in Fields \ {"layout"} : r[f] = s[f]
  BY <1>1 DEF Fields
<1>4. Valid(r)
  BY <1>2 DEF ValidSettings, Valid
<1>. QED  BY <1>2, <1>3, <1>4 DEF ValidSettings

LEMMA SwitchFlipped ==
    ASSUME NEW s \in ValidSettings
    PROVE  /\ [s EXCEPT !.enabled = ~s.enabled] \in Settings
           /\ \A f \in Fields \ {"enabled"} : [s EXCEPT !.enabled = ~s.enabled][f] = s[f]
<1>. DEFINE b == ~s.enabled
            r == [s EXCEPT !.enabled = b]
<1>1. s \in [enabled : BOOLEAN, manual : Hotkeys, selected : Hotkeys, layout : LayoutSettings]
  BY DEF ValidSettings, Settings
<1>2. b \in BOOLEAN
  OBVIOUS
<1>. HIDE DEF b
<1>3. r \in Settings
  BY <1>1, <1>2 DEF Settings
<1>4. \A f \in Fields \ {"enabled"} : r[f] = s[f]
  BY <1>1 DEF Fields
<1>. QED  BY <1>3, <1>4 DEF b

LEMMA DefaultsAreValid == DefaultSettings \in ValidSettings
<1>1. DefaultSettings \in Settings
  BY CommitAssumption DEF DefaultSettings, Settings, LayoutSettings, DefaultCombo, Combos,
     XkbOptions
<1>2. Valid(DefaultSettings)
  BY DEF DefaultSettings, Valid, ConflictsExact, ManualHotkey, SelectedHotkey, Hotkey
<1>. QED  BY <1>1, <1>2 DEF ValidSettings

(***************************************************************************)
(* Detection.                                                              *)
(***************************************************************************)
LEMMA KnownCombos ==
    /\ \A n \in {"CtrlShift", "AltShift", "CapsLock", "CtrlSpace", "SuperSpace",
                 "LeftCtrlLeftShift", "RightCtrlRightShift", "LeftAltLeftShift",
                 "RightAltRightShift"} : n \in Combos
    /\ \A o : OptionCombo(o) \in Combos \cup {NoCombo}
<1>1. \A o \in DOMAIN XkbOptions : XkbOptions[o] \in Combos
  BY DEF Combos
<1>2. /\ XkbOptions.ctrl_shift_toggle = "CtrlShift" /\ XkbOptions.alt_shift_toggle = "AltShift"
      /\ XkbOptions.caps_toggle = "CapsLock" /\ XkbOptions.ctrl_space_toggle = "CtrlSpace"
      /\ XkbOptions.win_space_toggle = "SuperSpace"
      /\ XkbOptions.lctrl_lshift_toggle = "LeftCtrlLeftShift"
      /\ XkbOptions.rctrl_rshift_toggle = "RightCtrlRightShift"
      /\ XkbOptions.lalt_lshift_toggle = "LeftAltLeftShift"
      /\ XkbOptions.ralt_rshift_toggle = "RightAltRightShift"
  BY DEF XkbOptions
<1>3. {"ctrl_shift_toggle", "alt_shift_toggle", "caps_toggle", "ctrl_space_toggle",
       "win_space_toggle", "lctrl_lshift_toggle", "rctrl_rshift_toggle",
       "lalt_lshift_toggle", "ralt_rshift_toggle"} \subseteq DOMAIN XkbOptions
  BY DEF XkbOptions
<1>. QED  BY <1>1, <1>2, <1>3 DEF OptionCombo

LEMMA PairComboKnown ==
    ASSUME NEW pair, NEW left \in Combos, NEW right \in Combos, NEW generic \in Combos
    PROVE  PairCombo(pair, left, right, generic) \in Combos \cup {NoCombo}
BY DEF PairCombo

LEMMA BindingComboKnown ==
    ASSUME NEW b
    PROVE  BindingCombo(b) \in Combos \cup {NoCombo}
<1>1. \A m, key : SpaceBinding(m, key) \in Combos \cup {NoCombo}
  BY KnownCombos DEF SpaceBinding
<1>2. \A m, key : ShiftPairCombo(m, key) \in Combos \cup {NoCombo}
  BY KnownCombos, PairComboKnown DEF ShiftPairCombo
<1>. QED  BY <1>1, <1>2, KnownCombos DEF BindingCombo

LEMMA FirstComboKnown ==
    ASSUME NEW d, NEW source
    PROVE  FirstCombo(d, source) \in Combos \cup {NoCombo}
BY BindingComboKnown, KnownCombos DEF FirstCombo

\* Whatever the desktop is set to, a detection ends with a combination that
\* the daemon knows, which it does not take for one chosen by hand.
LEMMA DetectionIsKnown ==
    ASSUME NEW d
    PROVE  DetectSwitch(d) \in LayoutSettings /\ DetectSwitch(d).source \in {"detected", "fallback"}
<1>. DEFINE Known == {l \in LayoutSettings : l.source \in {"detected", "fallback"}}
<1>1. Fallback \in Known
  BY KnownCombos DEF Fallback, DefaultCombo, LayoutSettings
<1>2. \A c \in Combos : Detected(c) \in Known
  BY DEF Detected, LayoutSettings
<1>3. \A c \in Combos \cup {NoCombo} : OrFallback(c) \in Known
  BY <1>1, <1>2 DEF OrFallback
<1>. HIDE DEF Known
<1>4. WmCombo(d) \in Combos \cup {NoCombo} /\ QueryCombo(d) \in Combos \cup {NoCombo}
  BY FirstComboKnown DEF WmCombo, QueryCombo
<1>5. DetectXfce(d) \in Known
  BY <1>1, <1>3, <1>4, FirstComboKnown DEF DetectXfce
<1>6. DetectCinnamon(d) \in Known
  BY <1>1, <1>2, <1>3, <1>4, FirstComboKnown DEF DetectCinnamon
<1>7. DetectSwitch(d) \in Known
  BY <1>1, <1>3, <1>4, <1>5, <1>6 DEF DetectSwitch
<1>. QED  BY <1>7 DEF Known

(***************************************************************************)
(* The inductive invariant.                                                *)
(***************************************************************************)
\* What a request may change: what its user touched, and a combination only
\* by hand.
Asked(r) ==
    /\ r.kind = "update" => r.patch.changed \subseteq r.touched
    /\ r.kind = "toggle" => r.touched = {"enabled"}
    /\ "layout" \in r.patch.changed => r.patch.values.layout.source = "manual"

Requests ==
    {r \in [from : Callers, kind : {"get", "update", "toggle"}, touched : SUBSET Fields,
            patch : [changed : SUBSET Fields, values : Forms]] : Asked(r)}

Replies == [status : {"none", "waiting", "failed"}] \cup [status : {"ok"}, settings : Forms]

\* A window: what is changed was touched, and a combination is changed only
\* after the detection was overridden.
WindowStates ==
    [visible : BOOLEAN, loaded : BOOLEAN, base : Settings, draft : Settings,
     touched : SUBSET Fields, request : {"idle", "loading", "saving"}, override : BOOLEAN,
     baseAuto : {"unknown", "off", "on"}, auto : BOOLEAN]

Tracked(s) ==
    /\ \A f \in Fields : s.draft[f] # s.base[f] => f \in s.touched
    /\ s.override => "layout" \in s.touched
    /\ s.draft.layout # s.base.layout => s.override

Threads ==
    [kind : {"none", "load", "autostart"}]
      \cup [kind : {"save"}, autostart : BOOLEAN, change : BOOLEAN]

\* A combination that counts as detected is what a desktop announces.
FoundSomewhere(l) ==
    l.source = "detected" => \E d \in Desktops : l = DetectSwitch(d)

Kept == {s \in ValidSettings : FoundSomewhere(s.layout)}

DaemonTypes ==
    /\ memory \in Kept /\ published \in Settings
    /\ FromFile(file) \in ValidSettings /\ FromFile(durable) \in ValidSettings
    /\ up \in BOOLEAN
    /\ gate \in {"free", "call", "coordinator"}
    /\ bus \in Seq(Requests)
    /\ reply \in [Callers -> Replies]
    /\ desktop \in Desktops
    /\ edition \in [file : Nat, durable : Nat, promised : Nat]
    /\ ops \in 0..MaxOps

WindowTypes ==
    /\ win \in [Windows -> {s \in WindowStates : Tracked(s)}]
    /\ job \in [Windows \X Jobs -> Threads]
    /\ autostart \in BOOLEAN

Working == {"save", "commit", "publish"}

\* Where a call stands: its request, and the settings on their way to memory,
\* which differ from memory in what the request may change.
CallInOrder ==
    /\ call.step \in {"none", "merge", "answer"} \cup Working
    /\ call.step # "none" => call.request \in Requests /\ call.request.kind # "get"
    /\ call.step = "none" => call = NoCall
    /\ call.step \in Working \cup {"answer"} => call.settings \in Kept
    /\ call.step \in {"save", "commit"} =>
         \A f \in Fields : call.settings[f] # memory[f] => f \in call.request.touched
    /\ call.step \in {"commit", "publish"} =>
         call = [step |-> call.step, request |-> call.request, before |-> call.before,
                 settings |-> call.settings, certain |-> call.certain]

DetectionInOrder ==
    /\ redetect.step \in {"idle", "detect", "apply", "publish"}
    /\ redetect.step = "apply" => \E d \in Desktops : redetect.found = DetectSwitch(d)

\* The gate belongs to the call from its merge to its publication, or to the
\* coordinator.
GateIsHeld ==
    /\ gate = "call" <=> call.step \in Working
    /\ gate = "coordinator" <=> redetect.step = "publish"
    /\ ~up => call = NoCall /\ redetect = NoDetection /\ bus = <<>>

\* What memory, the snapshot and the file hold while one of the two is on its
\* way through them.
AgreesWithFile(settings) ==
    \A f \in Fields : f # "layout" \/ settings.layout.source = "manual"
      => settings[f] = FromFile(file)[f]

InStep ==
    up =>
      /\ call.step = "publish" => memory = call.settings
      /\ gate = "coordinator" => memory = redetect.settings
      /\ gate # "coordinator" /\ call.step # "publish" => published = memory
      /\ call.step \in {"commit", "publish"} => FromFile(file) = call.settings
      /\ call.step \notin {"commit", "publish"} => AgreesWithFile(memory)

\* The newest edition of the file is the durable one until the call that
\* promises it has answered.
PromisesAreKept ==
    /\ edition.promised <= edition.durable /\ edition.durable <= edition.file
    /\ \/ call.step \in {"commit", "publish"} /\ call.certain
       \/ call.step = "answer" /\ call.outcome = "durable"
       => edition.durable = edition.file

\* Who waits is known to the daemon, and a form that is locked has a thread.
WaitersAreServed ==
    \A t \in Callers : reply[t].status = "waiting" => up /\ t \in Pending

FormsHaveThreads ==
    \A w \in Windows :
      /\ win[w].request = "saving" => \E j \in Jobs : job[<<w, j>>].kind = "save"
      /\ win[w].request = "loading" => \E j \in Jobs : job[<<w, j>>].kind = "load"

Inv ==
    /\ DaemonTypes /\ WindowTypes
    /\ CallInOrder /\ DetectionInOrder /\ GateIsHeld
    /\ InStep /\ PromisesAreKept
    /\ WaitersAreServed /\ FormsHaveThreads

(***************************************************************************)
(* The initial states.                                                     *)
(***************************************************************************)
LEMMA OldFileReadBack ==
    ASSUME SpellingsAreExact, NEW s \in ValidSettings,
           s.manual = ManualHotkey, s.selected = SelectedHotkey
    PROVE  FromFile(OldFile(s)) = s
<1>. DEFINE old == [modifier |-> "shift", key |-> "pause"]
<1>1. Reading[UndoKeyText("pause")] = ManualHotkey
  BY DEF SpellingsAreExact, UndoKeys, FromUndoKey, ManualHotkey
<1>2. Reading[SelectedTextValue(old)] = SelectedHotkey
  <2>1. old \in SelectedTextHotkeys
    BY DEF SelectedTextHotkeys, HotkeyModifiers, UndoKeys
  <2>2. SelectedTextValue(old) \in {SelectedTextValue(old), SelectedTextLabel(old)}
    OBVIOUS
  <2>3. Reading[SelectedTextValue(old)] = FromSelectedText(old)
    BY <2>1, <2>2 DEF SpellingsAreExact
  <2>. QED  BY <2>3 DEF FromSelectedText, SelectedHotkey
<1>3. ManualHotkey # Invalid /\ SelectedHotkey # Invalid
  BY DEF ManualHotkey, SelectedHotkey, Hotkey, Invalid
<1>. DEFINE form == OldFile(s)  c == s.layout.combo
<1>4. /\ form.enabled = s.enabled /\ form.manual = UndoKeyText("pause")
      /\ form.selected = SelectedTextValue(old)
      /\ form.layout = [combo |-> ComboValue(c), source |-> s.layout.source]
  BY DEF OldFile, ToFile, Serialized
<1>5. /\ s \in Settings /\ c \in Combos
      /\ s = [enabled |-> s.enabled, manual |-> s.manual, selected |-> s.selected,
              layout |-> [combo |-> c, source |-> s.layout.source]]
  BY SettingsFields DEF LayoutSettings, ValidSettings
<1>6. {d \in Combos : ComboValue(d) = form.layout.combo} = {c}
  BY <1>4, <1>5, ComboIsNotSplit
<1>. HIDE DEF form, c, old
<1>7. Deserialized(form) = s
  BY <1>1, <1>2, <1>3, <1>4, <1>5, <1>6 DEF Deserialized
<1>. QED  BY <1>5, <1>7, InvalidIsNoSetting DEF FromFile, ValidSettings, form

LEMMA InitInv == SpellingsAreExact /\ Init => Inv
<1>. SUFFICES ASSUME SpellingsAreExact, Init PROVE Inv
  OBVIOUS
<1>. USE DEF Init, CommitInit
<1>1. /\ memory \in Kept /\ memory.manual = ManualHotkey /\ memory.selected = SelectedHotkey
  <2>1. DetectSwitch(desktop) \in LayoutSettings
    BY DetectionIsKnown
  <2>2. memory \in ValidSettings /\ memory.layout = DetectSwitch(desktop)
    BY <2>1, DefaultsAreValid, LayoutReplaced
  <2>3. memory.manual = ManualHotkey /\ memory.selected = SelectedHotkey
    BY DEF DefaultSettings
  <2>. QED  BY <2>2, <2>3 DEF Kept, FoundSomewhere
<1>2. FromFile(file) = memory /\ FromFile(durable) = memory
  BY <1>1, FileReadBack, OldFileReadBack DEF Kept
<1>3. memory \in Settings
  BY <1>1 DEF Kept, ValidSettings
<1>4. DaemonTypes
  <2>1. reply \in [Callers -> Replies]
    BY DEF Replies
  <2>2. bus \in Seq(Requests)
    OBVIOUS
  <2>3. edition \in [file : Nat, durable : Nat, promised : Nat] /\ ops \in 0..MaxOps
    BY CommitAssumption
  <2>. QED  BY <1>1, <1>2, <1>3, <2>1, <2>2, <2>3 DEF DaemonTypes, Kept
<1>5. WindowTypes
  <2>. DEFINE s == [visible |-> TRUE, loaded |-> TRUE, base |-> memory, draft |-> memory,
                    touched |-> {}, request |-> "idle", override |-> FALSE,
                    baseAuto |-> "off", auto |-> FALSE]
  <2>1. s \in WindowStates
    BY <1>3 DEF WindowStates
  <2>2. Tracked(s)
    BY DEF Tracked
  <2>3. win = [w \in Windows |-> s]
    OBVIOUS
  <2>4. job \in [Windows \X Jobs -> Threads] /\ autostart \in BOOLEAN
    BY DEF NoJob, Threads
  <2>. HIDE DEF s
  <2>. QED  BY <2>1, <2>2, <2>3, <2>4 DEF WindowTypes
<1>6. CallInOrder /\ DetectionInOrder /\ GateIsHeld
  BY DEF CallInOrder, DetectionInOrder, GateIsHeld, NoCall, NoDetection, Working
<1>7. InStep /\ PromisesAreKept
  BY <1>2 DEF InStep, PromisesAreKept, AgreesWithFile, NoCall
<1>8. WaitersAreServed /\ FormsHaveThreads
  BY DEF WaitersAreServed, FormsHaveThreads
<1>. QED  BY <1>4, <1>5, <1>6, <1>7, <1>8 DEF Inv

(***************************************************************************)
(* Sending a request.                                                      *)
(***************************************************************************)
Senders(b) == {b[i].from : i \in DOMAIN b}

LEMMA SendersOf ==
    ASSUME NEW S, NEW b \in Seq(S)
    PROVE  /\ \A r \in S : /\ Append(b, r) \in Seq(S)
                           /\ Senders(b) \cup {r.from} \subseteq Senders(Append(b, r))
           /\ b # <<>> => /\ Head(b) \in S /\ Tail(b) \in Seq(S)
                          /\ Senders(b) \subseteq {Head(b).from} \cup Senders(Tail(b))
<1>1. ASSUME NEW r \in S
      PROVE  /\ Append(b, r) \in Seq(S)
             /\ Senders(b) \cup {r.from} \subseteq Senders(Append(b, r))
  <2>1. /\ Append(b, r) \in Seq(S) /\ Len(b) \in Nat
        /\ DOMAIN b = 1..Len(b) /\ DOMAIN Append(b, r) = 1..(Len(b) + 1)
        /\ \A i \in 1..Len(b) : Append(b, r)[i] = b[i]
        /\ Append(b, r)[Len(b) + 1] = r
    OBVIOUS
  <2>2. \A i \in DOMAIN b : i \in DOMAIN Append(b, r) /\ Append(b, r)[i] = b[i]
    BY <2>1
  <2>3. Len(b) + 1 \in DOMAIN Append(b, r)
    BY <2>1
  <2>. QED  BY <2>1, <2>2, <2>3 DEF Senders
<1>2. ASSUME b # <<>>
      PROVE  /\ Head(b) \in S /\ Tail(b) \in Seq(S)
             /\ Senders(b) \subseteq {Head(b).from} \cup Senders(Tail(b))
  <2>1. Head(b) \in S /\ Tail(b) \in Seq(S) /\ Len(b) \in Nat /\ DOMAIN b = 1..Len(b)
    BY <1>2
  <2>2. ASSUME NEW i \in DOMAIN b
        PROVE  b[i] = Head(b) \/ (i - 1 \in DOMAIN Tail(b) /\ b[i] = Tail(b)[i - 1])
    BY <1>2, <2>1
  <2>. QED  BY <2>1, <2>2 DEF Senders
<1>. QED  BY <1>1, <1>2

LEMMA Sent ==
    ASSUME SpellingsAreExact, bus \in Seq(Requests), reply \in [Callers -> Replies],
           NEW c \in Callers, NEW kind \in {"get", "update", "toggle"},
           NEW ch \in SUBSET Fields, NEW s \in Settings, NEW touched \in SUBSET Fields,
           kind = "update" => ch \subseteq touched,
           kind = "toggle" => touched = {"enabled"},
           "layout" \in ch => s.layout.source = "manual",
           Send(c, kind, [changed |-> ch, values |-> s], touched)
    PROVE  /\ bus' \in Seq(Requests) /\ reply' \in [Callers -> Replies]
           /\ Senders(bus) \subseteq Senders(bus')
           /\ \A t \in Callers : reply'[t].status = "waiting" =>
                \/ reply[t].status = "waiting"
                \/ up /\ t \in Senders(bus')
           /\ ~up => bus' = bus
<1>. DEFINE p == [changed |-> ch, values |-> Serialized(s)]
            r == [from |-> c, kind |-> kind, touched |-> touched, patch |-> p]
<1>1. /\ bus' = IF up THEN Append(bus, r) ELSE bus
      /\ reply' = [reply EXCEPT ![c] = [status |-> IF up THEN "waiting" ELSE "failed"]]
  BY DEF Send
<1>2. r \in Requests
  <2>1. p \in [changed : SUBSET Fields, values : Forms]
    BY DEF Forms
  <2>2. "layout" \in p.changed => p.values.layout.source = "manual"
    BY DEF Serialized
  <2>3. p.changed = ch
    OBVIOUS
  <2>. HIDE DEF p
  <2>. QED  BY <2>1, <2>2, <2>3 DEF Requests, Asked
<1>3. r.from = c
  OBVIOUS
<1>. HIDE DEF r
<1>4. reply' \in [Callers -> Replies]
  <2>1. [status |-> IF up THEN "waiting" ELSE "failed"] \in Replies
    BY DEF Replies
  <2>. QED  BY <1>1, <2>1
<1>5. bus' \in Seq(Requests) /\ Senders(bus) \subseteq Senders(bus')
  BY <1>1, <1>2, SendersOf
<1>6. up => c \in Senders(bus')
  BY <1>1, <1>2, <1>3, SendersOf
<1>7. \A t \in Callers : reply'[t].status = "waiting" =>
        (t # c /\ reply[t].status = "waiting") \/ (t = c /\ up)
  BY <1>1
<1>. QED  BY <1>1, <1>4, <1>5, <1>6, <1>7

(***************************************************************************)
(* The states of a window.                                                 *)
(***************************************************************************)
Tracking == {s \in WindowStates : Tracked(s)}

LEMMA Requesting ==
    ASSUME NEW s \in Tracking, NEW r \in {"idle", "loading", "saving"}, NEW v \in BOOLEAN
    PROVE  /\ [s EXCEPT !.request = r] \in Tracking
           /\ [s EXCEPT !.request = r].request = r
           /\ [s EXCEPT !.visible = v] \in Tracking
           /\ [s EXCEPT !.visible = v].request = s.request
           /\ [s EXCEPT !.visible = v, !.request = r] \in Tracking
           /\ [s EXCEPT !.visible = v, !.request = r].request = r
BY DEF Tracking, WindowStates, Tracked

LEMMA Taking ==
    ASSUME NEW s \in Tracking, NEW settings \in Settings
    PROVE  /\ Taken(s, settings) \in Tracking
           /\ Taken(s, settings).request = "idle"
BY DEF Tracking, WindowStates, Tracked, Taken

LEMMA AutoSet ==
    ASSUME NEW s \in Tracking, NEW a \in BOOLEAN, NEW b \in {"unknown", "off", "on"}
    PROVE  /\ [s EXCEPT !.auto = a, !.baseAuto = b] \in Tracking
           /\ [s EXCEPT !.auto = a, !.baseAuto = b].request = s.request
           /\ [s EXCEPT !.auto = a] \in Tracking
           /\ [s EXCEPT !.auto = a].request = s.request
BY DEF Tracking, WindowStates, Tracked

LEMMA Closing ==
    ASSUME NEW s \in Tracking, NEW a \in BOOLEAN
    PROVE  LET r == [s EXCEPT !.visible = FALSE, !.draft = s.base, !.touched = {},
                              !.override = FALSE, !.auto = a]
           IN r \in Tracking /\ r.request = s.request
BY DEF Tracking, WindowStates, Tracked

LEMMA Unlocking ==
    ASSUME NEW s \in Tracking
    PROVE  LET r == [s EXCEPT !.override = TRUE, !.touched = s.touched \cup {"layout"}]
           IN r \in Tracking /\ r.request = s.request
BY DEF Tracking, WindowStates, Tracked, Fields

\* A draft that differs from the former one in one field.
LEMMA Drafting ==
    ASSUME NEW s \in Tracking, NEW f \in Fields, NEW d \in Settings,
           \A g \in Fields \ {f} : d[g] = s.draft[g]
    PROVE  LET r == [s EXCEPT !.draft = d, !.touched = s.touched \cup {f}]
           IN /\ f # "layout" => r \in Tracking
              /\ f = "layout" => [r EXCEPT !.override = TRUE] \in Tracking
              /\ r.request = s.request
              /\ [r EXCEPT !.override = TRUE].request = s.request
BY DEF Tracking, WindowStates, Tracked, Fields

(***************************************************************************)
(* The steps of a window.                                                  *)
(***************************************************************************)
\* Only this window has a new state, and a form that it locks has a thread.
LEMMA OneWindow ==
    ASSUME WindowTypes, FormsHaveThreads, NEW w \in Windows, NEW new \in Tracking, Set(w, new),
           job' \in [Windows \X Jobs -> Threads], autostart' \in BOOLEAN,
           \A v \in Windows \ {w} : \A j \in Jobs : job'[<<v, j>>] = job[<<v, j>>],
           new.request = "saving" => \E j \in Jobs : job'[<<w, j>>].kind = "save",
           new.request = "loading" => \E j \in Jobs : job'[<<w, j>>].kind = "load"
    PROVE  WindowTypes' /\ FormsHaveThreads'
<1>1. win \in [Windows -> Tracking]
  BY DEF WindowTypes, Tracking
<1>2. win' \in [Windows -> Tracking]
  BY <1>1 DEF Set
<1>3. win'[w] = new /\ \A v \in Windows \ {w} : win'[v] = win[v]
  BY <1>1 DEF Set
<1>4. WindowTypes'
  BY <1>2 DEF WindowTypes, Tracking
<1>5. FormsHaveThreads'
  BY <1>3 DEF FormsHaveThreads
<1>. QED  BY <1>4, <1>5

\* The threads are as before.
LEMMA SameThreads ==
    ASSUME WindowTypes, FormsHaveThreads, NEW w \in Windows, NEW new \in Tracking, Set(w, new),
           new.request = win[w].request, UNCHANGED <<job, autostart>>
    PROVE  WindowTypes' /\ FormsHaveThreads'
<1>1. job' \in [Windows \X Jobs -> Threads] /\ autostart' \in BOOLEAN
  BY DEF WindowTypes
<1>. QED  BY <1>1, OneWindow DEF FormsHaveThreads

\* One thread of this window begins or ends.
LEMMA OneThread ==
    ASSUME WindowTypes, NEW w \in Windows, NEW j \in Jobs, NEW thread \in Threads,
           job' = [job EXCEPT ![<<w, j>>] = thread]
    PROVE  /\ job' \in [Windows \X Jobs -> Threads]
           /\ job'[<<w, j>>] = thread
           /\ \A v \in Windows, k \in Jobs : v # w \/ k # j => job'[<<v, k>>] = job[<<v, k>>]
<1>1. <<w, j>> \in Windows \X Jobs /\ job \in [Windows \X Jobs -> Threads]
  BY DEF WindowTypes
<1>2. \A v \in Windows, k \in Jobs : <<v, k>> \in Windows \X Jobs
  OBVIOUS
<1>3. \A v \in Windows, k \in Jobs : v # w \/ k # j => <<v, k>> # <<w, j>>
  OBVIOUS
<1>. QED  BY <1>1, <1>2, <1>3

LEMMA ThreadKinds ==
    /\ NoJob \in Threads /\ [kind |-> "load"] \in Threads /\ [kind |-> "autostart"] \in Threads
    /\ \A a \in BOOLEAN, b \in BOOLEAN :
         [kind |-> "save", autostart |-> a, change |-> b] \in Threads
BY DEF Threads, NoJob

\* What a step of a window or of the tray leaves to the daemon.
DaemonSees ==
    /\ UNCHANGED <<file, durable, up, memory, published, gate, call, redetect, desktop,
                   edition>>
    /\ ops' \in 0..MaxOps
    /\ bus' \in Seq(Requests) /\ reply' \in [Callers -> Replies]
    /\ Senders(bus) \subseteq Senders(bus')
    /\ \A t \in Callers : reply'[t].status = "waiting" =>
         \/ reply[t].status = "waiting"
         \/ up /\ t \in Senders(bus')
    /\ ~up => bus' = bus

LEMMA WithoutCall ==
    ASSUME DaemonTypes, UNCHANGED <<file, durable, up, memory, published, gate, bus, call, reply,
                        redetect, desktop, edition>>, ops' \in 0..MaxOps
    PROVE  DaemonSees
BY DEF DaemonTypes, DaemonSees

LEMMA SpentOps ==
    ASSUME DaemonTypes, ops > 0
    PROVE  ops - 1 \in 0..MaxOps
BY CommitAssumption DEF DaemonTypes

LEMMA SentBy ==
    ASSUME SpellingsAreExact, DaemonTypes,
           NEW c \in Callers, NEW kind \in {"get", "update", "toggle"},
           NEW ch \in SUBSET Fields, NEW s \in Settings, NEW touched \in SUBSET Fields,
           kind = "update" => ch \subseteq touched,
           kind = "toggle" => touched = {"enabled"},
           "layout" \in ch => s.layout.source = "manual",
           Send(c, kind, [changed |-> ch, values |-> s], touched),
           UNCHANGED <<file, durable, up, memory, published, gate, call, redetect, desktop,
                       edition>>,
           ops' \in 0..MaxOps
    PROVE  DaemonSees
<1>1. bus \in Seq(Requests) /\ reply \in [Callers -> Replies]
  BY DEF DaemonTypes
<1>2. /\ bus' \in Seq(Requests) /\ reply' \in [Callers -> Replies]
      /\ Senders(bus) \subseteq Senders(bus')
      /\ \A t \in Callers : reply'[t].status = "waiting" =>
           \/ reply[t].status = "waiting"
           \/ up /\ t \in Senders(bus')
      /\ ~up => bus' = bus
  BY <1>1, Sent
<1>. QED  BY <1>2 DEF DaemonSees

LEMMA Presenting ==
    ASSUME SpellingsAreExact, DaemonTypes, WindowTypes, FormsHaveThreads, NEW w \in Windows,
           Present(w)
    PROVE  DaemonSees /\ WindowTypes' /\ FormsHaveThreads'
<1>1. win[w] \in Tracking
  BY DEF WindowTypes, Tracking
<1>2. ops' \in 0..MaxOps
  BY SpentOps DEF Present
<1>3. CASE win[w].request = "saving" /\ Set(w, [win[w] EXCEPT !.visible = TRUE])
           /\ UNCHANGED <<job, bus, reply>>
  <2>1. DaemonSees
    BY <1>2, <1>3, WithoutCall DEF Present
  <2>2. UNCHANGED autostart
    BY DEF Present
  <2>. QED  BY <1>1, <1>3, <2>1, <2>2, Requesting, SameThreads
<1>4. ASSUME NEW j \in Jobs,
             job' = [job EXCEPT ![<<w, j>>] = [kind |-> "load"]],
             Send(<<w, j>>, "get", NoPatch, {}),
             Set(w, [win[w] EXCEPT !.visible = TRUE, !.request = "loading"])
      PROVE  DaemonSees /\ WindowTypes' /\ FormsHaveThreads'
  <2>1. <<w, j>> \in Callers
    BY WindowsAssumption
  <2>2. DaemonSees
    <3>1. DefaultSettings \in Settings
      BY DefaultsAreValid DEF ValidSettings
    <3>2. NoPatch = [changed |-> {}, values |-> DefaultSettings]
      BY DEF NoPatch
    <3>3. UNCHANGED <<file, durable, up, memory, published, gate, call, redetect, desktop,
                      edition>>
      BY DEF Present
    <3>4. Send(<<w, j>>, "get", [changed |-> {}, values |-> DefaultSettings], {})
      BY <1>4, <3>2
    <3>. QED  BY <1>2, <2>1, <3>1, <3>3, <3>4, SentBy
  <2>3. [win[w] EXCEPT !.visible = TRUE, !.request = "loading"] \in Tracking
        /\ [win[w] EXCEPT !.visible = TRUE, !.request = "loading"].request = "loading"
    BY <1>1, Requesting
  <2>4. autostart' \in BOOLEAN
    BY DEF Present, WindowTypes
  <2>5. /\ job' \in [Windows \X Jobs -> Threads]
        /\ job'[<<w, j>>] = [kind |-> "load"]
        /\ \A v \in Windows, k \in Jobs : v # w \/ k # j => job'[<<v, k>>] = job[<<v, k>>]
    BY <1>4, ThreadKinds, OneThread
  <2>6. job'[<<w, j>>].kind = "load"
    BY <2>5
  <2>7. WindowTypes' /\ FormsHaveThreads'
    BY <1>4, <2>3, <2>4, <2>5, <2>6, OneWindow
  <2>. QED  BY <2>2, <2>7
<1>. QED  BY <1>3, <1>4 DEF Present

LEMMA AnswerIsSettings ==
    ASSUME SpellingsAreExact, DaemonTypes, NEW t \in Callers, reply[t].status = "ok"
    PROVE  Deserialized(reply[t].settings) \in Settings
<1>1. reply[t] \in Replies
  BY DEF DaemonTypes
<1>2. reply[t].settings \in Forms
  BY <1>1 DEF Replies
<1>. QED  BY <1>2, ReadingIsSettings

LEMMA FinishingLoad ==
    ASSUME SpellingsAreExact, DaemonTypes, WindowTypes, FormsHaveThreads,
           NEW w \in Windows, NEW j \in Jobs, FinishLoad(w, j)
    PROVE  DaemonSees /\ WindowTypes' /\ FormsHaveThreads'
<1>. DEFINE t == <<w, j>>
<1>1. win[w] \in Tracking /\ t \in Callers
  BY WindowsAssumption DEF WindowTypes, Tracking
<1>2. DaemonSees
  BY WithoutCall DEF FinishLoad, commitVars, DaemonTypes
<1>3. autostart' \in BOOLEAN
  BY DEF FinishLoad, WindowTypes
<1>4. ASSUME NEW new \in Tracking, new.request = "idle", Set(w, new), NEW thread \in Threads,
             job' = [job EXCEPT ![t] = thread]
      PROVE  WindowTypes' /\ FormsHaveThreads'
  <2>1. /\ job' \in [Windows \X Jobs -> Threads]
        /\ \A v \in Windows, k \in Jobs : v # w \/ k # j => job'[<<v, k>>] = job[<<v, k>>]
    BY <1>4, OneThread
  <2>. QED  BY <1>3, <1>4, <2>1, OneWindow
<1>5. CASE reply[t].status = "ok" /\ Set(w, Taken(win[w], Deserialized(reply[t].settings)))
           /\ job' = [job EXCEPT ![t] = [kind |-> "autostart"]]
  BY <1>1, <1>2, <1>4, <1>5, AnswerIsSettings, Taking, ThreadKinds
<1>6. CASE Set(w, [win[w] EXCEPT !.request = "idle"]) /\ Done(t)
  <2>1. job' = [job EXCEPT ![t] = NoJob]
    BY <1>6 DEF Done
  <2>. QED  BY <1>1, <1>2, <1>4, <1>6, <2>1, Requesting, ThreadKinds
<1>. QED  BY <1>5, <1>6 DEF FinishLoad

LEMMA FinishingAutostart ==
    ASSUME DaemonTypes, WindowTypes, FormsHaveThreads,
           NEW w \in Windows, NEW j \in Jobs, FinishAutostart(w, j)
    PROVE  DaemonSees /\ WindowTypes' /\ FormsHaveThreads'
<1>. DEFINE new == [win[w] EXCEPT !.auto = autostart,
                                  !.baseAuto = IF autostart THEN "on" ELSE "off"]
<1>1. win[w] \in Tracking
  BY DEF WindowTypes, Tracking
<1>2. DaemonSees
  BY WithoutCall DEF FinishAutostart, commitVars, DaemonTypes
<1>3. autostart \in BOOLEAN /\ UNCHANGED autostart
  BY DEF FinishAutostart, WindowTypes
<1>4. new \in Tracking /\ new.request = win[w].request
  BY <1>1, <1>3, AutoSet
<1>5. Set(w, new)
  BY DEF FinishAutostart
<1>. HIDE DEF new
<1>6. job' = [job EXCEPT ![<<w, j>>] = NoJob] /\ job[<<w, j>>].kind = "autostart"
  BY DEF FinishAutostart, Done
<1>7. /\ job' \in [Windows \X Jobs -> Threads]
      /\ \A v \in Windows, k \in Jobs : v # w \/ k # j => job'[<<v, k>>] = job[<<v, k>>]
  BY <1>6, ThreadKinds, OneThread
<1>8. /\ new.request = "saving" => \E k \in Jobs : job'[<<w, k>>].kind = "save"
      /\ new.request = "loading" => \E k \in Jobs : job'[<<w, k>>].kind = "load"
  <2>1. \A k \in Jobs, kind \in {"save", "load"} :
          job[<<w, k>>].kind = kind => job'[<<w, k>>].kind = kind
    BY <1>6, <1>7
  <2>. QED  BY <1>4, <2>1 DEF FormsHaveThreads
<1>. QED  BY <1>2, <1>3, <1>4, <1>5, <1>7, <1>8, OneWindow

LEMMA ClosingWindow ==
    ASSUME DaemonTypes, WindowTypes, FormsHaveThreads, NEW w \in Windows, Close(w)
    PROVE  DaemonSees /\ WindowTypes' /\ FormsHaveThreads'
<1>. DEFINE a == IF win[w].baseAuto = "unknown" THEN win[w].auto ELSE win[w].baseAuto = "on"
            new == [win[w] EXCEPT !.visible = FALSE, !.draft = win[w].base, !.touched = {},
                                  !.override = FALSE, !.auto = a]
<1>1. win[w] \in Tracking
  BY DEF WindowTypes, Tracking
<1>2. DaemonSees
  BY WithoutCall DEF Close, commitVars, DaemonTypes
<1>3. a \in BOOLEAN
  BY <1>1 DEF Tracking, WindowStates
<1>4. Set(w, new)
  BY DEF Close
<1>. HIDE DEF a
<1>5. new \in Tracking /\ new.request = win[w].request
  BY <1>1, <1>3, Closing
<1>6. UNCHANGED <<job, autostart>>
  BY DEF Close
<1>. QED  BY <1>2, <1>4, <1>5, <1>6, SameThreads

LEMMA Editing ==
    ASSUME DaemonTypes, WindowTypes, FormsHaveThreads, NEW w \in Windows, Edit(w)
    PROVE  DaemonSees /\ WindowTypes' /\ FormsHaveThreads'
<1>1. win[w] \in Tracking /\ win[w].draft \in Settings
  BY DEF WindowTypes, Tracking, WindowStates
<1>2. DaemonSees
  BY SpentOps, WithoutCall DEF Edit
<1>3. UNCHANGED <<job, autostart>>
  BY DEF Edit
<1>4. SUFFICES \E new \in Tracking : Set(w, new) /\ new.request = win[w].request
  BY <1>2, <1>3, SameThreads
<1>5. ASSUME NEW f \in Fields, NEW v, NEW d \in Settings,
             d = [win[w].draft EXCEPT ![f] = v]
      PROVE  /\ f # "layout" => Edited(w, f, v) \in Tracking
             /\ f = "layout" => [Edited(w, f, v) EXCEPT !.override = TRUE] \in Tracking
             /\ Edited(w, f, v).request = win[w].request
             /\ [Edited(w, f, v) EXCEPT !.override = TRUE].request = win[w].request
  <2>1. \A g \in Fields \ {f} : d[g] = win[w].draft[g]
    BY <1>1, <1>5, SettingsFields
  <2>. DEFINE r == [win[w] EXCEPT !.draft = d, !.touched = win[w].touched \cup {f}]
  <2>2. Edited(w, f, v) = r
    BY <1>5 DEF Edited
  <2>3. /\ f # "layout" => r \in Tracking
        /\ f = "layout" => [r EXCEPT !.override = TRUE] \in Tracking
        /\ r.request = win[w].request
        /\ [r EXCEPT !.override = TRUE].request = win[w].request
    BY <1>1, <2>1, Drafting
  <2>. HIDE DEF r
  <2>. QED  BY <2>2, <2>3
<1>6. CASE EditSwitch(w)
  <2>1. CASE Set(w, Edited(w, "enabled", ~win[w].draft.enabled))
    <3>. DEFINE b == ~win[w].draft.enabled
                d == [win[w].draft EXCEPT !["enabled"] = b]
    <3>1. b \in BOOLEAN
      OBVIOUS
    <3>2. Set(w, Edited(w, "enabled", b))
      BY <2>1
    <3>. HIDE DEF b
    <3>3. d \in Settings
      BY <1>1, <3>1 DEF Settings
    <3>4. "enabled" \in Fields
      BY DEF Fields
    <3>5. Edited(w, "enabled", b) \in Tracking
          /\ Edited(w, "enabled", b).request = win[w].request
      BY <1>5, <3>3, <3>4
    <3>. QED  BY <3>2, <3>5
  <2>2. CASE Set(w, [win[w] EXCEPT !.auto = ~win[w].auto])
    <3>. DEFINE a == ~win[w].auto
    <3>1. a \in BOOLEAN
      OBVIOUS
    <3>2. Set(w, [win[w] EXCEPT !.auto = a])
      BY <2>2
    <3>. HIDE DEF a
    <3>. QED  BY <1>1, <3>1, <3>2, AutoSet
  <2>. QED  BY <1>6, <2>1, <2>2 DEF EditSwitch
<1>7. CASE EditHotkey(w)
  <2>1. PICK f \in {"manual", "selected"}, h \in Hotkeys : Set(w, Edited(w, f, h))
    BY <1>7 DEF EditHotkey
  <2>2. [win[w].draft EXCEPT ![f] = h] \in Settings /\ f \in Fields /\ f # "layout"
    BY <1>1 DEF Settings, Fields
  <2>. QED  BY <1>5, <2>1, <2>2
<1>8. CASE Unlock(w)
  <2>1. Set(w, [win[w] EXCEPT !.override = TRUE, !.touched = win[w].touched \cup {"layout"}])
    BY <1>8 DEF Unlock
  <2>. QED  BY <1>1, <2>1, Unlocking
<1>9. CASE EditLayout(w)
  <2>1. PICK c \in Captured \cup {win[w].draft.layout.combo} :
           Set(w, [Edited(w, "layout", [win[w].draft.layout EXCEPT !.combo = c])
                     EXCEPT !.override = TRUE])
    BY <1>9 DEF EditLayout
  <2>. DEFINE l == [win[w].draft.layout EXCEPT !.combo = c]
  <2>2. l \in LayoutSettings
    BY <1>1, SettingsFields, WindowsAssumption DEF LayoutSettings
  <2>. HIDE DEF l
  <2>3. [win[w].draft EXCEPT !["layout"] = l] \in Settings /\ "layout" \in Fields
    BY <1>1, <2>2 DEF Settings, Fields
  <2>4. /\ [Edited(w, "layout", l) EXCEPT !.override = TRUE] \in Tracking
        /\ [Edited(w, "layout", l) EXCEPT !.override = TRUE].request = win[w].request
    BY <1>5, <2>3
  <2>. QED  BY <2>1, <2>4 DEF l
<1>. QED  BY <1>6, <1>7, <1>8, <1>9 DEF Edit

\* What a window sends: what was touched, and a combination only by hand.
LEMMA SavedSettings ==
    ASSUME WindowTypes, NEW w \in Windows
    PROVE  LET patch == Between(win[w].base, SettingsForSave(w)) IN
           /\ SettingsForSave(w) \in Settings
           /\ patch = [changed |-> patch.changed, values |-> SettingsForSave(w)]
           /\ patch.changed \subseteq Fields /\ patch.changed \subseteq win[w].touched
           /\ "layout" \in patch.changed => SettingsForSave(w).layout.source = "manual"
<1>. DEFINE s == win[w]
            by == [s.draft.layout EXCEPT !.source = "manual"]
            d == [s.draft EXCEPT !.layout = by]
<1>1. s \in Tracking /\ s.draft \in Settings /\ s.base \in Settings
  BY DEF WindowTypes, Tracking, WindowStates
<1>2. by \in LayoutSettings /\ by.source = "manual"
  BY <1>1, SettingsFields DEF LayoutSettings
<1>3. SettingsForSave(w) = IF s.override THEN d ELSE s.draft
  BY DEF SettingsForSave
<1>. HIDE DEF by
<1>4. d \in Settings /\ d.layout = by /\ \A f \in Fields \ {"layout"} : d[f] = s.draft[f]
  BY <1>1, <1>2 DEF Settings, Fields
<1>. HIDE DEF d
<1>5. SettingsForSave(w) \in Settings
  BY <1>1, <1>3, <1>4
<1>6. \A f \in Fields : s.base[f] # SettingsForSave(w)[f] => f \in s.touched
  BY <1>1, <1>3, <1>4 DEF Tracking, Tracked
<1>7. s.base["layout"] # SettingsForSave(w)["layout"] => SettingsForSave(w).layout.source = "manual"
  BY <1>1, <1>2, <1>3, <1>4 DEF Tracking, Tracked
<1>. HIDE DEF s
<1>8. Between(win[w].base, SettingsForSave(w)) =
        [changed |-> {f \in Fields : s.base[f] # SettingsForSave(w)[f]},
         values |-> SettingsForSave(w)]
  BY DEF Between, s
<1>. QED  BY <1>5, <1>6, <1>7, <1>8 DEF s

LEMMA Saving ==
    ASSUME SpellingsAreExact, DaemonTypes, WindowTypes, FormsHaveThreads, NEW w \in Windows,
           Save(w)
    PROVE  DaemonSees /\ WindowTypes' /\ FormsHaveThreads'
<1>. DEFINE patch == Between(win[w].base, SettingsForSave(w))
            a == IF AutostartDirty(w) THEN win[w].auto ELSE autostart
            b == AutostartDirty(w)
            new == [win[w] EXCEPT !.request = "saving"]
            thread == [kind |-> "save", autostart |-> a, change |-> b]
<1>1. win[w] \in Tracking
  BY DEF WindowTypes, Tracking
<1>2. a \in BOOLEAN /\ b \in BOOLEAN
  BY <1>1 DEF WindowTypes, Tracking, WindowStates, AutostartDirty
<1>3. PICK j \in Jobs : /\ Send(<<w, j>>, "update", patch, win[w].touched)
                        /\ job' = [job EXCEPT ![<<w, j>>] = thread]
  BY DEF Save
<1>4. Set(w, new) /\ autostart' = autostart
  BY DEF Save
<1>. HIDE DEF a, b
<1>5. thread \in Threads /\ thread.kind = "save"
  BY <1>2, ThreadKinds
<1>. HIDE DEF thread
<1>6. <<w, j>> \in Callers
  BY WindowsAssumption
<1>7. DaemonSees
  <2>1. Send(<<w, j>>, "update", [changed |-> patch.changed, values |-> SettingsForSave(w)],
             win[w].touched)
    BY <1>3, SavedSettings
  <2>2. UNCHANGED <<file, durable, up, memory, published, gate, call, redetect, desktop,
                    edition>> /\ ops' \in 0..MaxOps
    BY DEF Save, DaemonTypes
  <2>3. /\ SettingsForSave(w) \in Settings
        /\ patch.changed \in SUBSET Fields /\ patch.changed \subseteq win[w].touched
        /\ "layout" \in patch.changed => SettingsForSave(w).layout.source = "manual"
    BY SavedSettings
  <2>4. win[w].touched \in SUBSET Fields
    BY <1>1 DEF Tracking, WindowStates
  <2>. HIDE DEF patch
  <2>. QED  BY <1>6, <2>1, <2>2, <2>3, <2>4, SentBy
<1>8. new \in Tracking /\ new.request = "saving"
  BY <1>1, Requesting
<1>. HIDE DEF new
<1>9. /\ job' \in [Windows \X Jobs -> Threads]
      /\ job'[<<w, j>>] = thread
      /\ \A v \in Windows, k \in Jobs : v # w \/ k # j => job'[<<v, k>>] = job[<<v, k>>]
  BY <1>3, <1>5, OneThread
<1>10. autostart' \in BOOLEAN
  BY <1>4 DEF WindowTypes
<1>11. WindowTypes' /\ FormsHaveThreads'
  BY <1>4, <1>5, <1>8, <1>9, <1>10, OneWindow
<1>. QED  BY <1>7, <1>11

LEMMA FinishingSave ==
    ASSUME SpellingsAreExact, DaemonTypes, WindowTypes, FormsHaveThreads,
           NEW w \in Windows, NEW j \in Jobs, FinishSave(w, j)
    PROVE  DaemonSees /\ WindowTypes' /\ FormsHaveThreads'
<1>. DEFINE t == <<w, j>>
<1>1. win[w] \in Tracking /\ t \in Callers /\ t \in Windows \X Jobs
  BY WindowsAssumption DEF WindowTypes, Tracking
<1>2. job[t].kind = "save" /\ job[t] \in Threads
  BY <1>1 DEF FinishSave, WindowTypes
<1>3. job[t].autostart \in BOOLEAN /\ job[t].change \in BOOLEAN
  BY <1>2 DEF Threads
<1>4. ops' \in 0..MaxOps
  <2>1. ops' = ops \/ (ops > 0 /\ ops' = ops - 1)
    BY DEF FinishSave
  <2>. QED  BY <2>1, SpentOps DEF DaemonTypes
<1>5. DaemonSees
  BY <1>4, WithoutCall DEF FinishSave
<1>6. autostart' \in BOOLEAN
  BY <1>3 DEF FinishSave, WindowTypes
<1>7. job' = [job EXCEPT ![t] = NoJob]
  BY DEF FinishSave, Done
<1>8. /\ job' \in [Windows \X Jobs -> Threads]
      /\ \A v \in Windows, k \in Jobs : v # w \/ k # j => job'[<<v, k>>] = job[<<v, k>>]
  BY <1>7, ThreadKinds, OneThread
<1>9. SUFFICES \E new \in Tracking : Set(w, new) /\ new.request = "idle"
  BY <1>5, <1>6, <1>8, OneWindow
<1>10. CASE Set(w, [win[w] EXCEPT !.request = "idle"])
  <2>1. TRUE \in BOOLEAN /\ "idle" \in {"idle", "loading", "saving"}
    OBVIOUS
  <2>2. /\ [win[w] EXCEPT !.request = "idle"] \in Tracking
        /\ [win[w] EXCEPT !.request = "idle"].request = "idle"
    BY <1>1, <2>1, Requesting
  <2>. QED  BY <1>10, <2>2
<1>11. CASE reply[t].status = "ok"
  <2>. DEFINE taken == Taken(win[w], Deserialized(reply[t].settings))
              a == IF job[t].change THEN autostart' ELSE taken.auto
              b == IF ~job[t].change THEN taken.baseAuto
                   ELSE IF autostart' THEN "on" ELSE "off"
  <2>1. taken \in Tracking /\ taken.request = "idle"
    BY <1>1, <1>11, AnswerIsSettings, Taking
  <2>2. Set(w, [taken EXCEPT !.auto = a, !.baseAuto = b]) \/ Set(w, [win[w] EXCEPT !.request = "idle"])
    BY <1>11 DEF FinishSave
  <2>. HIDE DEF taken
  <2>3. a \in BOOLEAN /\ b \in {"unknown", "off", "on"}
    BY <1>6, <2>1 DEF Tracking, WindowStates
  <2>. HIDE DEF a, b
  <2>4. /\ [taken EXCEPT !.auto = a, !.baseAuto = b] \in Tracking
        /\ [taken EXCEPT !.auto = a, !.baseAuto = b].request = "idle"
    BY <2>1, <2>3, AutoSet
  <2>. QED  BY <1>10, <2>2, <2>4
<1>. QED  BY <1>10, <1>11 DEF FinishSave

LEMMA Toggling ==
    ASSUME SpellingsAreExact, DaemonTypes, WindowTypes, FormsHaveThreads, TrayToggle
    PROVE  DaemonSees /\ WindowTypes' /\ FormsHaveThreads'
<1>1. Send(Tray, "toggle", [changed |-> {}, values |-> DefaultSettings], {"enabled"})
  BY DEF TrayToggle, NoPatch
<1>2. DefaultSettings \in Settings /\ Tray \in Callers /\ {"enabled"} \in SUBSET Fields
  BY DefaultsAreValid, WindowsAssumption DEF ValidSettings, Fields
<1>3. UNCHANGED <<file, durable, up, memory, published, gate, call, redetect, desktop,
                  edition>> /\ ops' \in 0..MaxOps
  BY SpentOps DEF TrayToggle
<1>4. DaemonSees
  BY <1>1, <1>2, <1>3, SentBy
<1>5. UNCHANGED windowVars
  BY DEF TrayToggle
<1>. QED  BY <1>4, <1>5 DEF windowVars, WindowTypes, FormsHaveThreads

LEMMA WindowStep ==
    ASSUME SpellingsAreExact, DaemonTypes, WindowTypes, FormsHaveThreads,
           (\E w \in Windows : WindowNext(w)) \/ TrayToggle
    PROVE  DaemonSees /\ WindowTypes' /\ FormsHaveThreads'
BY Presenting, Editing, Saving, ClosingWindow, FinishingLoad, FinishingAutostart, FinishingSave,
   Toggling DEF WindowNext

(***************************************************************************)
(* The steps of the daemon.  Each of them keeps the windows and their      *)
(* threads, and DaemonInv is what it has to preserve.                      *)
(***************************************************************************)
DaemonInv ==
    /\ DaemonTypes /\ CallInOrder /\ DetectionInOrder /\ GateIsHeld
    /\ InStep /\ PromisesAreKept /\ WaitersAreServed

LEMMA SeenStep ==
    ASSUME DaemonInv, DaemonSees
    PROVE  DaemonInv'
<1>. USE DEF DaemonInv, DaemonSees
<1>1. DaemonTypes'
  BY DEF DaemonTypes
<1>2. CallInOrder' /\ DetectionInOrder'
  BY DEF CallInOrder, DetectionInOrder, Kept
<1>3. GateIsHeld'
  BY DEF GateIsHeld
<1>4. InStep' /\ PromisesAreKept'
  BY DEF InStep, PromisesAreKept, AgreesWithFile
<1>5. WaitersAreServed'
  BY DEF WaitersAreServed, Pending, Senders
<1>. QED  BY <1>1, <1>2, <1>3, <1>4, <1>5

LEMMA RequestFields ==
    ASSUME NEW r \in Requests
    PROVE  /\ r.from \in Callers /\ r.touched \subseteq Fields
           /\ r.patch.changed \subseteq Fields /\ r.patch.values \in Forms
           /\ r.kind \in {"get", "update", "toggle"}
           /\ r.patch = [changed |-> r.patch.changed, values |-> r.patch.values]
           /\ Asked(r)
BY DEF Requests

LEMMA AnsweringGet ==
    ASSUME DaemonInv, GetSettings
    PROVE  DaemonInv'
<1>. USE DEF DaemonInv, GetSettings
<1>1. /\ Head(bus) \in Requests /\ Tail(bus) \in Seq(Requests)
      /\ Senders(bus) \subseteq {Head(bus).from} \cup Senders(Tail(bus))
  BY SendersOf DEF DaemonTypes
<1>2. Head(bus).from \in Callers
  BY <1>1, RequestFields
<1>. DEFINE answer == [status |-> "ok", settings |-> Serialized(memory)]
<1>3. answer \in Replies /\ answer.status = "ok"
  <2>1. Serialized(memory) \in Forms
    BY DEF DaemonTypes, Kept, ValidSettings, Forms
  <2>. QED  BY <2>1 DEF Replies
<1>4. reply' = [reply EXCEPT ![Head(bus).from] = answer]
  OBVIOUS
<1>. HIDE DEF answer
<1>5. DaemonTypes'
  BY <1>1, <1>2, <1>3, <1>4 DEF DaemonTypes
<1>6. CallInOrder' /\ DetectionInOrder' /\ GateIsHeld'
  BY DEF CallInOrder, DetectionInOrder, GateIsHeld, Kept
<1>7. InStep' /\ PromisesAreKept'
  BY DEF InStep, PromisesAreKept, AgreesWithFile
<1>8. WaitersAreServed'
  <2>1. \A t \in Callers : reply'[t].status = "waiting" =>
          t # Head(bus).from /\ reply[t].status = "waiting"
    BY <1>2, <1>3, <1>4 DEF DaemonTypes
  <2>2. Senders(bus) \subseteq {Head(bus).from} \cup Senders(bus')
    BY <1>1
  <2>. QED  BY <2>1, <2>2 DEF WaitersAreServed, Pending, Senders
<1>. QED  BY <1>5, <1>6, <1>7, <1>8

LEMMA Beginning ==
    ASSUME DaemonInv, BeginCall
    PROVE  DaemonInv'
<1>. USE DEF DaemonInv, BeginCall
<1>1. /\ Head(bus) \in Requests /\ Tail(bus) \in Seq(Requests)
      /\ Senders(bus) \subseteq {Head(bus).from} \cup Senders(Tail(bus))
  BY SendersOf DEF DaemonTypes
<1>2. call'.step = "merge" /\ call'.request = Head(bus) /\ Head(bus).kind # "get"
  OBVIOUS
<1>3. DaemonTypes'
  BY <1>1 DEF DaemonTypes
<1>4. CallInOrder' /\ DetectionInOrder' /\ GateIsHeld'
  BY <1>1, <1>2 DEF CallInOrder, DetectionInOrder, GateIsHeld, Kept, Working
<1>5. InStep' /\ PromisesAreKept'
  BY <1>2 DEF InStep, PromisesAreKept, AgreesWithFile
<1>6. WaitersAreServed'
  BY <1>1, <1>2 DEF WaitersAreServed, Pending, Senders
<1>. QED  BY <1>3, <1>4, <1>5, <1>6

\* The settings a request asks for: they differ from those in memory only in
\* what its user touched, and in the combination only by hand.
LEMMA MergedSettings ==
    ASSUME SpellingsAreExact, memory \in Kept, call.request \in Requests, call.request.kind # "get"
    PROVE  LET merged == Merge(RequestedPatch, memory) IN
           /\ merged \in Settings /\ FoundSomewhere(merged.layout)
           /\ \A f \in Fields : merged[f] # memory[f] => f \in call.request.touched
<1>. DEFINE r == call.request  merged == Merge(RequestedPatch, memory)
<1>1. memory \in ValidSettings /\ memory \in Settings /\ FoundSomewhere(memory.layout)
  BY DEF Kept, ValidSettings
<1>2. SUFFICES ASSUME NEW p, p = RequestedPatch
               PROVE  /\ p.values \in Settings
                      /\ \A f \in Fields : f \in p.changed /\ p.values[f] # memory[f] => f \in r.touched
                      /\ "layout" \in p.changed =>
                           p.values.layout.source = "manual" \/ p.values.layout = memory.layout
  <2>1. /\ RequestedPatch.values \in Settings
        /\ \A f \in Fields : f \in RequestedPatch.changed /\ RequestedPatch.values[f] # memory[f]
             => f \in r.touched
        /\ "layout" \in RequestedPatch.changed =>
             \/ RequestedPatch.values.layout.source = "manual"
             \/ RequestedPatch.values.layout = memory.layout
    BY <1>2
  <2>2. /\ merged \in Settings
        /\ \A f \in Fields : merged[f] = IF f \in RequestedPatch.changed
                                         THEN RequestedPatch.values[f] ELSE memory[f]
    BY <1>1, <2>1, MergeSettings
  <2>3. merged["layout"] = memory["layout"] \/ merged["layout"].source = "manual"
    BY <2>1, <2>2 DEF Fields
  <2>4. FoundSomewhere(merged.layout)
    BY <1>1, <2>3 DEF FoundSomewhere
  <2>. QED  BY <2>1, <2>2, <2>4
<1>3. CASE r.kind = "toggle"
  <2>. DEFINE flipped == [memory EXCEPT !.enabled = ~memory.enabled]
  <2>1. p = [changed |-> {f \in Fields : memory[f] # flipped[f]}, values |-> flipped]
    BY <1>2, <1>3 DEF RequestedPatch, Between
  <2>2. flipped \in Settings /\ \A f \in Fields \ {"enabled"} : flipped[f] = memory[f]
    BY <1>1, SwitchFlipped
  <2>3. r.touched = {"enabled"}
    BY <1>3, RequestFields DEF Asked
  <2>. HIDE DEF flipped
  <2>4. p.values = flipped /\ "layout" \notin p.changed
    BY <2>1, <2>2 DEF Fields
  <2>. QED  BY <2>2, <2>3, <2>4
<1>4. CASE r.kind # "toggle"
  <2>1. p = [r.patch EXCEPT !.values = Deserialized(r.patch.values)]
    BY <1>2, <1>4 DEF RequestedPatch
  <2>2. r.patch = [changed |-> r.patch.changed, values |-> r.patch.values]
        /\ r.patch.values \in Forms /\ r.kind = "update" /\ Asked(r)
    BY <1>4, RequestFields
  <2>3. p.changed = r.patch.changed /\ p.values = Deserialized(r.patch.values)
    BY <2>1, <2>2
  <2>4. p.values \in Settings /\ p.values.layout.source = r.patch.values.layout.source
    BY <2>2, <2>3, ReadingIsSettings
  <2>. QED  BY <2>2, <2>3, <2>4 DEF Asked
<1>. QED  BY <1>3, <1>4

\* What stays when only the call goes on.
LEMMA OnlyCall ==
    ASSUME DaemonInv, call.step # "none", call'.request = call.request, call'.step # "none",
           UNCHANGED <<up, bus, reply>>
    PROVE  WaitersAreServed'
BY DEF DaemonInv, WaitersAreServed, Pending

LEMMA Merging ==
    ASSUME SpellingsAreExact, DaemonInv, MergePatch
    PROVE  DaemonInv'
<1>. USE DEF DaemonInv
<1>1. /\ up /\ call.step = "merge" /\ gate = "free"
      /\ UNCHANGED <<file, durable, up, memory, published, bus, reply, redetect, desktop,
                     status, edition, ops>>
  BY DEF MergePatch
<1>2. memory \in Kept /\ call.request \in Requests /\ call.request.kind # "get"
  BY <1>1 DEF DaemonTypes, CallInOrder
<1>. DEFINE merged == Merge(RequestedPatch, memory)
<1>3. /\ merged \in Settings /\ FoundSomewhere(merged.layout)
      /\ \A f \in Fields : merged[f] # memory[f] => f \in call.request.touched
  BY <1>2, MergedSettings
<1>4. CASE \E o \in {"failed", "unchanged"} : Answered(o, memory) /\ UNCHANGED gate
  <2>1. /\ call'.step = "answer" /\ call'.request = call.request
        /\ call'.settings = memory /\ call'.outcome # "durable"
    BY <1>4 DEF Answered
  <2>2. DaemonTypes'
    BY <1>1, <1>4 DEF DaemonTypes
  <2>3. CallInOrder' /\ DetectionInOrder' /\ GateIsHeld'
    BY <1>1, <1>2, <1>4, <2>1 DEF CallInOrder, DetectionInOrder, GateIsHeld, Kept, Working, NoCall
  <2>4. InStep' /\ PromisesAreKept'
    BY <1>1, <1>4, <2>1 DEF InStep, PromisesAreKept, AgreesWithFile
  <2>. QED  BY <1>1, <2>1, <2>2, <2>3, <2>4, OnlyCall
<1>5. CASE /\ Valid(merged) /\ gate' = "call"
           /\ call' = [step |-> "save", request |-> call.request,
                       before |-> call.before, settings |-> merged]
  <2>1. call'.step = "save" /\ call'.request = call.request /\ call'.settings = merged
    BY <1>5
  <2>2. merged \in Kept
    BY <1>3, <1>5 DEF Kept, ValidSettings
  <2>. HIDE DEF merged
  <2>3. DaemonTypes'
    BY <1>1, <1>5 DEF DaemonTypes
  <2>4. CallInOrder'
    BY <1>1, <1>2, <1>3, <2>1, <2>2 DEF CallInOrder, Kept, Working
  <2>5. DetectionInOrder' /\ GateIsHeld'
    BY <1>1, <1>5, <2>1 DEF DetectionInOrder, GateIsHeld, Working
  <2>6. InStep' /\ PromisesAreKept'
    BY <1>1, <1>5, <2>1 DEF InStep, PromisesAreKept, AgreesWithFile
  <2>. QED  BY <1>1, <2>1, <2>3, <2>4, <2>5, <2>6, OnlyCall
<1>. QED  BY <1>4, <1>5 DEF MergePatch

LEMMA SavingFile ==
    ASSUME SpellingsAreExact, DaemonInv, SaveFile
    PROVE  DaemonInv'
<1>. USE DEF DaemonInv
<1>1. /\ up /\ call.step = "save"
      /\ UNCHANGED <<up, memory, published, bus, reply, redetect, desktop, status>>
  BY DEF SaveFile
<1>2. /\ memory \in Kept /\ call.request \in Requests /\ call.request.kind # "get"
      /\ call.settings \in Kept /\ gate = "call" /\ redetect.step # "publish"
  BY <1>1 DEF DaemonTypes, CallInOrder, GateIsHeld, Working
<1>3. CASE \E certain \in BOOLEAN :
             /\ certain \/ ops > 0
             /\ Replace(call.settings, certain) /\ Saved(certain)
             /\ ops' = IF certain THEN ops ELSE ops - 1
             /\ UNCHANGED gate
  <2>1. PICK certain \in BOOLEAN :
          /\ certain \/ ops > 0
          /\ Replace(call.settings, certain) /\ Saved(certain)
          /\ ops' = IF certain THEN ops ELSE ops - 1
          /\ UNCHANGED gate
    BY <1>3
  <2>2. /\ call' = [step |-> "commit", request |-> call.request, before |-> call.before,
                    settings |-> call.settings, certain |-> certain]
        /\ call'.step = "commit" /\ call'.request = call.request
        /\ call'.settings = call.settings /\ call'.certain = certain
    BY <2>1 DEF Saved
  <2>3. /\ file' = ToFile(call.settings) /\ durable' \in {durable, file'}
        /\ certain => durable' = file'
    BY <2>1 DEF Replace
  <2>4. FromFile(file') = call.settings /\ FromFile(durable') \in ValidSettings
    BY <1>2, <2>3, FileReadBack DEF Kept, DaemonTypes
  <2>5. /\ edition' \in [file : Nat, durable : Nat, promised : Nat]
        /\ edition'.file = edition.file + 1 /\ edition'.promised = edition.promised
        /\ edition'.durable \in {edition.durable, edition'.file}
        /\ certain => edition'.durable = edition'.file
    <3>. DEFINE n == edition.file + 1
                d == IF durable' = file' THEN n ELSE edition.durable
    <3>1. n \in Nat /\ d \in Nat
      BY DEF DaemonTypes
    <3>2. edition' = [edition EXCEPT !.file = n, !.durable = d]
      BY <2>1 DEF Replace
    <3>3. d \in {edition.durable, n} /\ (certain => d = n)
      BY <2>3
    <3>. HIDE DEF n, d
    <3>4. /\ edition' \in [file : Nat, durable : Nat, promised : Nat]
          /\ edition'.file = n /\ edition'.durable = d /\ edition'.promised = edition.promised
      BY <3>1, <3>2 DEF DaemonTypes
    <3>. QED  BY <3>3, <3>4 DEF n
  <2>6. ops' \in 0..MaxOps
    BY <2>1, SpentOps DEF DaemonTypes
  <2>7. DaemonTypes'
    BY <1>1, <1>2, <2>1, <2>4, <2>5, <2>6 DEF DaemonTypes, Kept
  <2>8. CallInOrder'
    BY <1>1, <1>2, <2>2 DEF CallInOrder, Kept, Working
  <2>9. DetectionInOrder' /\ GateIsHeld'
    BY <1>1, <1>2, <2>1, <2>2 DEF DetectionInOrder, GateIsHeld, Working
  <2>10. InStep'
    BY <1>1, <1>2, <2>1, <2>2, <2>4 DEF InStep
  <2>11. PromisesAreKept'
    <3>1. edition \in [file : Nat, durable : Nat, promised : Nat]
      BY DEF DaemonTypes
    <3>. QED  BY <2>2, <2>5, <3>1 DEF PromisesAreKept
  <2>. QED  BY <1>1, <2>2, <2>7, <2>8, <2>9, <2>10, <2>11, OnlyCall
<1>4. CASE /\ ops > 0 /\ Answered("failed", memory) /\ gate' = "free" /\ ops' = ops - 1
           /\ UNCHANGED <<file, durable, edition>>
  <2>1. /\ call'.step = "answer" /\ call'.request = call.request
        /\ call'.settings = memory /\ call'.outcome # "durable"
    BY <1>4 DEF Answered
  <2>2. DaemonTypes'
    BY <1>1, <1>4, SpentOps DEF DaemonTypes
  <2>3. CallInOrder' /\ DetectionInOrder' /\ GateIsHeld'
    BY <1>1, <1>2, <1>4, <2>1 DEF CallInOrder, DetectionInOrder, GateIsHeld, Kept, Working, NoCall
  <2>4. InStep' /\ PromisesAreKept'
    BY <1>1, <1>2, <1>4, <2>1 DEF InStep, PromisesAreKept, AgreesWithFile
  <2>. QED  BY <1>1, <2>1, <2>2, <2>3, <2>4, OnlyCall
<1>. QED  BY <1>3, <1>4 DEF SaveFile

LEMMA Committing ==
    ASSUME DaemonInv, CommitMemory
    PROVE  DaemonInv'
<1>. USE DEF DaemonInv
<1>1. /\ up /\ call.step = "commit" /\ memory' = call.settings
      /\ UNCHANGED <<file, durable, up, published, gate, bus, reply, redetect, desktop,
                     status, edition, ops>>
  BY DEF CommitMemory
<1>2. /\ call.request \in Requests /\ call.request.kind # "get" /\ call.settings \in Kept
      /\ gate = "call"
      /\ call = [step |-> "commit", request |-> call.request, before |-> call.before,
                 settings |-> call.settings, certain |-> call.certain]
  BY <1>1 DEF CallInOrder, GateIsHeld, Working
<1>3. call' = [step |-> "publish", request |-> call.request, before |-> call.before,
               settings |-> call.settings, certain |-> call.certain]
  <2>. DEFINE r == call.request  b == call.before  x == call.settings  c == call.certain
  <2>1. call = [step |-> "commit", request |-> r, before |-> b, settings |-> x, certain |-> c]
    BY <1>2
  <2>2. call' = [call EXCEPT !.step = "publish"]
    BY DEF CommitMemory
  <2>. HIDE DEF r, b, x, c
  <2>3. QED  BY <2>1, <2>2 DEF r, b, x, c
<1>4. /\ call'.step = "publish" /\ call'.request = call.request
      /\ call'.settings = call.settings /\ call'.certain = call.certain
      /\ call' = [step |-> call'.step, request |-> call'.request, before |-> call'.before,
                  settings |-> call'.settings, certain |-> call'.certain]
  BY <1>3
<1>5. DaemonTypes'
  BY <1>1, <1>2 DEF DaemonTypes
<1>6. CallInOrder'
  BY <1>1, <1>2, <1>4 DEF CallInOrder, Kept, Working
<1>7. DetectionInOrder' /\ GateIsHeld'
  BY <1>1, <1>2, <1>4 DEF DetectionInOrder, GateIsHeld, Working
<1>8. InStep' /\ PromisesAreKept'
  BY <1>1, <1>2, <1>4 DEF InStep, PromisesAreKept
<1>. QED  BY <1>1, <1>4, <1>5, <1>6, <1>7, <1>8, OnlyCall

LEMMA Publishing ==
    ASSUME DaemonInv, PublishCall
    PROVE  DaemonInv'
<1>. USE DEF DaemonInv
<1>1. /\ up /\ call.step = "publish" /\ published' = call.settings /\ gate' = "free"
      /\ UNCHANGED <<file, durable, up, memory, bus, reply, redetect, desktop, status,
                     edition, ops>>
  BY DEF PublishCall
<1>2. /\ call.request \in Requests /\ call.request.kind # "get" /\ call.settings \in Kept
      /\ gate = "call" /\ redetect.step # "publish"
  BY <1>1 DEF CallInOrder, GateIsHeld, Working
<1>4. call'.step = "answer" /\ call'.request = call.request /\ call'.settings = call.settings
      /\ (call'.outcome = "durable" => call.certain)
  BY DEF PublishCall, Answered
<1>5. DaemonTypes'
  BY <1>1, <1>2 DEF DaemonTypes, Kept, ValidSettings
<1>6. CallInOrder'
  BY <1>1, <1>2, <1>4 DEF CallInOrder, Kept, Working
<1>7. DetectionInOrder' /\ GateIsHeld'
  BY <1>1, <1>2, <1>4 DEF DetectionInOrder, GateIsHeld, Working, NoCall
<1>8. InStep'
  BY <1>1, <1>2, <1>4 DEF InStep, AgreesWithFile
<1>9. PromisesAreKept'
  BY <1>1, <1>4 DEF PromisesAreKept
<1>. QED  BY <1>1, <1>4, <1>5, <1>6, <1>7, <1>8, <1>9, OnlyCall

LEMMA Answering ==
    ASSUME DaemonInv, AnswerCall
    PROVE  DaemonInv'
<1>. USE DEF DaemonInv
<1>1. /\ up /\ call.step = "answer" /\ call' = NoCall
      /\ UNCHANGED <<file, durable, up, memory, published, gate, bus, redetect, desktop, ops>>
  BY DEF AnswerCall
<1>2. /\ call.request \in Requests /\ call.settings \in Kept /\ call.request.from \in Callers
      /\ gate # "call"
  BY <1>1, RequestFields DEF CallInOrder, GateIsHeld, Working
<1>3. call'.step = "none"
  BY <1>1 DEF NoCall
<1>. DEFINE answer == IF call.outcome # "failed"
                      THEN [status |-> "ok", settings |-> Serialized(call.settings)]
                      ELSE [status |-> "failed"]
<1>4. answer \in Replies /\ answer.status # "waiting"
  <2>1. Serialized(call.settings) \in Forms
    BY <1>2 DEF Kept, ValidSettings, Forms
  <2>. QED  BY <2>1 DEF Replies
<1>5. reply' = [reply EXCEPT ![call.request.from] = answer]
  BY DEF AnswerCall
<1>. HIDE DEF answer
<1>6. /\ edition' \in [file : Nat, durable : Nat, promised : Nat]
      /\ edition'.file = edition.file /\ edition'.durable = edition.durable
      /\ \/ edition'.promised = edition.promised
         \/ call.outcome = "durable" /\ edition'.promised = edition.file
  <2>. DEFINE n == edition.file
  <2>1. edition \in [file : Nat, durable : Nat, promised : Nat] /\ n \in Nat
    BY DEF DaemonTypes
  <2>2. edition' = edition \/ (call.outcome = "durable" /\ edition' = [edition EXCEPT !.promised = n])
    BY DEF AnswerCall
  <2>. QED  BY <2>1, <2>2
<1>7. DaemonTypes'
  BY <1>1, <1>2, <1>4, <1>5, <1>6 DEF DaemonTypes
<1>8. CallInOrder' /\ DetectionInOrder' /\ GateIsHeld'
  BY <1>1, <1>2, <1>3 DEF CallInOrder, DetectionInOrder, GateIsHeld, Working
<1>9. InStep'
  BY <1>1, <1>3 DEF InStep, AgreesWithFile
<1>10. PromisesAreKept'
  BY <1>1, <1>3, <1>6 DEF PromisesAreKept, DaemonTypes
<1>11. WaitersAreServed'
  <2>1. \A t \in Callers : reply'[t].status = "waiting" =>
          t # call.request.from /\ reply[t].status = "waiting"
    BY <1>2, <1>4, <1>5 DEF DaemonTypes
  <2>. QED  BY <1>1, <2>1 DEF WaitersAreServed, Pending
<1>. QED  BY <1>7, <1>8, <1>9, <1>10, <1>11

(***************************************************************************)
(* The steps of the coordinator, of the desktop and of the process.        *)
(***************************************************************************)
LEMMA Redetecting ==
    ASSUME DaemonInv, RedetectCheck \/ Redetect
    PROVE  DaemonInv'
<1>. USE DEF DaemonInv
<1>1. UNCHANGED <<file, durable, up, memory, published, gate, bus, call, reply, desktop,
                  status, edition>>
  BY DEF RedetectCheck, Redetect
<1>2. up /\ redetect.step # "publish" /\ redetect'.step \in {"detect", "apply"}
      /\ (redetect'.step = "apply" => redetect'.found = DetectSwitch(desktop))
  BY DEF RedetectCheck, Redetect
<1>3. ops' \in 0..MaxOps
  BY SpentOps DEF RedetectCheck, Redetect, DaemonTypes
<1>4. DaemonTypes'
  BY <1>1, <1>3 DEF DaemonTypes
<1>5. CallInOrder' /\ DetectionInOrder'
  BY <1>1, <1>2 DEF CallInOrder, DetectionInOrder, Kept, DaemonTypes
<1>6. GateIsHeld'
  BY <1>1, <1>2 DEF GateIsHeld
<1>7. InStep'
  BY <1>1, <1>2 DEF InStep, AgreesWithFile, GateIsHeld
<1>8. PromisesAreKept'
  BY <1>1 DEF PromisesAreKept
<1>9. WaitersAreServed'
  BY <1>1 DEF WaitersAreServed, Pending
<1>. QED  BY <1>4, <1>5, <1>6, <1>7, <1>8, <1>9

LEMMA Applying ==
    ASSUME DaemonInv, ApplyDetected
    PROVE  DaemonInv'
<1>. USE DEF DaemonInv
<1>1. /\ up /\ redetect.step = "apply" /\ gate = "free"
      /\ UNCHANGED <<file, durable, up, published, bus, call, reply, desktop, status,
                     edition, ops>>
  BY DEF ApplyDetected
<1>2. call.step \notin Working
  BY <1>1 DEF GateIsHeld
<1>3. CASE redetect' = NoDetection /\ UNCHANGED <<memory, gate>>
  <2>1. redetect'.step = "idle"
    BY <1>3 DEF NoDetection
  <2>2. DaemonTypes' /\ CallInOrder' /\ DetectionInOrder' /\ GateIsHeld'
    BY <1>1, <1>3, <2>1 DEF DaemonTypes, CallInOrder, DetectionInOrder, GateIsHeld, Kept
  <2>3. InStep' /\ PromisesAreKept' /\ WaitersAreServed'
    BY <1>1, <1>3 DEF InStep, PromisesAreKept, AgreesWithFile, WaitersAreServed, Pending
  <2>. QED  BY <2>2, <2>3
<1>4. CASE /\ Redetectable(memory)
           /\ memory' = [memory EXCEPT !.layout = redetect.found]
           /\ redetect' = [step |-> "publish", settings |-> memory']
           /\ gate' = "coordinator"
  <2>1. PICK d \in Desktops : redetect.found = DetectSwitch(d)
    BY <1>1 DEF DetectionInOrder
  <2>2. redetect.found \in LayoutSettings /\ redetect.found.source \in {"detected", "fallback"}
    BY <2>1, DetectionIsKnown
  <2>3. memory \in ValidSettings
    BY DEF DaemonTypes, Kept
  <2>4. /\ memory' \in ValidSettings /\ memory'.layout = redetect.found
        /\ \A f \in Fields \ {"layout"} : memory'[f] = memory[f]
    BY <1>4, <2>2, <2>3, LayoutReplaced
  <2>5. memory' \in Kept
    BY <2>1, <2>4 DEF Kept, FoundSomewhere
  <2>6. redetect'.step = "publish" /\ redetect'.settings = memory'
    BY <1>4
  <2>7. DaemonTypes' /\ DetectionInOrder' /\ GateIsHeld'
    BY <1>1, <1>2, <1>4, <2>5, <2>6 DEF DaemonTypes, DetectionInOrder, GateIsHeld, Kept
  <2>8. CallInOrder'
    BY <1>1, <1>2 DEF CallInOrder, Kept, Working
  <2>9. InStep'
    BY <1>1, <1>2, <1>4, <2>2, <2>4, <2>6 DEF InStep, AgreesWithFile, Working
  <2>10. PromisesAreKept' /\ WaitersAreServed'
    BY <1>1 DEF PromisesAreKept, WaitersAreServed, Pending
  <2>. QED  BY <2>7, <2>8, <2>9, <2>10
<1>. QED  BY <1>3, <1>4 DEF ApplyDetected

LEMMA PublishingDetected ==
    ASSUME DaemonInv, PublishDetected
    PROVE  DaemonInv'
<1>. USE DEF DaemonInv
<1>1. /\ up /\ redetect.step = "publish" /\ published' = redetect.settings
      /\ redetect' = NoDetection
      /\ UNCHANGED <<file, durable, up, memory, bus, call, reply, desktop, status, edition, ops>>
  BY DEF PublishDetected
<1>2. gate = "coordinator" /\ gate' = "free" /\ call.step \notin Working
      /\ memory = redetect.settings /\ redetect'.step = "idle"
  BY <1>1 DEF PublishDetected, GateIsHeld, InStep, NoDetection
<1>3. DaemonTypes'
  BY <1>1, <1>2 DEF DaemonTypes, Kept, ValidSettings
<1>4. CallInOrder' /\ DetectionInOrder' /\ GateIsHeld'
  BY <1>1, <1>2 DEF CallInOrder, DetectionInOrder, GateIsHeld, Kept
<1>5. InStep'
  BY <1>1, <1>2 DEF InStep, AgreesWithFile, Working
<1>6. PromisesAreKept' /\ WaitersAreServed'
  BY <1>1 DEF PromisesAreKept, WaitersAreServed, Pending
<1>. QED  BY <1>3, <1>4, <1>5, <1>6

LEMMA ChangingDesktop ==
    ASSUME DaemonInv, ChangeDesktop
    PROVE  DaemonInv'
<1>. USE DEF DaemonInv, ChangeDesktop
<1>1. DaemonTypes'
  BY SpentOps DEF DaemonTypes
<1>2. CallInOrder' /\ DetectionInOrder' /\ GateIsHeld'
  BY DEF CallInOrder, DetectionInOrder, GateIsHeld, Kept
<1>3. InStep' /\ PromisesAreKept' /\ WaitersAreServed'
  BY DEF InStep, PromisesAreKept, AgreesWithFile, WaitersAreServed, Pending
<1>. QED  BY <1>1, <1>2, <1>3

LEMMA Stopping ==
    ASSUME DaemonInv, Crash \/ PowerFailure
    PROVE  DaemonInv'
<1>. USE DEF DaemonInv
<1>1. /\ Stop /\ ops' \in 0..MaxOps
      /\ \/ file' = file /\ edition' = edition
         \/ file' = durable /\ edition' = [edition EXCEPT !.file = edition.durable]
  <2>1. Stop
    BY DEF Crash, PowerFailure
  <2>2. ops' \in 0..MaxOps
    BY <2>1, SpentOps DEF Stop
  <2>3. UNCHANGED <<file, edition>>
        \/ (file' = durable /\ edition' = [edition EXCEPT !.file = edition.durable])
    BY DEF Crash, PowerFailure
  <2>. QED  BY <2>1, <2>2, <2>3
<1>2. /\ up' = FALSE /\ gate' = "free" /\ bus' = <<>> /\ call' = NoCall /\ call'.step = "none"
      /\ redetect' = NoDetection /\ redetect'.step = "idle"
      /\ UNCHANGED <<durable, memory, published, desktop>>
  BY <1>1 DEF Stop, NoCall, NoDetection
<1>3. /\ edition' \in [file : Nat, durable : Nat, promised : Nat]
      /\ edition'.durable = edition.durable /\ edition'.promised = edition.promised
      /\ edition'.file \in {edition.file, edition.durable}
  <2>. DEFINE n == edition.durable
  <2>1. edition \in [file : Nat, durable : Nat, promised : Nat] /\ n \in Nat
    BY DEF DaemonTypes
  <2>2. edition' = edition \/ edition' = [edition EXCEPT !.file = n]
    BY <1>1
  <2>. QED  BY <2>1, <2>2
<1>4. reply' \in [Callers -> Replies] /\ \A t \in Callers : reply'[t].status # "waiting"
  <2>1. reply' = [c \in Callers |-> IF reply[c].status = "waiting"
                                    THEN [status |-> "failed"] ELSE reply[c]]
    BY <1>1 DEF Stop
  <2>2. [status |-> "failed"] \in Replies
    BY DEF Replies
  <2>. QED  BY <2>1, <2>2 DEF DaemonTypes
<1>5. DaemonTypes'
  <2>1. FromFile(file') \in ValidSettings
    BY <1>1 DEF DaemonTypes
  <2>2. bus' \in Seq(Requests)
    BY <1>2
  <2>. QED  BY <1>1, <1>2, <1>3, <1>4, <2>1, <2>2 DEF DaemonTypes
<1>6. CallInOrder' /\ DetectionInOrder' /\ GateIsHeld'
  BY <1>2 DEF CallInOrder, DetectionInOrder, GateIsHeld, Working
<1>7. InStep' /\ PromisesAreKept' /\ WaitersAreServed'
  BY <1>2, <1>3, <1>4 DEF InStep, PromisesAreKept, WaitersAreServed, DaemonTypes
<1>. QED  BY <1>5, <1>6, <1>7

LEMMA Starting ==
    ASSUME SpellingsAreExact, DaemonInv, Start
    PROVE  DaemonInv'
<1>. USE DEF DaemonInv
<1>. DEFINE read == FromFile(file)
            detected == [read EXCEPT !.layout = DetectSwitch(desktop)]
            loaded == IF read.layout.source = "manual" THEN read ELSE detected
<1>1. /\ ~up /\ UNCHANGED <<gate, bus, call, reply, redetect, desktop, status>>
      /\ ops' = ops \/ (ops > 0 /\ ops' = ops - 1)
      /\ \/ /\ up' = TRUE /\ memory' = loaded /\ published' = loaded
            /\ \/ loaded = read /\ UNCHANGED <<file, durable, edition>>
               \/ \E certain \in BOOLEAN : Replace(loaded, certain)
         \/ UNCHANGED <<file, durable, edition, up, memory, published>>
  BY DEF Start
<1>2. call = NoCall /\ call.step = "none" /\ redetect.step = "idle"
  BY <1>1 DEF GateIsHeld, NoCall, NoDetection
<1>3. read \in ValidSettings /\ desktop \in Desktops
  BY DEF DaemonTypes
<1>4. loaded \in Kept
  <2>1. DetectSwitch(desktop) \in LayoutSettings
    BY DetectionIsKnown
  <2>2. detected \in ValidSettings /\ detected.layout = DetectSwitch(desktop)
    BY <1>3, <2>1, LayoutReplaced
  <2>. QED  BY <1>3, <2>2 DEF Kept, FoundSomewhere
<1>. HIDE DEF loaded
<1>5. loaded \in ValidSettings /\ loaded \in Settings
  BY <1>4 DEF Kept, ValidSettings
<1>6. ops' \in 0..MaxOps
  BY <1>1, SpentOps DEF DaemonTypes
<1>7. CASE UNCHANGED <<file, durable, edition, up, memory, published>>
  <2>1. DaemonTypes'
    BY <1>1, <1>6, <1>7 DEF DaemonTypes
  <2>2. CallInOrder' /\ DetectionInOrder' /\ GateIsHeld'
    BY <1>1, <1>7 DEF CallInOrder, DetectionInOrder, GateIsHeld, Working
  <2>3. InStep' /\ PromisesAreKept' /\ WaitersAreServed'
    BY <1>1, <1>7 DEF InStep, AgreesWithFile, PromisesAreKept, WaitersAreServed, Pending
  <2>. QED  BY <2>1, <2>2, <2>3
<1>8. CASE /\ up' = TRUE /\ memory' = loaded /\ published' = loaded
           /\ \/ loaded = read /\ UNCHANGED <<file, durable, edition>>
              \/ \E certain \in BOOLEAN : Replace(loaded, certain)
  <2>1. /\ FromFile(file') = loaded /\ FromFile(durable') \in ValidSettings
        /\ edition' \in [file : Nat, durable : Nat, promised : Nat]
        /\ edition'.promised <= edition'.durable /\ edition'.durable <= edition'.file
    <3>1. CASE loaded = read /\ UNCHANGED <<file, durable, edition>>
      BY <3>1 DEF DaemonTypes, PromisesAreKept
    <3>2. CASE \E certain \in BOOLEAN : Replace(loaded, certain)
      <4>1. file' = ToFile(loaded) /\ durable' \in {durable, file'}
        BY <3>2 DEF Replace
      <4>. DEFINE n == edition.file + 1
                  d == IF durable' = file' THEN n ELSE edition.durable
      <4>2. edition \in [file : Nat, durable : Nat, promised : Nat] /\ n \in Nat /\ d \in Nat
        BY DEF DaemonTypes
      <4>3. edition' = [edition EXCEPT !.file = n, !.durable = d]
        BY <3>2 DEF Replace
      <4>4. edition.promised <= d /\ d <= n
        BY <4>2 DEF PromisesAreKept
      <4>5. FromFile(file') = loaded /\ FromFile(durable') \in ValidSettings
        BY <1>5, <4>1, FileReadBack DEF DaemonTypes
      <4>. HIDE DEF n, d
      <4>6. /\ edition' \in [file : Nat, durable : Nat, promised : Nat]
            /\ edition'.file = n /\ edition'.durable = d /\ edition'.promised = edition.promised
        BY <4>2, <4>3
      <4>. QED  BY <4>4, <4>5, <4>6
    <3>. QED  BY <1>8, <3>1, <3>2
  <2>. HIDE DEF read
  <2>2. DaemonTypes'
    BY <1>1, <1>4, <1>5, <1>6, <1>8, <2>1 DEF DaemonTypes, Kept
  <2>3. CallInOrder' /\ DetectionInOrder' /\ GateIsHeld'
    BY <1>1, <1>2, <1>8 DEF CallInOrder, DetectionInOrder, GateIsHeld, Working
  <2>4. InStep'
    BY <1>1, <1>2, <1>8, <2>1 DEF InStep, AgreesWithFile, GateIsHeld
  <2>5. PromisesAreKept'
    BY <1>1, <1>2, <2>1 DEF PromisesAreKept
  <2>6. WaitersAreServed'
    BY <1>1 DEF WaitersAreServed, Pending
  <2>. QED  BY <2>2, <2>3, <2>4, <2>5, <2>6
<1>. QED  BY <1>1, <1>7, <1>8

LEMMA DaemonStep ==
    ASSUME SpellingsAreExact, DaemonInv, DaemonNext
    PROVE  DaemonInv'
BY AnsweringGet, Beginning, Merging, SavingFile, Committing, Publishing, Answering, Redetecting,
   Applying, PublishingDetected, ChangingDesktop, Stopping, Starting DEF DaemonNext

(***************************************************************************)
(* The theorems.  That every spelling is read as what it stands for is a   *)
(* fact about finitely many texts without a parameter; TLC decides it,     *)
(* and here it is a hypothesis.                                            *)
(***************************************************************************)

\* Whatever the windows, the tray, the coordinator and the desktop do and
\* wherever the process dies, the inductive invariant holds.
THEOREM Invariance == SpellingsAreExact /\ Spec => []Inv
<1>1. SpellingsAreExact /\ Init => Inv
  BY InitInv
<1>2. SpellingsAreExact /\ Inv /\ [Next]_vars => SpellingsAreExact' /\ Inv'
  <2>. SUFFICES ASSUME SpellingsAreExact, Inv, [Next]_vars PROVE Inv'
    BY DEF SpellingsAreExact
  <2>1. DaemonInv /\ DaemonTypes /\ WindowTypes /\ FormsHaveThreads
    BY DEF Inv, DaemonInv
  <2>2. CASE DaemonNext /\ UNCHANGED windowVars
    <3>1. DaemonInv'
      BY <2>1, <2>2, DaemonStep
    <3>2. WindowTypes' /\ FormsHaveThreads'
      BY <2>1, <2>2 DEF windowVars, WindowTypes, FormsHaveThreads
    <3>. QED  BY <3>1, <3>2 DEF Inv, DaemonInv
  <2>3. CASE (\E w \in Windows : WindowNext(w)) \/ TrayToggle
    <3>1. DaemonSees /\ WindowTypes' /\ FormsHaveThreads'
      BY <2>1, <2>3, WindowStep
    <3>2. DaemonInv'
      BY <2>1, <3>1, SeenStep
    <3>. QED  BY <3>1, <3>2 DEF Inv, DaemonInv
  <2>4. CASE UNCHANGED vars
    <3>1. DaemonSees
      BY <2>1, <2>4, WithoutCall DEF vars, commitVars, DaemonTypes
    <3>2. DaemonInv'
      BY <2>1, <3>1, SeenStep
    <3>3. WindowTypes' /\ FormsHaveThreads'
      BY <2>1, <2>4 DEF vars, windowVars, WindowTypes, FormsHaveThreads
    <3>. QED  BY <3>2, <3>3 DEF Inv, DaemonInv
  <2>. QED  BY <2>2, <2>3, <2>4 DEF Next
<1>. QED  BY <1>1, <1>2, PTL DEF Spec

\* The types of what the windows and the daemon hold.
THEOREM TypeCorrectness == SpellingsAreExact /\ Spec => []TypeOK
<1>1. Inv => TypeOK
  BY DEF Inv, DaemonTypes, WindowTypes, WindowStates, CallInOrder, DetectionInOrder, Working,
     Kept, ValidSettings, TypeOK
<1>. QED  BY <1>1, Invariance, PTL

\* No sequence of updates and no crash leaves two hotkeys in conflict or a
\* file that the daemon refuses (SettingsPatch::apply_to).
THEOREM ValidConfig == SpellingsAreExact /\ Spec => []ConfigIsValid
<1>1. Inv => ConfigIsValid
  <2>. SUFFICES ASSUME Inv PROVE ConfigIsValid
    OBVIOUS
  <2>1. memory \in ValidSettings /\ FromFile(file) \in ValidSettings
        /\ FromFile(durable) \in ValidSettings
    BY DEF Inv, DaemonTypes, Kept
  <2>2. Invalid \notin {FromFile(file), FromFile(durable)}
    BY <2>1, InvalidIsNoSetting DEF ValidSettings
  <2>3. Valid(memory)
    BY <2>1 DEF ValidSettings
  <2>4. ~\E h \in Hotkeys : /\ Matches(memory.manual, h.trigger, h.modifiers)
                            /\ Matches(memory.selected, h.trigger, h.modifiers)
    BY <2>3 DEF Valid, ConflictsExact, Matches
  <2>. QED  BY <2>2, <2>4 DEF ConfigIsValid
<1>. QED  BY <1>1, Invariance, PTL

\* The snapshot, memory and the file agree whenever the gate is free, and
\* what was answered as saved is durable (publish_committed_config,
\* update_settings_patch, atomic_replace).
THEOREM AnswersAreOnDisk == SpellingsAreExact /\ Spec => []AnsweredIsOnDisk
<1>1. Inv => AnsweredIsOnDisk
  BY DEF Inv, GateIsHeld, Working, InStep, AgreesWithFile, PromisesAreKept, AnsweredIsOnDisk
<1>. QED  BY <1>1, Invariance, PTL

\* A form that is locked has a thread, and the daemon knows of the call that
\* thread waits for (request_state).
THEOREM LockedForms == SpellingsAreExact /\ Spec => []LockedFormIsServed
<1>1. Inv => LockedFormIsServed
  <2>. SUFFICES ASSUME Inv, NEW w \in Windows, win[w].request # "idle"
                PROVE  \E j \in Busy(w) :
                         /\ win[w].request = "saving" => job[<<w, j>>].kind = "save"
                         /\ reply[<<w, j>>].status = "waiting" => up /\ <<w, j>> \in Pending
    BY DEF LockedFormIsServed
  <2>1. win[w].request \in {"loading", "saving"}
    BY DEF Inv, WindowTypes, WindowStates
  <2>2. PICK j \in Jobs : /\ job[<<w, j>>].kind \in {"load", "save"}
                          /\ win[w].request = "saving" => job[<<w, j>>].kind = "save"
    BY <2>1 DEF Inv, FormsHaveThreads
  <2>3. j \in Busy(w) /\ <<w, j>> \in Callers
    BY <2>2, WindowsAssumption DEF Busy
  <2>. QED  BY <2>2, <2>3 DEF Inv, WaitersAreServed
<1>. QED  BY <1>1, Invariance, PTL

\* What waits on the bus can be read, and the file holds the hotkeys of the
\* running daemon (FromStr and Display of HotkeySpec).
THEOREM ReadingBack == SpellingsAreExact /\ Spec => []TextIsReadBack
<1>1. SpellingsAreExact /\ Inv => TextIsReadBack
  <2>. SUFFICES ASSUME SpellingsAreExact, Inv PROVE TextIsReadBack
    OBVIOUS
  <2>1. \A i \in DOMAIN bus : Deserialized(bus[i].patch.values) # Invalid
    <3>1. \A i \in DOMAIN bus : bus[i] \in Requests
      BY DEF Inv, DaemonTypes
    <3>. QED  BY <3>1, RequestFields, ReadingIsSettings
  <2>2. up /\ ~Locked => FromFile(file).selected = memory.selected
    <3>1. "selected" \in Fields /\ memory["selected"] = memory.selected
          /\ FromFile(file)["selected"] = FromFile(file).selected
      BY DEF Fields
    <3>. QED  BY <3>1 DEF Inv, InStep, AgreesWithFile, Locked, CallInOrder
  <2>. QED  BY <2>1, <2>2 DEF TextIsReadBack
<1>2. SpellingsAreExact => SpellingsAreExact'
  BY DEF SpellingsAreExact
<1>. QED  BY <1>1, <1>2, Invariance, PTL

\* A combination in force that counts as detected was announced by a desktop,
\* whose layout it switches if the detector is right about each desktop
\* (apply_detected_layout_switch_runtime, ConfigService::load).
THEOREM DetectedCombos ==
    SpellingsAreExact /\ DetectorIsRight /\ Spec => []DetectedComboWorks
<1>1. DetectorIsRight /\ Inv => DetectedComboWorks
  BY DEF DetectorIsRight, DetectedComboWorks, Inv, DaemonTypes, Kept, FoundSomewhere
<1>2. DetectorIsRight => DetectorIsRight'
  BY DEF DetectorIsRight
<1>. QED  BY <1>1, <1>2, Invariance, PTL

\* Memory changes only in a field that the user of the committed request
\* touched, or by a detection that replaces no combination chosen by hand
\* (SettingsPatch::between, apply_detected_layout_switch_runtime).
THEOREM AskedChanges == SpellingsAreExact /\ Spec => OnlyAskedChanges
<1>. DEFINE Asks == \A f \in Fields : up /\ up' /\ memory'[f] # memory[f] =>
       \/ call.step = "commit" /\ f \in call.request.touched
       \/ f = "layout" /\ call.step # "commit" /\ memory.layout.source # "manual"
<1>1. Inv /\ [Next]_vars => [Asks]_vars
  <2>. SUFFICES ASSUME Inv, [Next]_vars, up, up', NEW f \in Fields, memory'[f] # memory[f]
                PROVE  \/ call.step = "commit" /\ f \in call.request.touched
                       \/ /\ f = "layout" /\ call.step # "commit"
                          /\ memory.layout.source # "manual"
    OBVIOUS
  <2>1. CommitMemory \/ ApplyDetected
    <3>1. CASE DaemonNext
      BY <3>1 DEF DaemonNext, GetSettings, BeginCall, MergePatch, SaveFile, PublishCall, AnswerCall,
         RedetectCheck, Redetect, PublishDetected, ChangeDesktop, Crash, PowerFailure, Stop, Start
    <3>2. CASE \E w \in Windows : WindowNext(w)
      BY <3>2 DEF WindowNext, Present, Edit, Save, Close, FinishLoad, FinishAutostart, FinishSave,
         commitVars
    <3>3. CASE TrayToggle \/ UNCHANGED vars
      BY <3>3 DEF TrayToggle, vars, commitVars
    <3>. QED  BY <3>1, <3>2, <3>3 DEF Next
  <2>2. CASE CommitMemory
    BY <2>2 DEF CommitMemory, Inv, CallInOrder
  <2>3. CASE ApplyDetected
    <3>1. gate = "free" /\ Redetectable(memory) /\ memory' = [memory EXCEPT !.layout = redetect.found]
      BY <2>3 DEF ApplyDetected
    <3>2. call.step # "commit"
      BY <3>1 DEF Inv, GateIsHeld, Working
    <3>3. memory \in Settings
      BY DEF Inv, DaemonTypes, Kept, ValidSettings
    <3>4. f = "layout"
      BY <3>1, <3>3, SettingsFields
    <3>. QED  BY <3>1, <3>2, <3>4 DEF Redetectable
  <2>. QED  BY <2>1, <2>2, <2>3
<1>. QED  BY <1>1, Invariance, PTL DEF Spec, OnlyAskedChanges
===============================================================================
