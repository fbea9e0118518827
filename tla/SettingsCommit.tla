---------------------------- MODULE SettingsCommit -----------------------------
(***************************************************************************)
(* The settings inside the daemon (src/src/daemon/runtime.rs,              *)
(* src/src/config.rs, src/src/config/atomic.rs, src/src/dbus/mod.rs,       *)
(* src/src/model.rs): the file, the configuration in memory, the snapshot  *)
(* the input thread reads, and the two threads that change them.  D-Bus    *)
(* executes calls one at a time; the layout coordinator replaces a         *)
(* combination it had detected itself.  settings_update_gate orders the    *)
(* two.  The process may die at every step, and the power may fail.        *)
(*                                                                         *)
(* A setting is a field: enabled stands for the switches and the delays,   *)
(* manual and selected are the two hotkeys, layout is the combination that *)
(* switches the layout with the source it comes from.                      *)
(***************************************************************************)
EXTENDS LayoutSwitchDetection, HotkeyText, FiniteSets, TLC

CONSTANTS
  Hotkeys,     \* the hotkeys a user may choose
  Callers,     \* the threads of other processes that call the daemon
  Desktops,    \* the settings the desktop may have
  MaxOps       \* bound: operations of users, failures and desktop changes


VARIABLES
  file,        \* the configuration in the file, as text
  durable,     \* the configuration a power failure leaves in the file
  up,          \* the daemon runs
  memory,      \* ConfigService::inner
  published,   \* InputRuntimeSnapshot: the configuration the input thread reads
  gate,        \* settings_update_gate
  bus,         \* the calls that wait for the daemon, in order
  call,        \* the call the daemon executes
  reply,       \* what each caller got, or "waiting"
  redetect,    \* the coordinator's detection
  desktop,     \* what the desktop is set to
  status,      \* the last StatusChanged signal
  edition,     \* history: editions of the file, of the durable file, and promised
  ops          \* operations left

commitVars == <<file, durable, up, memory, published, gate, bus, call, reply,
                redetect, desktop, status, edition, ops>>

Fields == {"enabled", "manual", "selected", "layout"}
LayoutSettings == [combo : Combos, source : {"unknown", "detected", "fallback", "manual"}]
Settings == [enabled : BOOLEAN, manual : Hotkeys, selected : Hotkeys,
             layout : LayoutSettings]

\* default_manual_correction_hotkey and default_selected_text_hotkey.
ManualHotkey == Hotkey({}, "pause")
SelectedHotkey == Hotkey({"shift"}, "pause")

ASSUME CommitAssumption ==
  /\ MaxOps \in Nat
  /\ Hotkeys \subseteq HotkeySpecs
  /\ ManualHotkey \in Hotkeys /\ SelectedHotkey \in Hotkeys

DefaultSettings == [enabled |-> TRUE, manual |-> ManualHotkey, selected |-> SelectedHotkey,
  layout |-> [combo |-> DefaultCombo, source |-> "unknown"]]

\* Settings as the file and D-Bus carry them, and read back: a form with a
\* value nobody can read is refused as a whole.
Serialized(s) ==
  [enabled |-> s.enabled, manual |-> Spelling[s.manual], selected |-> Spelling[s.selected],
   layout |-> [combo |-> ComboValue(s.layout.combo), source |-> s.layout.source]]
Deserialized(form) ==
  LET combos == {c \in Combos : ComboValue(c) = form.layout.combo}
  IN IF Invalid \in {Reading[form.manual], Reading[form.selected]} \/ combos = {} THEN Invalid
     ELSE [enabled |-> form.enabled,
           manual |-> Reading[form.manual], selected |-> Reading[form.selected],
           layout |-> [combo |-> CHOOSE c \in combos : TRUE, source |-> form.layout.source]]

--------------------------------------------------------------------------------
(***************************************************************************)
(* A patch: the fields a client changed, and its values of all of them.    *)
(***************************************************************************)
\* Mutant: a client sends everything it has.
AllFields(base, desired) == [changed |-> Fields, values |-> desired]

\* SettingsPatch::between.
Between(base, desired) ==
  [changed |-> {f \in Fields : base[f] # desired[f]}, values |-> desired]

\* SettingsPatch::apply_to, without its validation.
Merge(patch, current) ==
  [f \in Fields |-> IF f \in patch.changed THEN patch.values[f] ELSE current[f]]

\* Settings::validate and AppConfig::validate, of which the conflict of the
\* two hotkeys is the part that two clients can bring about together.
Valid(settings) == ~ConflictsExact(settings.manual, settings.selected)

\* AppConfigFile from a configuration, and the configuration from it.
ToFile(settings) == Serialized(settings)
FromFile(form) ==
  LET settings == Deserialized(form)
  IN IF settings = Invalid \/ ~Valid(settings) THEN Invalid ELSE settings

\* The file of a version that knew the old types only.
OldFile(settings) ==
  [ToFile(settings) EXCEPT !.manual = UndoKeyText("pause"),
     !.selected = SelectedTextValue([modifier |-> "shift", key |-> "pause"])]

NoPatch == [changed |-> {}, values |-> DefaultSettings]

NoCall == [step |-> "none"]
NoDetection == [step |-> "idle"]
\* The lock of ConfigService is held from the merge to the commit.
Locked == call.step \in {"save", "commit"}

\* load_or_create of a file that did not exist or that an older version
\* wrote, and the first detection.
CommitInit ==
  /\ desktop \in Desktops
  /\ memory = [DefaultSettings EXCEPT !.layout = DetectSwitch(desktop)]
  /\ file \in {ToFile(memory), OldFile(memory)}
  /\ durable = file
  /\ published = memory
  /\ up = TRUE
  /\ gate = "free"
  /\ bus = <<>>
  /\ call = NoCall
  /\ reply = [c \in Callers |-> [status |-> "none"]]
  /\ redetect = NoDetection
  /\ status = TRUE
  /\ edition = [file |-> 0, durable |-> 0, promised |-> 0]
  /\ ops = MaxOps

\* A caller sends a request and waits.  touched is history: the fields its
\* user changed.
Send(c, kind, patch, touched) ==
  /\ reply[c].status # "waiting"
  /\ bus' = IF up THEN Append(bus, [from |-> c, kind |-> kind, touched |-> touched,
                 patch |-> [patch EXCEPT !.values = Serialized(@)]])
            ELSE bus
  /\ reply' = [reply EXCEPT ![c] = [status |-> IF up THEN "waiting" ELSE "failed"]]

--------------------------------------------------------------------------------
(***************************************************************************)
(* The D-Bus object.                                                       *)
(***************************************************************************)
\* OpenSwitcherDbusApi::get_settings answers from memory.
GetSettings ==
  /\ up /\ call.step = "none" /\ bus # <<>> /\ Head(bus).kind = "get"
  /\ reply' = [reply EXCEPT ![Head(bus).from] = 
                               [status |-> "ok", settings |-> Serialized(memory)]]
  /\ bus' = Tail(bus)
  /\ UNCHANGED <<file, durable, up, memory, published, gate, call, redetect, desktop,
                 status, edition, ops>>

\* update_settings and toggle: the state of the switch before the update is
\* read outside the gate.
BeginCall ==
  /\ up /\ call.step = "none" /\ bus # <<>> /\ Head(bus).kind # "get"
  /\ call' = [step |-> "merge", request |-> Head(bus), before |-> published.enabled]
  /\ bus' = Tail(bus)
  /\ UNCHANGED <<file, durable, up, memory, published, gate, reply, redetect, desktop,
                 status, edition, ops>>

Answered(outcome, settings) ==
  call' = [step |-> "answer", request |-> call.request, before |-> call.before,
           outcome |-> outcome, settings |-> settings]

\* toggle_enabled_result reads the current settings under the gate.
RequestedPatch ==
  IF call.request.kind = "toggle"
  THEN Between(memory, [memory EXCEPT !.enabled = ~@])
  ELSE [call.request.patch EXCEPT !.values = Deserialized(@)]

\* Mutant: the merged settings are not validated.
MergeUnchecked ==
  LET merged == Merge(RequestedPatch, memory)
  IN /\ up /\ call.step = "merge" /\ gate = "free"
     /\ gate' = "call"
     /\ call' = [step |-> "save", request |-> call.request, before |-> call.before,
                 settings |-> merged]
     /\ UNCHANGED <<file, durable, up, memory, published, bus, reply, redetect,
                    desktop, status, edition, ops>>

\* The gate, and update_settings_patch up to the save: an invalid or an
\* unchanged result leaves everything as it is.
MergePatch ==
  LET merged == Merge(RequestedPatch, memory)
  IN /\ up /\ call.step = "merge" /\ gate = "free"
     /\ \/ /\ ~Valid(merged)
           /\ Answered("failed", memory)
           /\ UNCHANGED gate
        \/ /\ Valid(merged) /\ merged = memory
           /\ Answered("unchanged", memory)
           /\ UNCHANGED gate
        \/ /\ Valid(merged) /\ merged # memory
           /\ call' = [step |-> "save", request |-> call.request,
                       before |-> call.before, settings |-> merged]
           /\ gate' = "call"
     /\ UNCHANGED <<file, durable, up, memory, published, bus, reply, redetect,
                    desktop, status, edition, ops>>

\* atomic_replace: the new content is written and synchronised beside the file
\* and takes its name.  Only the synchronisation of the directory makes that
\* survive a power failure; without it the file may be either.
Replace(settings, certain) ==
  /\ file' = ToFile(settings)
  /\ durable' \in IF certain THEN {file'} ELSE {durable, file'}
  /\ edition' = [edition EXCEPT !.file = @ + 1,
                   !.durable = IF durable' = file' THEN edition.file + 1 ELSE @]

\* The call goes on with its settings and what is known of their durability.
Saved(certain) ==
  call' = [step |-> "commit", request |-> call.request, before |-> call.before,
           settings |-> call.settings, certain |-> certain]

\* Mutant: a failed synchronisation of the directory is not reported.
SaveClaimingDurable ==
  /\ up /\ call.step = "save"
  /\ \/ \E certain \in BOOLEAN :
          /\ certain \/ ops > 0
          /\ Replace(call.settings, certain)
          /\ Saved(TRUE)
          /\ ops' = IF certain THEN ops ELSE ops - 1
          /\ UNCHANGED gate
     \/ /\ ops > 0
        /\ Answered("failed", memory)
        /\ gate' = "free"
        /\ ops' = ops - 1
        /\ UNCHANGED <<file, durable, edition>>
  /\ UNCHANGED <<up, memory, published, bus, reply, redetect, desktop, status>>

\* save_to_path: before the rename a failure leaves the file and ends the
\* call; after it a failure leaves only the durability uncertain.
SaveFile ==
  /\ up /\ call.step = "save"
  /\ \/ \E certain \in BOOLEAN :
          /\ certain \/ ops > 0
          /\ Replace(call.settings, certain)
          /\ Saved(certain)
          /\ ops' = IF certain THEN ops ELSE ops - 1
          /\ UNCHANGED gate
     \/ /\ ops > 0
        /\ Answered("failed", memory)
        /\ gate' = "free"
        /\ ops' = ops - 1
        /\ UNCHANGED <<file, durable, edition>>
  /\ UNCHANGED <<up, memory, published, bus, reply, redetect, desktop, status>>

\* The end of update_settings_patch: memory takes what was saved.
CommitMemory ==
  /\ up /\ call.step = "commit"
  /\ memory' = call.settings
  /\ call' = [call EXCEPT !.step = "publish"]
  /\ UNCHANGED <<file, durable, up, published, gate, bus, reply, redetect, desktop,
                 status, edition, ops>>

\* publish_committed_config under the gate: the switch and the snapshot.
PublishCall ==
  /\ up /\ call.step = "publish"
  /\ published' = call.settings
  /\ gate' = "free"
  /\ Answered(IF call.certain THEN "durable" ELSE "uncertain", call.settings)
  /\ UNCHANGED <<file, durable, up, memory, bus, reply, redetect, desktop, status,
                 edition, ops>>

\* The answer, after StatusChanged: toggle always emits it, update_settings
\* only when the switch differs from what it read before.
AnswerCall ==
  /\ up /\ call.step = "answer"
  /\ LET ok == call.outcome # "failed"
         signals == ok /\ (call.request.kind = "toggle" \/ published.enabled # call.before)
     IN /\ status' = IF signals THEN published.enabled ELSE status
        /\ reply' = [reply EXCEPT ![call.request.from] =
                       IF ok THEN [status |-> "ok", settings |-> Serialized(call.settings)]
                       ELSE [status |-> "failed"]]
  /\ edition' = IF call.outcome = "durable" THEN [edition EXCEPT !.promised = edition.file]
                ELSE edition
  /\ call' = NoCall
  /\ UNCHANGED <<file, durable, up, memory, published, gate, bus, redetect, desktop, ops>>

--------------------------------------------------------------------------------
(***************************************************************************)
(* The coordinator: after the session context became known, or after the   *)
(* layout setup recovered, it detects the combination again.               *)
(***************************************************************************)
\* should_redetect_layout_switch_after_context_upgrade.
Redetectable(settings) == settings.layout.source \in {"detected", "fallback"}

\* should_redetect_layout_switch_after_setup_recovery.
Recoverable(settings) == settings.layout.source = "fallback"

\* runtime_layout_switch_redetect_would_downgrade.  What it asks of the
\* confidence is so already: detected_setting has a high one, and no caller
\* of fallback_setting has.
Downgrades(settings, found) ==
  settings.layout.source = "detected" /\ found.source = "fallback"

\* The source is checked without the gate before the desktop is asked.
RedetectCheck ==
  /\ up /\ redetect.step = "idle" /\ ops > 0 /\ ~Locked
  /\ Redetectable(memory) \/ Recoverable(memory)
  /\ redetect' = [step |-> "detect"]
  /\ ops' = ops - 1
  /\ UNCHANGED <<file, durable, up, memory, published, gate, bus, call, reply, desktop,
                 status, edition>>

\* The commands of the desktop are read without the gate.
Redetect ==
  /\ up /\ redetect.step = "detect"
  /\ redetect' = [step |-> "apply", found |-> DetectSwitch(desktop)]
  /\ UNCHANGED <<file, durable, up, memory, published, gate, bus, call, reply, desktop,
                 status, edition, ops>>

\* apply_detected_layout_switch_runtime under the gate: the source is checked
\* again, a detected combination does not give way to a fall back, and the
\* file is left alone.
ApplyDetected ==
  /\ up /\ redetect.step = "apply" /\ gate = "free"
  /\ IF /\ Redetectable(memory)
        /\ ~Downgrades(memory, redetect.found)
        /\ redetect.found # memory.layout
     THEN /\ memory' = [memory EXCEPT !.layout = redetect.found]
          /\ redetect' = [step |-> "publish", settings |-> memory']
          /\ gate' = "coordinator"
     ELSE redetect' = NoDetection /\ UNCHANGED <<memory, gate>>
  /\ UNCHANGED <<file, durable, up, published, bus, call, reply, desktop, status,
                 edition, ops>>

PublishDetected ==
  /\ up /\ redetect.step = "publish"
  /\ published' = redetect.settings
  /\ redetect' = NoDetection
  /\ gate' = IF gate = "coordinator" THEN "free" ELSE gate
  /\ UNCHANGED <<file, durable, up, memory, bus, call, reply, desktop, status, edition,
                 ops>>

\* The user, or an update, changes the settings of the desktop (external).
ChangeDesktop ==
  /\ ops > 0
  /\ desktop' \in Desktops \ {desktop}
  /\ ops' = ops - 1
  /\ UNCHANGED <<file, durable, up, memory, published, gate, bus, call, reply, redetect,
                 status, edition>>

--------------------------------------------------------------------------------
(***************************************************************************)
(* The process ends and is started again.  Whoever waited gets an error.   *)
(***************************************************************************)
Stop ==
  /\ up /\ ops > 0
  /\ up' = FALSE
  /\ ops' = ops - 1
  /\ gate' = "free"
  /\ bus' = <<>>
  /\ call' = NoCall
  /\ redetect' = NoDetection
  /\ reply' = [c \in Callers |-> IF reply[c].status = "waiting"
                                 THEN [status |-> "failed"] ELSE reply[c]]
  /\ UNCHANGED <<durable, memory, published, desktop, status>>

\* The process dies, or is asked to exit.
Crash == Stop /\ UNCHANGED <<file, edition>>

\* The machine loses its power: what was not synchronised is gone.
PowerFailure ==
  /\ Stop
  /\ file' = durable
  /\ edition' = [edition EXCEPT !.file = edition.durable]

\* ConfigService::load: the file, and a new detection unless the combination
\* was chosen by hand, which is saved when it differs.  A file that cannot be
\* read, and a save that fails before the rename, keep the daemon from starting.
Start ==
  /\ ~up /\ FromFile(file) # Invalid
  /\ LET read == FromFile(file)
         detected == [read EXCEPT !.layout = DetectSwitch(desktop)]
         loaded == IF read.layout.source = "manual" THEN read ELSE detected
     IN \/ /\ \/ loaded = read /\ UNCHANGED <<file, durable, edition, ops>>
              \/ loaded # read /\ Replace(loaded, TRUE) /\ UNCHANGED ops
              \/ loaded # read /\ ops > 0 /\ Replace(loaded, FALSE) /\ ops' = ops - 1
           /\ up' = TRUE /\ memory' = loaded /\ published' = loaded
        \/ /\ loaded # read /\ ops > 0 /\ ops' = ops - 1
           /\ UNCHANGED <<file, durable, edition, up, memory, published>>
  /\ UNCHANGED <<gate, bus, call, reply, redetect, desktop, status>>

DaemonNext ==
  \/ GetSettings \/ BeginCall \/ MergePatch \/ SaveFile \/ CommitMemory
  \/ PublishCall \/ AnswerCall
  \/ RedetectCheck \/ Redetect \/ ApplyDetected \/ PublishDetected
  \/ ChangeDesktop \/ Crash \/ PowerFailure \/ Start
================================================================================
