---------------------------- MODULE SettingsWindow -----------------------------
(***************************************************************************)
(* The settings windows (src/src/settings_ui/*.rs) and the tray's switch   *)
(* on top of the daemon's settings.  A window keeps what it loaded, the    *)
(* draft the user edits and the state of its request; every load and every *)
(* save runs on a thread of its own that calls the daemon and then takes   *)
(* the answer to the window.  A window that is closed and opened again     *)
(* loads again, so two loads may be on their way, and a window on the tray *)
(* and a standalone one may be open at once.                               *)
(***************************************************************************)
EXTENDS SettingsCommit

CONSTANTS
  Windows,     \* the settings windows
  Jobs,        \* names of the threads a window may have at once
  Tray,        \* the tray's thread
  Captured     \* the combinations a user may capture

ASSUME WindowsAssumption ==
  /\ Callers = (Windows \X Jobs) \cup {Tray} /\ Tray \notin Windows \X Jobs
  /\ Captured \subseteq Combos

VARIABLES
  win,         \* DomainState of each window, and whether it is visible
  job,         \* the threads of each window
  autostart    \* the autostart file is installed

windowVars == <<win, job, autostart>>
vars == <<commitVars, windowVars>>

NoJob == [kind |-> "none"]
\* The threads of a window that have not taken their answer yet.
Busy(w) == {j \in Jobs : job[<<w, j>>].kind # "none"}

\* The windows are open and have loaded the settings.
Init ==
  /\ CommitInit
  /\ win = [w \in Windows |->
       [visible |-> TRUE, loaded |-> TRUE, base |-> memory, draft |-> memory,
        touched |-> {}, request |-> "idle", override |-> FALSE,
        baseAuto |-> "off", auto |-> FALSE]]
  /\ job = [t \in Windows \X Jobs |-> NoJob]
  /\ autostart = FALSE

Set(w, new) == win' = [win EXCEPT ![w] = new]
Done(t) == job' = [job EXCEPT ![t] = NoJob]

\* apply_loaded and save_persisted_settings_succeeded: the draft starts anew
\* from these settings and the form is free, whatever else is on its way.
Taken(state, settings) ==
  [state EXCEPT !.loaded = TRUE, !.base = settings, !.draft = settings,
                !.touched = {}, !.request = "idle", !.override = FALSE]

--------------------------------------------------------------------------------
(***************************************************************************)
(* Loading.                                                                *)
(***************************************************************************)
\* SettingsWindowController::present on a window that is not visible, and
\* SettingsPresenter::reload: nothing is loaded while a save is on its way.
Present(w) ==
  /\ ~win[w].visible /\ ops > 0
  /\ ops' = ops - 1
  /\ \/ /\ win[w].request = "saving"
        /\ Set(w, [win[w] EXCEPT !.visible = TRUE])
        /\ UNCHANGED <<job, bus, reply>>
     \/ /\ win[w].request # "saving"
        /\ \E j \in Jobs \ Busy(w) :
             /\ j = CHOOSE k \in Jobs \ Busy(w) : TRUE
             /\ job' = [job EXCEPT ![<<w, j>>] = [kind |-> "load"]]
             /\ Send(<<w, j>>, "get", NoPatch, {})
        /\ Set(w, [win[w] EXCEPT !.visible = TRUE, !.request = "loading"])
  /\ UNCHANGED <<file, durable, up, memory, published, gate, call, redetect, desktop,
                 status, edition, autostart>>

\* The thread of reload: apply_loaded, or finish_loading after an error.
FinishLoad(w, j) ==
  LET t == <<w, j>> IN
  /\ job[t].kind = "load"
  /\ \/ /\ reply[t].status = "ok"
        /\ Set(w, Taken(win[w], Deserialized(reply[t].settings)))
        /\ job' = [job EXCEPT ![t] = [kind |-> "autostart"]]
     \/ /\ reply[t].status = "failed"
        /\ Set(w, [win[w] EXCEPT !.request = "idle"])
        /\ Done(t)
  /\ UNCHANGED <<commitVars, autostart>>

\* ... and then apply_loaded_autostart, with what is_autostart_enabled found.
FinishAutostart(w, j) ==
  /\ job[<<w, j>>].kind = "autostart"
  /\ Set(w, [win[w] EXCEPT !.auto = autostart,
                           !.baseAuto = IF autostart THEN "on" ELSE "off"])
  /\ Done(<<w, j>>)
  /\ UNCHANGED <<commitVars, autostart>>

--------------------------------------------------------------------------------
(***************************************************************************)
(* Editing.  The form takes input when something is loaded and no save is  *)
(* on its way, a load is no obstacle.                                      *)
(***************************************************************************)
FormEnabled(w) == win[w].visible /\ win[w].loaded /\ win[w].request # "saving"

Edited(w, f, v) ==
  [win[w] EXCEPT !.draft = [win[w].draft EXCEPT ![f] = v],
                 !.touched = win[w].touched \cup {f}]

\* duplicate_hotkey_dialog_error: the dialog of a hotkey refuses the one the
\* other action has.
Duplicate(w, f, h) == h = win[w].draft[IF f = "manual" THEN "selected" ELSE "manual"]

\* The OK button of the dialog of a hotkey.
EditHotkey(w) ==
  \E f \in {"manual", "selected"} : \E h \in Hotkeys \ {win[w].draft[f]} :
    /\ ~Duplicate(w, f, h)
    /\ Set(w, Edited(w, f, h))

\* unlock_layout_switch_override: a detected combination is locked until the
\* user says that it is wrong.
Unlock(w) ==
  /\ win[w].base.layout.source = "detected" /\ ~win[w].override
  /\ Set(w, [win[w] EXCEPT !.override = TRUE, !.touched = @ \cup {"layout"}])

\* start_layout_switch_capture and apply_captured_layout_switch: starting a
\* capture overrides the detection, and a capture that is cancelled leaves the
\* override behind.
EditLayout(w) ==
  /\ win[w].draft.layout.source # "detected" \/ win[w].override
  /\ \E c \in Captured \cup {win[w].draft.layout.combo} :
       Set(w, [Edited(w, "layout", [win[w].draft.layout EXCEPT !.combo = c])
                 EXCEPT !.override = TRUE])

\* update_auto_switch_enabled and its like, and set_autostart_enabled.
EditSwitch(w) ==
  \/ Set(w, Edited(w, "enabled", ~win[w].draft.enabled))
  \/ Set(w, [win[w] EXCEPT !.auto = ~@])

Edit(w) ==
  /\ FormEnabled(w) /\ ops > 0
  /\ ops' = ops - 1
  /\ EditSwitch(w) \/ EditHotkey(w) \/ Unlock(w) \/ EditLayout(w)
  /\ UNCHANGED <<file, durable, up, memory, published, gate, bus, call, reply, redetect,
                 desktop, status, edition, job, autostart>>

\* The window is closed: discard_changes takes the draft back to what was
\* loaded.
Close(w) ==
  /\ win[w].visible
  /\ Set(w, [win[w] EXCEPT !.visible = FALSE, !.draft = win[w].base, !.touched = {},
               !.override = FALSE,
               !.auto = IF win[w].baseAuto = "unknown" THEN @ ELSE win[w].baseAuto = "on"])
  /\ UNCHANGED <<commitVars, job, autostart>>

--------------------------------------------------------------------------------
(***************************************************************************)
(* Saving.                                                                 *)
(***************************************************************************)
\* settings_for_save.
SettingsForSave(w) ==
  IF win[w].override
  THEN [win[w].draft EXCEPT !.layout = [@ EXCEPT !.source = "manual"]]
  ELSE win[w].draft

AutostartDirty(w) ==
  win[w].baseAuto # "unknown" /\ win[w].auto # (win[w].baseAuto = "on")

\* begin_save and save: the fields that differ from what was loaded.
Save(w) ==
  LET patch == Between(win[w].base, SettingsForSave(w)) IN
  /\ FormEnabled(w) /\ win[w].request = "idle"
  /\ win[w].draft # win[w].base \/ AutostartDirty(w)
  /\ Valid(SettingsForSave(w))
  /\ \E j \in Jobs \ Busy(w) :
       /\ j = CHOOSE k \in Jobs \ Busy(w) : TRUE
       /\ Send(<<w, j>>, "update", patch, win[w].touched)
       /\ job' = [job EXCEPT ![<<w, j>>] =
                    [kind |-> "save",
                     autostart |-> IF AutostartDirty(w) THEN win[w].auto ELSE autostart,
                     change |-> AutostartDirty(w)]]
  /\ Set(w, [win[w] EXCEPT !.request = "saving"])
  /\ UNCHANGED <<file, durable, up, memory, published, gate, call, redetect, desktop,
                 status, edition, ops, autostart>>

\* Mutant: a save that failed leaves the form locked.
FinishSaveLocked(w, j) ==
  LET t == <<w, j>> IN
  /\ job[t].kind = "save" /\ reply[t].status \in {"ok", "failed"}
  /\ IF reply[t].status = "ok" THEN Set(w, Taken(win[w], Deserialized(reply[t].settings)))
     ELSE UNCHANGED win
  /\ Done(t)
  /\ UNCHANGED <<commitVars, autostart>>

\* The thread of save: the settings are committed before the autostart file
\* is touched; when that fails the settings stay and the window shows what the
\* file says.
FinishSave(w, j) ==
  LET t == <<w, j>> IN
  /\ job[t].kind = "save"
  /\ \/ /\ reply[t].status = "failed"
        /\ Set(w, [win[w] EXCEPT !.request = "idle"])
        /\ UNCHANGED <<ops, autostart>>
     \/ /\ reply[t].status = "ok"
        /\ \/ /\ autostart' = job[t].autostart
              /\ UNCHANGED ops
           \/ /\ job[t].change /\ ops > 0
              /\ ops' = ops - 1
              /\ UNCHANGED autostart
        /\ Set(w, [Taken(win[w], Deserialized(reply[t].settings)) EXCEPT
                     !.auto = IF job[t].change THEN autostart' ELSE @,
                     !.baseAuto = IF ~job[t].change THEN @
                                  ELSE IF autostart' THEN "on" ELSE "off"])
  /\ Done(t)
  /\ UNCHANGED <<file, durable, up, memory, published, gate, bus, call, reply, redetect,
                 desktop, status, edition>>

\* The tray's menu: DbusListener::toggle.
TrayToggle ==
  /\ ops > 0
  /\ ops' = ops - 1
  /\ Send(Tray, "toggle", NoPatch, {"enabled"})
  /\ UNCHANGED <<file, durable, up, memory, published, gate, call, redetect, desktop,
                 status, edition, windowVars>>

--------------------------------------------------------------------------------
WindowNext(w) ==
  \/ Present(w) \/ Edit(w) \/ Save(w) \/ Close(w)
  \/ \E j \in Jobs : FinishLoad(w, j) \/ FinishAutostart(w, j) \/ FinishSave(w, j)

Next ==
  \/ DaemonNext /\ UNCHANGED windowVars
  \/ \E w \in Windows : WindowNext(w)
  \/ TrayToggle

Spec == Init /\ [][Next]_vars
--------------------------------------------------------------------------------
(***************************************************************************)
(* Properties.                                                             *)
(***************************************************************************)
\* Types (DomainState, PendingSave and the daemon's Settings).
TypeOK ==
  /\ {memory, published} \subseteq Settings
  /\ gate \in {"free", "call", "coordinator"}
  /\ call.step \in {"none", "merge", "save", "commit", "publish", "answer"}
  /\ redetect.step \in {"idle", "detect", "apply", "publish"}
  /\ \A w \in Windows :
       /\ win[w].base \in Settings /\ win[w].draft \in Settings
       /\ win[w].request \in {"idle", "loading", "saving"}
  /\ ops \in 0..MaxOps

\* No sequence of updates, each of them valid for the window it comes from,
\* and no crash leaves a key press that is the hotkey of both actions, or a
\* file the daemon refuses at its next start: the daemon validates what the
\* merge gives, not what the client sent (SettingsPatch::apply_to).
ConfigIsValid ==
  /\ ~\E h \in Hotkeys : /\ Matches(memory.manual, h.trigger, h.modifiers)
                        /\ Matches(memory.selected, h.trigger, h.modifiers)
  /\ Invalid \notin {FromFile(file), FromFile(durable)}

\* Whenever the gate is free the input thread reads the settings in memory: an
\* update and a detection that overlap cannot publish in the other order.  What
\* a running daemon uses is what a restart would find, except for a combination
\* the daemon detected itself, and a save that was answered as saved survives a
\* power failure (publish_committed_config, update_settings_patch,
\* atomic_replace).
AnsweredIsOnDisk ==
  /\ up /\ gate = "free" => published = memory
  /\ up /\ gate = "free" =>
       \A f \in Fields : f # "layout" \/ memory.layout.source = "manual"
         => memory[f] = FromFile(file)[f]
  /\ edition.promised <= edition.durable

\* A setting of a running daemon changes only for a user who changed that very
\* field in the window that was saved, however old the settings it was loaded
\* from are, so that what another window or the tray saved in between stays;
\* or it is a combination the daemon detected itself, and no detection, not
\* even one that had begun before, replaces one that was chosen by hand
\* (SettingsPatch::between, apply_detected_layout_switch_runtime).
OnlyAskedChanges ==
  [][\A f \in Fields : up /\ up' /\ memory'[f] # memory[f] =>
       \/ call.step = "commit" /\ f \in call.request.touched
       \/ f = "layout" /\ call.step # "commit" /\ memory.layout.source # "manual"]_vars

\* Every spelling the program ever wrote, and what it must be read as.
SpellingsAreExact ==
  /\ \A h \in HotkeySpecs : Reading[Spelling[h]] = h
  /\ \A k \in UndoKeys : Reading[UndoKeyText(k)] = FromUndoKey(k)
  /\ \A o \in SelectedTextHotkeys : \A t \in {SelectedTextValue(o), SelectedTextLabel(o)} :
       ParseSelectedText(t) = o /\ Reading[t] = FromSelectedText(o)
  /\ \A c \in Combos : \A t \in {ComboValue(c), ComboLabel(c)} : ParseCombo(t) = c

\* Text never changes or loses a setting: every hotkey of every combination of
\* modifiers, every old spelling and every layout combination is read as what
\* was written, so what waits on the bus is readable and what the file holds
\* is what the running daemon holds, apart from its own detections (FromStr
\* and Display of HotkeySpec).
TextIsReadBack ==
  /\ SpellingsAreExact
  /\ \A i \in DOMAIN bus : Deserialized(bus[i].patch.values) # Invalid
  /\ up /\ ~Locked => FromFile(file).selected = memory.selected

\* Every accelerator of one modifier and one key, as the only one of a desktop.
OneBinding == {Desktop("gnome", FALSE, <<>>, <<>>, <<b>>) : b \in Bindings}
DetectorIsRight == \A d \in Desktops \cup OneBinding : Works(DetectSwitch(d), d)

\* A combination that is reported as detected switches the layout of the
\* desktop it was read from: for every accelerator of one modifier and one
\* key, for every desktop of the instance, and for what a restart or a
\* detection in the background brings (LayoutSwitchAutoDetector::detect).
DetectedComboWorks ==
  /\ DetectorIsRight
  /\ memory.layout.source = "detected" => \E d \in Desktops : Works(memory.layout, d)

\* The callers whose request the daemon has, or whose answer it still owes.
Pending == {bus[i].from : i \in DOMAIN bus}
             \cup (IF call.step = "none" THEN {} ELSE {call.request.from})

\* A form is locked only as long as a thread of that window will unlock it,
\* and that thread has its answer or waits for a call the daemon knows of:
\* no error, crash or overtaking load leaves a window loading or saving
\* forever (request_state).
LockedFormIsServed ==
  \A w \in Windows : win[w].request # "idle" =>
    \E j \in Busy(w) :
      /\ win[w].request = "saving" => job[<<w, j>>].kind = "save"
      /\ reply[<<w, j>>].status = "waiting" => up /\ <<w, j>> \in Pending
================================================================================
