--------------------------- MODULE MC_SettingsWindow ---------------------------
(***************************************************************************)
(* Two windows, one of them on the tray, with two threads each, three      *)
(* hotkeys, and desktops that announce their combination in different      *)
(* ways.                                                                   *)
(***************************************************************************)
EXTENDS SettingsWindow

CONSTANTS w1, w2

MCWindows == {w1, w2}
MCHotkeys == {ManualHotkey, SelectedHotkey, Hotkey({"shift", "ctrl"}, "scroll_lock")}
MCJobs == {1, 2}
MCTray == <<"tray", 0>>
MCCallers == (MCWindows \X MCJobs) \cup {MCTray}
MCCaptured == {"CapsLock"}

MCDesktops ==
  {Desktop("gnome", FALSE, <<>>, <<>>,
     <<[mods |-> <<[kind |-> "alt", side |-> "left"]>>,
        key |-> [kind |-> "shift", side |-> "left"]]>>),
   [Desktop("cinnamon", FALSE, <<"alt_shift_toggle">>, <<>>, <<>>)
      EXCEPT !.unreadable = {"group"}]}
================================================================================
