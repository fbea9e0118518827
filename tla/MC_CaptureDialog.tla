---------------------------- MODULE MC_CaptureDialog ----------------------------
(***************************************************************************)
(* One key, which is a shortcut by itself; this window and another one.    *)
(***************************************************************************)
EXTENDS CaptureDialog

OneKey == {"CapsLock"}
=============================================================================
