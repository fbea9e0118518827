SPECIFICATION Spec
CONSTANTS
  w1 = w1
  w2 = w2
  Windows <- MCWindows
  Hotkeys <- MCHotkeys
  Jobs <- MCJobs
  Tray <- MCTray
  Callers <- MCCallers
  Captured <- MCCaptured
  Desktops <- MCDesktops
  MaxOps = 3
INVARIANTS
  ConfigIsValid
  AnsweredIsOnDisk
  DetectedComboWorks
  LockedFormIsServed
  TextIsReadBack
PROPERTIES
  OnlyAskedChanges
CHECK_DEADLOCK FALSE
