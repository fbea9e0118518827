SPECIFICATION Spec
CONSTANTS
  TrayAttempts = 3
  DaemonAttempts = 3
  InitialAttempts = 3
  MaxFaults = 3
  MaxLaunches = 2
PROPERTIES
  PairRunsTogether
CHECK_DEADLOCK FALSE
