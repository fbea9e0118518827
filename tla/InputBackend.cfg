SPECIFICATION BackendSpec
CONSTANTS
  Nodes <- MCNodes
  Kind <- MCKind
  Seat <- MCSeat
  Linked <- MCLinked
  Denied0 <- MCDenied
  X11 = TRUE
  Configured = "none"
  Moving <- MCMoving
  Contested <- MCContested
  Keys = {"a"}
  Windows = 2
  MaxFaults = 2
  MaxPresses = 1
INVARIANT NoKeyIsTakenOver
PROPERTIES
  KeyboardIsGivenBack
  BackendComesBack
CHECK_DEADLOCK FALSE
