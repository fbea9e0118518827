SPECIFICATION FairClipboardSpec
CONSTANTS
  Unknown = Unknown
  Characters <- MCCharacters
  Selections <- MCSelections
  Foreign <- MCForeign
  Sentinels <- MCSentinels
  RoundTripLength = 3
  WordLength = 4
  MaxJobs = 2
  MaxCopies = 2
  MaxFaults = 1
  SentinelTimeout = 1
  MinAccept = 1
  StableFor = 1
  CopyTimeout = 3
INVARIANTS
  ClipboardIsCleanedUp
  CopiesAreToldApart
  RoundTrip
  WordsAreCorrectedAsTyped
PROPERTY RunnerBecomesFree
CHECK_DEADLOCK FALSE
