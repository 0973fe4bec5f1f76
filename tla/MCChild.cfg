SPECIFICATION Spec
CONSTANTS
  NULL = NULL
  NSIG = 4
  Unsettable = {2}
  Kids = {1, 2}
  FDs = {0, 1, 2, 3, 4, 5, 6, 7, 8, 9}
  Starts <- Startings
  Ids = {0, 1}
  Ignored = {1, 3}
  CleanVars <- Clean
  Variables <- Vars
  Added <- Adds
  PTR = 8
  WaitsUnseen = FALSE
  MaxQueue = 1
INVARIANTS
  TypeOK
  ChildWired
  ChildDropped
  EnvironFits
PROPERTIES
  RestoreUndoes
  FailedNewCloses
  ExitIsTold
CHECK_DEADLOCK FALSE
