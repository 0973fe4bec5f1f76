SPECIFICATION Spec
CONSTANTS
  Events = {e1, e2, e3}
  Signals = {SIGUSR1, SIGCHLD}
  SIGCHLD = SIGCHLD
  NULL = NULL
  Overlapping = FALSE
  MaxDepth = 4
INVARIANTS
  TypeOK
  StartedIsHeard
  SignalsRestored
PROPERTIES
  StopEndsRuns
