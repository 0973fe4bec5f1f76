SPECIFICATION Spec
CONSTANTS
  NULL = NULL
  Socks = {1, 2}
  FDs = {3, 4}
  Reactions = {"nothing", "write", "disconnect"}
  InitReturns = TRUE
  BindsConnected = FALSE
  Udp = {1}
  Bindable = {1}
  MaxQueue = 2
INVARIANTS
  TypeOK
  FdOwned
  CallbacksMatch
PROPERTIES
  ConnectAnswered
CHECK_DEADLOCK FALSE
