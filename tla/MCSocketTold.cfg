SPECIFICATION Spec
CONSTANTS
  NULL = NULL
  Socks = {1}
  FDs = {3}
  Reactions = {"nothing"}
  InitReturns = TRUE
  BindsConnected = FALSE
  Udp = {}
  Bindable = {}
  MaxQueue = 1
PROPERTIES
  ConnectTold
CHECK_DEADLOCK FALSE
