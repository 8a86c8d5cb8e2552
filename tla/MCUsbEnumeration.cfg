SPECIFICATION Spec
CONSTANTS
  A = A
  B = B
  C = C
  NULL = NULL
  RootPort = RootPort
  Hubs = {A, B}
  MaxRequests = 4
  MaxHubs = 2
  MaxPorts = 4
  MaxAddress = 5
  MaxErrors = 1
  Topologies <- AnyBoards
CHECK_DEADLOCK FALSE
INVARIANTS
  RequestsAccounted
  
PROPERTY
  EveryDeviceConfigured
