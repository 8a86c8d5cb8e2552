SPECIFICATION Spec
CONSTANTS
  A = A
  B = B
  C = C
  NULL = NULL
  RootPort = RootPort
  Hubs = {A}
  MaxRequests = 10
  MaxHubs = 2
  MaxPorts = 4
  MaxAddress = 127
  MaxErrors = 0
  Topologies <- UnknownOnTop
CHECK_DEADLOCK FALSE
INVARIANT
  InFlightReserved
