SPECIFICATION Spec
CONSTANTS
  MaxRequests = 2
  MaxChannels = 1
  MaxPackets = 2
  Tries = 1
  NULL = NULL
  kbd0 = kbd0
  kbdIn = kbdIn
  hub0 = hub0
  lan = lan
  Endpoints = {kbd0, kbdIn, hub0, lan}
  TypeOf <- MCTypeOf
  IsSplit <- MCIsSplit
CHECK_DEADLOCK FALSE
PROPERTY
  ControlEnds
