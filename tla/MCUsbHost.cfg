SPECIFICATION Spec
CONSTANTS
  MaxRequests = 3
  MaxChannels = 2
  MaxPackets = 1
  Tries = 1
  NULL = NULL
  kbd0 = kbd0
  kbdIn = kbdIn
  hub0 = hub0
  lan = lan
  Endpoints = {kbd0, kbdIn, lan}
  TypeOf <- MCTypeOf
  IsSplit <- MCIsSplit
CHECK_DEADLOCK FALSE
INVARIANTS
  TransfersTracked
  SetupFirst
  NotLostBetweenStages
