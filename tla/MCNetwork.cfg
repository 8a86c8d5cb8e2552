\* As many channels as the receiver, one frame and the other drivers need at
\* once; one request more, so that one leaked request is survived.
SPECIFICATION NetworkSpec
CONSTANTS
  MaxRequests = 5
  MaxChannels = 4
  MaxOthers = 2
  SendWindow = 1
  MaxPieces = 1
  Dhcp = TRUE
  PhyHolds = TRUE
  MaxFrames = 3
  MaxArrivals = 3
  MaxErrors = 2
  Blocks = 3
  Numbers = 8
  TFTP_INIT_BLOCK_MAX_RETRIES = 2
  ServerErrors = TRUE
  ServerStops = TRUE
  Strangers = TRUE
  MaxFaults = 3
INVARIANTS
  ChipConfigured
  ReceiverArmed
  
  
PROPERTIES
  
  FramesTakenIn
  EndsUnlessStranded
