SPECIFICATION FairSpec
CONSTANTS
  Blocks = 2
  Numbers = 8
  TFTP_INIT_BLOCK_MAX_RETRIES = 2
  ServerErrors = FALSE
  ServerStops = TRUE
  Strangers = FALSE
  MaxFaults = 0
PROPERTY
  DownloadEnds
