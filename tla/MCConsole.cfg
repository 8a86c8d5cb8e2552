SPECIFICATION ConsoleSpec
CONSTANTS
  Shells = {"uart", "console"}
  COMMAND_LENGTH = 4
  LedPeriod = 1000000
  ClockValues = 16
  MaxNow = 2
  Blocks = 5
  Numbers = 3
  FileBytes = 600
  XMODEM_DATA_SIZE = 128
  XMODEM_PACKET_SIZE = 132
  XMODEM_DATA_RETRY = 2
  length = 3
  EotBlocks = {}
  SenderTries = 2
  MaxFaults = 2
  Keyboards = 1
  Modifiers = {0, 2, 32}
  InOrder = TRUE
  MaxDown = 3
  MaxPresses = 3
  CharacterWidth = 2
  CharacterHeight = 4
  MaxLines = 3
INVARIANTS
  ShellsApart
  
  ShowsOutput
PROPERTIES
  Responds
  KeysAsTyped
