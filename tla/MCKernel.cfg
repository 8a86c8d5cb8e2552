SPECIFICATION KernelSpec
CONSTANTS
  shell = shell
  led = led
  console = console
  fat = fat
  job = job
  Programs = {shell, job, fat, console, led}
  Priority <- MCPriority
  Boot <- MCBoot
  NoData = {fat}
  Readies = {shell, console}
  Jobs = {shell, job}
  Spawned = {led, fat, console}
  Endable = {fat, console}
  MAX_TASKS = 5
  MaxEnds = 2
  MAX_TIMER_TASKS = 3
  Services = {usb}
  Owners = {game}
  OneShots = {effect}
  TimerDelays = {1, 2}
  Late = 1
  Classes = {2, 4}
  Requests = {1, 3, 5}
  Header = 2
  BLOCK_ALIGN = 2
  HeapStart = 4
  HeapSize = 22
  AddressSpace = 40
  Low = 4
  MaxTicks = 12
  Delays = {0, 1, 3, 6}
  Width = 5
  MaxSize = 20
  MaxPacketSizes = {4, 8}
  U32 = 65536
  MaxLength = 18
  Alignments = {0, 1, 4, 7}
INVARIANTS
  ListsSound
  HeapSound
PROPERTIES
  TasksServed
  RefinesPendingTimers
  TimersServed
  RoutinesRight
