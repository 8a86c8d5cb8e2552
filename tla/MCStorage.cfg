CONSTANTS
    NumCacheSectors = 3
    MaxOpenFiles = 2
    SectorSize = 2
    SectorsPerCluster = 1
    FilesPerSector = 2
    FatEntries = 4
    FatSectors = 2
    NumClusters = 6
    Junk = Junk
    ReadBlock <- DriveReadBlock
    WriteBlock <- DriveWriteBlock
    CardReady <- sdcard_poll
    Callback <- FatCallback
    BlockSize = 2
    WordSize = 64
    MaxOperations = 2
    DeviceSuits = TRUE
    Commands <- CommandLines
    Formatted <- SmallDisk
    MaxCommands = 5
    MaxFaults = 1
    FaultyReads = FALSE
SPECIFICATION Spec
INVARIANTS
    ShellSeesDisk
    CacheIsDisk
    NothingHeld

    
    
