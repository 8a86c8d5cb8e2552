CONSTANTS
    NumCacheSectors = 4
    MaxOpenFiles = 2
    SectorSize = 2
    SectorsPerCluster = 1
    FilesPerSector = 2
    FatEntries = 4
    FatSectors = 2
    NumClusters = 6
    Junk = Junk
    ReadBlock <- CardReadBlock
    WriteBlock <- CardWriteBlock
    CardReady <- CardPresent
    Callback <- ClientCallback
    Clients = {"c1"}
    RootClusters = 2
    FileNames = {"a", "b"}
    Formatted <- SmallVolume
    MaxOpens = 2
    Jobs <- WriterJobs
    MaxCardErrors = 1
    MaxPowerLosses = 1
    OneSearch = TRUE
    UnlinkAlone = TRUE
SPECIFICATION FairSpec
INVARIANT
    CrashSafe

    
    
CHECK_DEADLOCK FALSE
