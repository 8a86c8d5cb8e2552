CONSTANTS
    NumCacheSectors = 4
    MaxOpenFiles = 2
    SectorSize = 2
    SectorsPerCluster = 1
    FilesPerSector = 2
    FatEntries = 4
    FatSectors = 2
    NumClusters = 6
    Junk = Junk
    ReadBlock <- CardReadBlock
    WriteBlock <- CardWriteBlock
    CardReady <- CardPresent
    Callback <- ClientCallback
    Clients = {c1, c2}
    RootClusters = 1
    FileNames = {"a", "b"}
    Formatted <- SmallVolume
    MaxOpens = 2
    Jobs <- WriterJobs
    MaxCardErrors = 0
    MaxPowerLosses = 0
    OneSearch = TRUE
    UnlinkAlone = TRUE
SYMMETRY ClientSymmetry
SPECIFICATION Spec
INVARIANTS
    VolumeSound
    ClosedReadsBack
    ShutdownKeepsAll
    NewFileReadable
CHECK_DEADLOCK FALSE
