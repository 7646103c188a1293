SPECIFICATION FairSpec
CONSTANTS
    Volumes = {v1, v2}
    v1 = v1
    v2 = v2
    Names = {sda, sdb}
    sda = sda
    Reported = {v1}
    ContextPath <- OldContext
    HintOf <- HintsApart
    SizesOf <- SizesFixed
    Renumbered = FALSE
    BlkidFails = FALSE
    DirEntries = TRUE
    None = None
    Host = Host
    Attempts = 2
    HostIsRefused = TRUE
    FailedMeansUnstaged = FALSE
    RecordsFail = FALSE
    MaxFaults = 2
PROPERTIES
    StagingEnds
    DiscoveryEnds
    UnstagingEnds
