SPECIFICATION FairSpec
CONSTANTS
    Volumes = {v1}
    v1 = v1
    v2 = v2
    Names = {sda}
    sda = sda
    Reported = {}
    ContextPath <- NoContext
    HintOf <- HintsApart
    SizesOf <- SizesApart
    Renumbered = FALSE
    BlkidFails = FALSE
    DirEntries = FALSE
    None = None
    Host = Host
    Attempts = 2
    HostIsRefused = TRUE
    FailedMeansUnstaged = FALSE
    RecordsFail = FALSE
    MaxFaults = 0
PROPERTY
    DiscoveryEnds
