SPECIFICATION Spec
CONSTANTS
    Volumes = {v1, v2}
    v1 = v1
    v2 = v2
    Names = {sda, sdb}
    sda = sda
    Reported = {v1}
    ContextPath <- OldContext
    HintOf <- HintsApart
    SizesOf <- SizesApart
    Renumbered = FALSE
    BlkidFails = FALSE
    DirEntries = TRUE
    None = None
    Host = Host
    Attempts = 2
    HostIsRefused = TRUE
    FailedMeansUnstaged = FALSE
    RecordsFail = FALSE
    MaxFaults = 3
INVARIANTS
    NodeTypeOK
    ReportedIsOwn
    DataIsKept
    MountsHaveDevices
PROPERTY
    ImplementsStaging
