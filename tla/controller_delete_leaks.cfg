SPECIFICATION CtrlSpec
CONSTANTS
    Servers = {s1, s2}
    s1 = s1
    s2 = s2
    root1 = root1
    root2 = root2
    NewIds = {v1}
    VolIds <- MCVolIds
    RootOf <- MCRootOf
    Names = {claim1}
    NoName = NoName
    None = None
    KeepsNames = TRUE
    MaxDeferred <- AtOnce
    Callers = {c1, c2}
    Ops = {"Ensure", "Delete", "Expand", "Find", "Move", "Detach"}
    HomeOf <- MCHomeOf
    Sizes = {1}
    PollAttempts = 1
    Faults = FALSE
    n1 = n1
    n2 = n2
    Nodes = {n1, n2}
    Labelled = {n1, n2}
    Renamed = FALSE
    ServerOf <- MCServerOf
    LabelOf <- MCLabelOf
    Matches <- MCMatches
    Exact <- MCExact
    HasResolver = TRUE
    LabelFaults = FALSE
    Lifecycle = {"Create", "Delete", "Publish", "Unpublish", "Expand"}
SYMMETRY MCSymmetry
INVARIANTS
    DeletedIsGone
CHECK_DEADLOCK FALSE
