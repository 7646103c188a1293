SPECIFICATION CtrlSpec
CONSTANTS
    Servers = {s1, s2}
    s1 = s1
    s2 = s2
    root1 = root1
    root2 = root2
    NewIds = {v1, v2, v3}
    VolIds <- MCVolIds
    RootOf <- MCRootOf
    Names = {claim1, claim2}
    NoName = NoName
    None = None
    KeepsNames = FALSE
    MaxDeferred <- AtOnce
    Callers = {c1, c2}
    Ops = {"Ensure", "Delete", "Expand", "Find", "Move", "Detach"}
    HomeOf <- MCHomeOf
    Sizes = {1, 2}
    PollAttempts = 1
    Faults = TRUE
    n1 = n1
    n2 = n2
    Nodes = {n1, n2}
    Labelled = {}
    Renamed = FALSE
    ServerOf <- MCServerOf
    LabelOf <- MCLabelOf
    Matches <- MCMatches
    Exact <- MCExact
    HasResolver = TRUE
    LabelFaults = TRUE
    Lifecycle = {"Create", "Delete", "Publish", "Unpublish", "Expand"}
SYMMETRY MCClaimSymmetry
INVARIANTS
    PublishedIsAttached
    ClaimsAreDisjoint
    ClaimKeepsItsVolume
