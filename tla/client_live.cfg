SPECIFICATION FairSpec
CONSTANTS
    Servers = {s1, s2}
    s1 = s1
    s2 = s2
    root1 = root1
    root2 = root2
    claim1 = claim1
    claim2 = claim2
    NewIds = {v1}
    VolIds <- MCVolIds
    RootOf <- MCRootOf
    Names = {claim1}
    NoName = NoName
    None = None
    KeepsNames = TRUE
    MaxDeferred <- DeferredHome
    Callers = {c1, c2}
    Ops = {"Ensure", "Move", "Detach"}
    HomeOf <- MCHomeOf
    Sizes = {2}
    PollAttempts = 2
    Faults = TRUE
INVARIANTS
    TypeOK
    LockDiscipline
PROPERTIES
    RootMovedByDetachOnly
    CallsReturn
