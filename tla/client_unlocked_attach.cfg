SPECIFICATION Spec
CONSTANTS
    Servers = {s1, s2}
    s1 = s1
    s2 = s2
    root1 = root1
    root2 = root2
    claim1 = claim1
    claim2 = claim2
    NewIds = {v1, v2}
    VolIds <- MCVolIds
    RootOf <- MCRootOf
    Names = {claim1, claim2}
    NoName = NoName
    None = None
    KeepsNames = TRUE
    MaxDeferred <- AtOnce
    Callers = {c1, c2}
    Ops = {"Ensure", "Find", "Move", "Detach"}
    HomeOf <- MCHomeOf
    Sizes = {1}
    PollAttempts = 2
    Faults = FALSE
SYMMETRY MCSymmetry
INVARIANT
    NoSilentDrop
