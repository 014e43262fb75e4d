SPECIFICATION DrainSpec
CONSTANTS
    p1 = p1
    p2 = p2
    i1 = i1
    i2 = i2
    c1 = c1
    c2 = c2
    Nobody = Nobody
    Processes = {p1, p2}
    Proposals = {i1}
    Cancellations = {}
    Target <- NoTarget
    ProviderV2 = {}
    LeaseTicks = 1
    MaxFaults = 1
    MaxDrains = 1
SYMMETRY Symmetry
INVARIANTS
    FrozenSetIsComplete
CHECK_DEADLOCK FALSE
