SPECIFICATION DrainSpec
CONSTANTS
    p1 = p1
    p2 = p2
    i1 = i1
    i2 = i2
    c1 = c1
    c2 = c2
    Nobody = Nobody
    Processes = {p1}
    Proposals = {i1}
    Cancellations = {c1}
    Target <- OneTarget
    ProviderV2 = {}
    LeaseTicks = 1
    MaxFaults = 0
    MaxDrains = 2
INVARIANTS
    DrainTypeOK
    FencedRequestHasLifecycle
    OpenRequestIsWithdrawn
    ActiveDrainReplays
PROPERTIES
    ImplementsLedger
CHECK_DEADLOCK FALSE
