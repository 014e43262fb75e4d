SPECIFICATION OutboxSpec
CONSTANTS
    p1 = p1
    p2 = p2
    i1 = i1
    i2 = i2
    c1 = c1
    Processes = {p1}
    Proposals = {i1}
    Cancellations = {c1}
    Target <- OneTarget
    ProviderV2 = {i1}
    LeaseTicks = 1
    MaxFaults = 1
    Nobody = Nobody
INVARIANT
    DrainCancellationNeverObsolete
