SPECIFICATION OutboxSpec
CONSTANTS
    p1 = p1
    p2 = p2
    i1 = i1
    i2 = i2
    c1 = c1
    Processes = {p1, p2}
    Proposals = {i1}
    Cancellations = {}
    Target <- NoTarget
    ProviderV2 = {}
    LeaseTicks = 1
    MaxFaults = 2
    Nobody = Nobody
SYMMETRY Symmetry
INVARIANTS
    TypeOK
    HandedOffOwnsMessage
    DeliveredWasSent
    LapseNeverFailsRow
PROPERTY
    ClaimIsStable
