SPECIFICATION RotationSpec
CONSTANTS
    p1 = p1
    p2 = p2
    i1 = i1
    m1 = m1
    c1 = c1
    Nobody = Nobody
    Processes = {p1}
    Proposals = {m1}
    Cancellations = {c1}
    Target <- PreparationTarget
    ProviderV2 = {}
    LeaseTicks = 1
    MaxFaults = 1
    Marketplace = {m1}
    OnBitcoin = {m1}
    MaxRotations = 1
INVARIANTS
    SuppressedNeverProposed
    OldAccountIsWithdrawn
PROPERTIES
    AcceptedSurvivesRotation
    ImplementsIssuance
CHECK_DEADLOCK FALSE
