SPECIFICATION FairRotationSpec
CONSTANTS
    p1 = p1
    p2 = p2
    i1 = i1
    m1 = m1
    c1 = c1
    Nobody = Nobody
    Processes = {p1}
    Proposals = {i1}
    Cancellations = {c1}
    Target <- InvoiceTarget
    ProviderV2 = {}
    LeaseTicks = 1
    MaxFaults = 0
    Marketplace = {}
    OnBitcoin = {i1}
    MaxRotations = 1
PROPERTIES
    TasksEnd
CHECK_DEADLOCK FALSE
