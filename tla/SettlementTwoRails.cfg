SPECIFICATION FairSettlementSpec
CONSTANTS
    t1 = t1
    t2 = t2
    t3 = t3
    o1 = o1
    o2 = o2
    Outpoints = {1, 2}
    Sufficient = {1, 2}
    Transfers = {t1, t2, t3}
    SufficientTransfers = {t1, t2, t3}
    TransferTime <- TransferTimes
    Observers = {o1}
    Final = 2
    MaxConfirmations = 3
    CreatedSecond = 1
    Created = 2
    Deadline = 3
    Horizon = 4
INVARIANTS
    SettlementTypeOK
    PaidIsNotExpired
    SampleIsActive
PROPERTIES
    ImplementsOutcome
    EvidenceIsEarnedOnce
    EventuallySettled
CHECK_DEADLOCK FALSE
