SPECIFICATION SettlementSpec
CONSTANTS
    t1 = t1
    t2 = t2
    t3 = t3
    o1 = o1
    o2 = o2
    Outpoints = {1, 2, 3}
    Sufficient = {1, 3}
    Transfers = {}
    SufficientTransfers = {}
    TransferTime <- NoTransfers
    Observers = {o1, o2}
    Final = 2
    MaxConfirmations = 2
    CreatedSecond = 1
    Created = 2
    Deadline = 3
    Horizon = 4
SYMMETRY Symmetry
INVARIANT
    ContactMeansTimely
PROPERTIES
    ConfirmedMatchIsFrozen
    LateAbsenceIsHarmless
CHECK_DEADLOCK FALSE
