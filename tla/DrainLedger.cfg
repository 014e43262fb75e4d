SPECIFICATION LedgerSpec
CONSTANTS
    Invoices = {i1, i2, i3}
    MaxDrains = 2
SYMMETRY Symmetry
INVARIANTS
    LedgerTypeOK
    ReplayNeverRefused
    CompletedIsSettled
PROPERTIES
    DrainIsMonotone
    CleanupIsExact
CHECK_DEADLOCK FALSE
