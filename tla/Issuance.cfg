SPECIFICATION IssuanceSpec
CONSTANTS
    i1 = i1
    m1 = m1
    m2 = m2
    Operations = {i1, m1, m2}
    Marketplace = {m1, m2}
    OnBitcoin = {i1, m1}
    MaxRotations = 2
INVARIANTS
    IssuanceTypeOK
    AddressIsAccountedFor
    ChildIndexIsFresh
    NoIndexIsLost
PROPERTIES
    PublishedOnCurrentAccount
    TerminalStaysUnpublished
CHECK_DEADLOCK FALSE
