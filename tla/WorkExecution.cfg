SPECIFICATION Spec
CONSTANTS
    w1 = w1  w2 = w2  m1 = m1  m2 = m2
    Work = {w1}
    Member = {m1}
    NoOwner = NoOwner
    Linked = {w1}
    Unreliable = {m1}
    Long = 5
    Short = 1
    MaxVersion <- LongAndShort
    MaxBinding = 2
    MaxGeneration <- OneReopens
    MaxDriver = 2
INVARIANTS
    TypeOK
    NoReplayWithoutReauthorization
    ResultKeepsItsReceipt
PROPERTIES
    UnsettledClaimHoldsTheWork
CHECK_DEADLOCK FALSE
