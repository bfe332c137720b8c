SPECIFICATION Spec
CONSTANTS
    w1 = w1  w2 = w2  m1 = m1  m2 = m2
    Work = {w1, w2}
    Member = {m1, m2}
    NoOwner = NoOwner
    Linked = {}
    Unreliable = {}
    Long = 6
    Short = 3
    MaxVersion <- LongAndShort
    MaxBinding = 1
    MaxGeneration <- NoReopens
    MaxDriver = 1
INVARIANTS
    ExecutionHasPrerequisites
    DependenciesAreAcyclic
    AcceptedOnItsOwnersResult
CHECK_DEADLOCK FALSE
