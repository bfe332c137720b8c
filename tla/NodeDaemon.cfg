SPECIFICATION Spec
CONSTANTS
    Instance = {i1, i2}
    Nobody = Nobody
    Space = {s1}
    Kinds = {"provider"}
    MaxGeneration = 2
    ControlStarts = TRUE
    Mortal = {i1, i2}
    StoreFails = FALSE
    GroupsDieWithDaemon = TRUE
SYMMETRY Symmetry
INVARIANT MarkedLaneIsAttached
PROPERTIES
    EffectKeepsItsCommand
    OnlyRollbackLeavesWork
    MachineAuthorityHolds
CHECK_DEADLOCK FALSE
