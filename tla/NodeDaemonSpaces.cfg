SPECIFICATION Spec
CONSTANTS
    Instance = {i1, i2}
    Nobody = Nobody
    Space = {s1, s2}
    Kinds = {"provider"}
    MaxGeneration = 1
    ControlStarts = FALSE
    Mortal = {i1, i2}
    StoreFails = FALSE
    GroupsDieWithDaemon = TRUE
SYMMETRY Symmetry
INVARIANTS
    TypeOK
    FinishedGenerationOwesNothing
    EffectsStayUnderTheirLease
CHECK_DEADLOCK FALSE
