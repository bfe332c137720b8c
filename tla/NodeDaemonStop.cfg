SPECIFICATION FairSpec
CONSTANTS
    Instance = {i1}
    Nobody = Nobody
    Space = {s1}
    Kinds = {"provider"}
    MaxGeneration = 1
    ControlStarts = TRUE
    Mortal = {i1}
    StoreFails = TRUE
    GroupsDieWithDaemon = TRUE
INVARIANTS
    FinishedGenerationOwesNothing
    EffectsStayUnderTheirLease
PROPERTIES
    StopTerminates
    ExpiredAuthorityEndsDaemon
CHECK_DEADLOCK FALSE
