SPECIFICATION FairSpec
CONSTANTS
    Instance = {i1, i2}
    Nobody = Nobody
    Space = {s1}
    Kinds = {"message"}
    MaxGeneration = 2
    ControlStarts = FALSE
    Mortal = {i1}
    StoreFails = FALSE
    GroupsDieWithDaemon = TRUE
INVARIANT
    FinishedGenerationOwesNothing
PROPERTY
    DeadPredecessorIsRecovered
CHECK_DEADLOCK FALSE
