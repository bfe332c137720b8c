SPECIFICATION Spec
CONSTANTS
    Instance = {p1, p2, p3}
    Nobody = Nobody
    LegacyGeneration = 1
    GenerationCeiling = 3
    LeaseTTL = 1
    DrainTTL = 1
    MaxTime = 1
    DirSyncReliable = TRUE
SYMMETRY Symmetry
INVARIANTS
    TypeOK
    OneOwnerPerGeneration
    GrantsAreDurable
    ReleasedRowIsFinal
    HistoryAdvances
PROPERTIES
    DocumentMovesForward
CHECK_DEADLOCK FALSE
