SPECIFICATION Spec
CONSTANTS
    a = a
    b = b
    Node = {b}
    ControlPlane = ControlPlane
    NoOp = NoOp
    NumOps = 2
    NodeOps = 0
    SourceOf <- OpSource
    TargetOf <- OpTarget
    KeyOf <- OpKey
    MaxGateway = 3
    MaxControlPlane = 2
    MaxQueue = 2
INVARIANTS
    AppliesAtMostOnce
    QueueIsBounded
PROPERTIES
    ClaimsKeepOrder
    RouteTruthHolds
CHECK_DEADLOCK FALSE
