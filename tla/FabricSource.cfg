SPECIFICATION Spec
CONSTANTS
    a = a
    b = b
    Node = {a, b}
    ControlPlane = ControlPlane
    NoOp = NoOp
    NumOps = 1
    NodeOps = 1
    SourceOf <- OpSource
    TargetOf <- OpTarget
    KeyOf <- OpKey
    MaxGateway = 2
    MaxControlPlane = 2
    MaxQueue = 2
INVARIANTS
    TypeOK
    SourceKnowsEffect
    SubmitsOnlyTheUnaccepted
CHECK_DEADLOCK FALSE
