SPECIFICATION Spec
CONSTANTS
    Child = {c1, c2, c3}
    Pid = {p1, p2}
    Foreign = Foreign
    None = None
SYMMETRY Symmetry
INVARIANTS
    TypeOK
    RegisteredGroupIsOurs
    CompletionIsProof
CHECK_DEADLOCK FALSE
