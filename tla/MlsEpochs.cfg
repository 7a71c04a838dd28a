SPECIFICATION Spec
CONSTANTS
    a = a
    b = b
    c = c
    None = None
    Devices = {a, b, c}
    Creator = a
    Plans <- MCPlans
INVARIANTS
    OneBranch
    AddedCanJoin
PROPERTY
    Converges
CHECK_DEADLOCK FALSE
