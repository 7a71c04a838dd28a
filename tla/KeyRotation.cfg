SPECIFICATION Spec
CONSTANTS
    MessageIds = {m1, m2}
    Creators = {a, b}
    Listers = {l}
    Rotators = {r, q}
    None = None
    MaxVersion = 3
INVARIANTS
    ListFailsOnlyOnStaleRow
PROPERTIES
    NoRotationPastStaleRow
    OnlyTheEmbraceBlocks
CHECK_DEADLOCK FALSE
