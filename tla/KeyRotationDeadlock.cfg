SPECIFICATION Spec
CONSTANTS
    MessageIds = {m1}
    Creators = {a}
    Listers = {l}
    Rotators = {r}
    None = None
    MaxVersion = 2
PROPERTIES
    CallsReturn
CHECK_DEADLOCK FALSE
