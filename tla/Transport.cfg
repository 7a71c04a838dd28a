SPECIFICATION Spec
CONSTANTS
    a = a
    b = b
    c = c
    Frames = {f1, f2, f3}
    Refused = {f3}
    Endpoints = {a, b, c}
    Priority <- MCPriority
    Directories <- MCDirectories
    Reachable = {a, b}
    None = None
    MaxEnqueues = 3
    MaxCancels = 1
INVARIANTS
    AnsweredThenQueued
    FailsOncePerFlush
PROPERTIES
    LeavesOnlyFailedRelay
    QueueDrains
