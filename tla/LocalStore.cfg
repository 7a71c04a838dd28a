SPECIFICATION Spec
CONSTANTS
    MessageIds = {m1, m2}
    Conversations = {c1, c2}
    Devices = {d1}
    Events = {e1, e2}
    Payloads = {p1, p2}
    Batches <- MCBatches
    Scopes = {s1}
    None = None
    I64Max = 1
    BatchLimit = 2
    MaxAttempts = 2
    MaxRevision = 7
INVARIANTS
    TypeOK
    PendingInOutbox
    SettledNotQueued
    RetryScheduledWasAttempted
    ReferentialIntegrity
PROPERTIES
    SettledIsFinal
    ChangesAreObservable
    InboxFirstWriteWins
    CursorsNeverRegress
