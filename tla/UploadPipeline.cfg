SPECIFICATION PipeSpec
CONSTANTS
    MessageIds = {m1, m2}
    Conversations = {c1}
    Devices = {}
    Events = {}
    Payloads = {}
    Batches <- MCNoBatches
    Scopes = {}
    None = None
    I64Max = 0
    BatchLimit = 2
    MaxAttempts = 1
    MaxRevision = 30
CHECK_DEADLOCK FALSE
PROPERTIES
    DrainsUnlessOvertaken
    SettledDeliveryIsFinal
    ImplementsOfflineSend
