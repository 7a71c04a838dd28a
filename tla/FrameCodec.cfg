SPECIFICATION CodecSpec
CONSTANTS
    MaxFrameSize = 271
    MaxTtl = 2592000
    MaxContent = 256
    IdSize = 2
    Values <- MCValues
    Forgeries <- MCForgeries
INVARIANTS
    AcceptsOnlyItsEncoding
    RoundTrip
CHECK_DEADLOCK FALSE
