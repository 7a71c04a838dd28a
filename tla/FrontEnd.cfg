SPECIFICATION Spec
CONSTANTS
    d1 = d1
    d2 = d2
    h1 = h1
    h2 = h2
    h3 = h3
    e1 = e1
    e2 = e2
    p1 = p1
    w1 = w1
    w2 = w2
    None = None
    Clients = {d1, d2}
    Handlers = {h1, h2, h3}
    Sender <- MCSender
    Events = {e1, e2}
    Packages = {p1}
    Welcomes = {w1, w2}
    Lapsing = {w1}
    Addressee <- MCAddressee
    Audience <- MCAudience
    Workloads <- MCWorkloads
    Size <- MCSize
    FrameLimit = 1
    MaxConnections = 2
    MaxFaults <- MCMaxFaults
INVARIANTS
    NoLostWakeup
    HandedOutOnce
    ConsumedWasSent
PROPERTIES
    EventsArrive
    WelcomesArrive
CHECK_DEADLOCK FALSE
