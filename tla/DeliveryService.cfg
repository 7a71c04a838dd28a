SPECIFICATION Spec
CONSTANTS
    g1 = g1
    g2 = g2
    d1 = d1
    d2 = d2
    m1 = m1
    m2 = m2
    m3 = m3
    i1 = i1
    i2 = i2
    i3 = i3
    x1 = x1
    x2 = x2
    x3 = x3
    None = None
    Global = Global
    Devices = {d1, d2}
    Groups = {g1, g2}
    Scenarios <- MCScenarios
    Handlers = {h1, h2}
    Readers = {d2}
    PageLimit = 1
SYMMETRY MCSymmetry
INVARIANTS
    UploadIdempotent
    AckedIsStored
    SkippedWasInFlight
    PositionsStayReachable
PROPERTIES
    RegressionOnlyOnCreation
CHECK_DEADLOCK FALSE
