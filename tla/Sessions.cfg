SPECIFICATION Spec
CONSTANTS
    Devices = {d1}
    Challenges = {c1, c2}
    Tokens = {t1, t2, t3}
    Families = {f1, f2}
    Handlers = {h1, h2, h3}
    None = None
SYMMETRY Symmetry
INVARIANTS
    ReuseRevokesDescendants
    WholeFamilyOrOneToken
    ChallengeOpensOneFamily
CHECK_DEADLOCK FALSE
