SPECIFICATION Spec
CONSTANTS
    Accounts = {a1, a2}
    Names = {n1, n2, n3}
    Handlers = {h1, h2}
    None = None
INVARIANTS
    OneNamePerAccount
PROPERTIES
    NoNameTaken
    CooldownBrokenOnlyInRace
