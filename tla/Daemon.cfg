SPECIFICATION FairSpec
CONSTANTS
    None = None
    KeyFiles = {"f1", "f2"}
    Keys = {k1, k2}
    BadKey = BadKey
    Listens = {"a", "b"}
    Texts <- MCTexts
    FipsActive = FALSE
    MaxEdits = 2
INVARIANTS
    QuiescentIsCurrent
    ActiveIsValid
PROPERTIES
    ReloadTakesEffect
    StopCompletes
