SPECIFICATION ProcessSpec
CONSTANTS
    None = None
    KeyFiles = {"f1"}
    Keys = {k1}
    BadKey = BadKey
    Listens = {"a"}
    Texts <- MCTexts
    FipsActive = FALSE
    MaxEdits = 0
    Workers = {w1, w2}
    Clients = {c1, c2}
    ListenerFails = TRUE
    WorkersPanic = TRUE
INVARIANTS
    ExitIsGraceful
PROPERTIES
    ImplementsDaemon
