SPECIFICATION FairSpec
CONSTANTS
    None = None
    Workers = {w1, w2}
    Clients = {c1, c2, c3}
    ListenerFails = TRUE
    WorkersPanic = TRUE
PROPERTIES
    QueuedIsTaken
