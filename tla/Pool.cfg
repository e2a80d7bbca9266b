SPECIFICATION Spec
CONSTANTS
    None = None
    Workers = {w1, w2}
    Clients = {c1, c2, c3, c4, c5, c6}
    ListenerFails = TRUE
    WorkersPanic = TRUE
SYMMETRY Symmetry
INVARIANTS
    TypeOK
    PoolNeverShrinks
PROPERTIES
    NothingStartsAfterShutdown
