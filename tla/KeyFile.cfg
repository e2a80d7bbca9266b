SPECIFICATION Spec
CONSTANTS
    None = None
    Runs = {r1, r2, r3}
    Pids = {p1, p2}
    MaxTries = 2
    MaxLosses = 1
    Faults = {"create", "secure", "write", "sync", "link", "unlink", "remove", "syncdir"}
SYMMETRY Symmetry
INVARIANTS
    TargetIsWhole
    SuccessIsInstalled
    FailureLeavesNothing
PROPERTIES
    NeverReplaced
