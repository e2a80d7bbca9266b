SPECIFICATION Spec
CONSTANTS
    SIGNED_HEADERS <- MCSigned
    Headers <- MCHeaders
    OwnFrom <- MCOwn
    MaxHeaders = 3
    MaxEdits = 2
INVARIANTS
    VerifiesExactlyTheSigned
