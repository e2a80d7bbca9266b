SPECIFICATION Spec
CONSTANTS
    MaxBytes = 6
    LIMIT = 3
    Forms <- MCForms
    SenderForms <- MCSenderForms
    MaxWords = 5
    MaxLines = 5
    MaxName = 6
    MaxOwn = 3
    MaxDns = 5
    MaxLabel = 3
INVARIANTS
    HashesCanonicalBody
    CanonicalIsRelaxed
    FoldingIsSound
    AcceptsExactlyMailboxes
    ParsesItsForms
    LoadIsStrict
    NamesAreDnsNames
    OwnDomainIsRecognized
