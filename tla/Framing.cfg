SPECIFICATION FairSpec
CONSTANTS
    Base = 2
    MAX_PACKET = 2
    Requests <- MCRequests
    BadLengths = {0, 3}
    Replies <- MCReplies
    Answers <- MCAnswers
    MaxSent = 2
    Window = 4
INVARIANTS
    TypeOK
    PacketsIntact
    CleanCloseLosesNothing
    AnswersIntact
PROPERTIES
    ImplementsChannel
    DeadlineEndsConnection
    RequestsAreHandled
