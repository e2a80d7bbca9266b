SPECIFICATION Spec
CONSTANTS
    None = None
    Domains <- MCDomains
    MaxReloads = 1
    DomainOf <- MCDomainOf
    HeaderPackets <- MCHeaders
    BodyChunks = {b1}
    Offers <- MCOffers
    MAX_HEADERS = 2
    MAX_HEADER_BYTES = 3
    CryptoOutcomes = {TRUE}
    Repertoire <- MCRepertoire
    MaxInFlight = 2
    MaxHeaders = 3
    MaxBody = 1
    BodyFirst = FALSE
INVARIANTS
    TypeOK
    ReplyDiscipline
    SignatureCoversMessage
    ConfigWindow
PROPERTIES
    ImplementsService
