SPECIFICATION FairSpec
CONSTANTS
    None = None
    Domains <- MCDomains
    MaxReloads = 0
    DomainOf <- OneDomain
    HeaderPackets <- FewHeaders
    BodyChunks = {b1}
    Offers <- FewOffers
    MAX_HEADERS = 2
    MAX_HEADER_BYTES = 3
    CryptoOutcomes = {TRUE, FALSE}
    Repertoire <- FullRepertoire
    MaxInFlight = 2
    MaxHeaders = 1
    MaxBody = 1
    BodyFirst = FALSE
PROPERTIES
    EveryCommandAnswered
