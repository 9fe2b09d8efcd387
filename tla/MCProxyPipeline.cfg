SPECIFICATION FairSpec
CONSTANTS
    Requests = {r1, r2}
    Clients = {c1}
    NoClient = NoClient
    NoSession = NoSession
    Tools = {}
    Responses <- MCResponses
    DBErrors = TRUE
    Nobody = Nobody
    NoFile = NoFile
    MaxDay = 2
    MaxLives = 2
    DiskErrors = FALSE
INVARIANTS TypeOK QuietLogInOrder QuietExchangesLogged LokiOffered CountsAreLogged OneFileForReader
PROPERTY NeverHeldUp
CHECK_DEADLOCK FALSE
