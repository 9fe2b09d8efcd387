SPECIFICATION Spec
CONSTANTS
    Requests = {r1, r2}
    Clients = {c1}
    NoClient = NoClient
    NoSession = NoSession
    Tools = {}
    Responses <- MCResponses
    DBErrors = FALSE
    Nobody = Nobody
    NoFile = NoFile
    MaxDay = 1
    MaxLives = 2
    DiskErrors = FALSE
INVARIANTS LogsEveryExchange
CHECK_DEADLOCK FALSE
