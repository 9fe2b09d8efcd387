SPECIFICATION Spec
CONSTANTS
    Requests = {r1, r2, r3}
    Clients = {c1}
    NoClient = NoClient
    NoSession = NoSession
    Tools <- MCTools
    Responses <- MCResponses
    DBErrors = TRUE
SYMMETRY MCSymmetry
INVARIANTS
    TypeOK
    SeqConsecutive
    OneSessionPerClient
    SerialExact
    NeverOvercounts
CHECK_DEADLOCK FALSE
