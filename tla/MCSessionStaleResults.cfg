SPECIFICATION Spec
CONSTANTS
    Requests = {r1, r2, r3}
    Clients = {c1}
    NoClient = NoClient
    NoSession = NoSession
    Tools <- MCTools
    Responses <- MCManyCalls
    DBErrors = FALSE
SYMMETRY MCSymmetry
INVARIANT ResultsOfPreviousTurn
CHECK_DEADLOCK FALSE
