SPECIFICATION Spec
CONSTANTS
    Callers = {a, b}
    Sessions = {s, t}
    Nobody = Nobody
    NoFile = NoFile
    MaxCalls = 1
    MaxDay = 1
    MaxLives = 1
    DiskErrors = FALSE
INVARIANT NoDataRace
CHECK_DEADLOCK FALSE
