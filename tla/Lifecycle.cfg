SPECIFICATION Spec
CONSTANTS
    Requests = {r1, r2}
    Shells = {s1}
    Ports = {p1, p2}
    NoPort = NoPort
    MaxPush = 4
    Capacity = 2
    MaxLives = 2
INVARIANTS TypeOK WritesFailOnlyAfterTimeout CleanCloseIsComplete EnvIsTruthful
CHECK_DEADLOCK FALSE
