SPECIFICATION Spec
CONSTANTS
    Requests = {r1}
    Shells = {}
    Ports = {p1}
    NoPort = NoPort
    MaxPush = 2
    Capacity = 2
    MaxLives = 1
INVARIANT GracefulShutdown
CHECK_DEADLOCK FALSE
