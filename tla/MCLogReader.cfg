SPECIFICATION Spec
CONSTANTS
    Exchanges = {1, 2}
    Streamed = {1}
    Message <- MCMessage
    MaxTime = 2
INVARIANTS TypeOK TurnsPaired TimelineForward BlocksExact
CHECK_DEADLOCK FALSE
