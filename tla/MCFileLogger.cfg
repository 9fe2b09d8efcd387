SPECIFICATION Spec
CONSTANTS
    Callers = {a, b}
    Sessions = {s, t}
    Nobody = Nobody
    NoFile = NoFile
    MaxCalls = 2
    MaxDay = 2
    MaxLives = 2
    DiskErrors = TRUE
INVARIANTS TypeOK OneFilePerLife CallsInOrder ResultsAreTrue
PROPERTY QuietAfterClose
SYMMETRY MCSymmetry
CHECK_DEADLOCK FALSE
