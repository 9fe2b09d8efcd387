SPECIFICATION FairSpec
CONSTANTS
    Requests = {r1, r2}
    MaxConcurrent = 1
    MaxBuffer = 2
    Frames <- MCFrames
    MaxFrames = 3
INVARIANTS TypeOK SlotsHeld ResponsesLabelled ObserverHarmless NoSilentLoss
PROPERTY WaitersAdmitted
CHECK_DEADLOCK FALSE
