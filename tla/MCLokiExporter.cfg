SPECIFICATION FairSpec
CONSTANTS
    MaxPush = 3
    LabelsOf <- MCLabelsOf
    BufferSize = 2
    BatchSize = 2
    RetryMax = 1
    Closers = {c1, c2}
INVARIANTS
    TypeOK
    Accounting
    SentIsStored
    BoundedCopies
    StreamIntegrity
    NothingStranded
PROPERTIES ImplementsLogExport EventuallyResolved WorkerStops
CHECK_DEADLOCK FALSE
