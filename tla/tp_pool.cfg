\* Several workers whose jobs return.
SPECIFICATION Spec
CONSTANTS
    Workers = {w1, w2, w3}
    Main = main
    Free = free
    MaxJobs = 4
    MaxSpurious = 1
INVARIANTS
    IndInv
    DequeueFindsJob
    EveryJobAccounted
PROPERTIES
    NoStartAfterStop
    ImplementsService
    ShutdownCompletes
    QueuedJobStarts
