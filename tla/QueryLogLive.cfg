\* A full batch and a rest that only the timeout flushes.
\* The bounds end a behaviour, and so does a process that has exited: no deadlock check.
CONSTANTS
    MaxRecords = 3
    MaxStarts = 1
    QueueMax = 2
    BatchSize = 2
    FailingJobs = {"flush"}
    MayStop = TRUE
    MayFailStop = TRUE
    MayMiss = TRUE
    MayCrash = FALSE
SPECIFICATION FairSpec
INVARIANTS
    NoSilentLoss
PROPERTIES
    EventuallySettled
    ShutdownCompletes
CHECK_DEADLOCK FALSE
