\* Only the purge may fail.
\* The bounds end a behaviour, and so does a process that has exited: no deadlock check.
CONSTANTS
    MaxRecords = 4
    MaxStarts = 1
    QueueMax = 2
    BatchSize = 2
    FailingJobs = {"purge"}
    MayStop = FALSE
    MayFailStop = FALSE
    MayMiss = FALSE
    MayCrash = FALSE
SPECIFICATION Spec
INVARIANTS
    NoSilentLoss
CHECK_DEADLOCK FALSE
