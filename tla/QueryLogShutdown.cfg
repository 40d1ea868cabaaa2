\* Everything may fail, stop and crash, and a second process opens the file again.
\* Three records: one batch and the beginning of the next.
\* The bounds end a behaviour, and so does a process that has exited: no deadlock check.
CONSTANTS
    MaxRecords = 3
    MaxStarts = 2
    QueueMax = 2
    BatchSize = 2
    FailingJobs = {"flush", "final", "purge"}
    MayStop = TRUE
    MayFailStop = TRUE
    MayMiss = TRUE
    MayCrash = TRUE
SPECIFICATION Spec
INVARIANTS
    TwoRowsAtMost
    NobodyWaitsInVain
PROPERTIES
    ImplementsDurableTable
CHECK_DEADLOCK FALSE
