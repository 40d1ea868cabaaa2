\* No SQLite call fails and nothing crashes: only Ctrl-C.
\* The bounds end a behaviour, and so does a process that has exited: no deadlock check.
CONSTANTS
    MaxRecords = 4
    MaxStarts = 1
    QueueMax = 2
    BatchSize = 2
    FailingJobs = {}
    MayStop = TRUE
    MayFailStop = FALSE
    MayMiss = FALSE
    MayCrash = FALSE
SPECIFICATION Spec
PROPERTIES
    InFlightRecordsHitDisk
CHECK_DEADLOCK FALSE
