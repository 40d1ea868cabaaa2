\* Five records in two processes, the first of which may be killed; a flush may
\* fail at any of its SQLite calls. Two records fill a batch and the queue, so that
\* the queue overflows while a batch is being flushed, and five are one more than
\* memory may hold.
\* The bounds end a behaviour, and so does a process that has exited: no deadlock check.
CONSTANTS
    MaxRecords = 5
    MaxStarts = 2
    QueueMax = 2
    BatchSize = 2
    FailingJobs = {"flush"}
    MayStop = FALSE
    MayFailStop = FALSE
    MayMiss = FALSE
    MayCrash = TRUE
SPECIFICATION Spec
INVARIANTS
    TypeOK
    PipelineOrder
    CountersBalance
    CountersMatchTable
    BoundedMemory
    BoundedLoss
CHECK_DEADLOCK FALSE
