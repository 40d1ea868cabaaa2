------------------------------- MODULE QueryLog -------------------------------
(***************************************************************************)
(* QueryLog of sentinel_dns/query_log.py: the forwarder hands a record to  *)
(* log_nowait, a writer coroutine batches the records, and jobs on the     *)
(* default thread executor insert the batches into an SQLite table.  A     *)
(* retention coroutine deletes old rows, stop() ends everything.           *)
(*                                                                         *)
(* Two kinds of steps interleave.  A step of the event loop runs from one  *)
(* await to the next.  A step of an executor thread is one call into       *)
(* SQLite, which serializes the calls.  The flush, the flush of the        *)
(* cancellation handler, the purge and the close are four jobs, and all of *)
(* them use ONE connection, hence one transaction: whoever commits or      *)
(* rolls back does so for every job that has changed the table since.      *)
(*                                                                         *)
(* A record is the number of its arrival, which is also its timestamp.     *)
(***************************************************************************)
EXTENDS Integers, Sequences, SequencesExt, FiniteSets

CONSTANTS MaxRecords,   \* bound: records that arrive in a behaviour
          MaxStarts,    \* bound: processes that open the same file
          QueueMax,     \* queue_max, query_log.py:109
          BatchSize,    \* batch_size, query_log.py:110
          FailingJobs,  \* jobs whose SQLite calls may raise sqlite3.Error
          MayStop,      \* whether the process is stopped by Ctrl-C
          MayFailStop,  \* whether serve() may end with an error before stop()
          MayMiss,      \* whether asyncio is that of Python 3.11, see Cancellation
          MayCrash      \* whether the process may be killed

FlushJobs == {"flush", "final"}  \* _flush, of the loop and of its handler
Jobs      == FlushJobs \cup {"purge", "close"}

ASSUME BoundsAssumption == MaxRecords \in Nat /\ MaxStarts \in Nat
ASSUME SizesAssumption  == QueueMax \in Nat \ {0} /\ BatchSize \in Nat \ {0}
ASSUME JobsAssumption   == FailingJobs \subseteq {"flush", "final", "purge"}
ASSUME StopAssumption   == {MayStop, MayFailStop, MayMiss, MayCrash} \subseteq BOOLEAN

Records == 1..MaxRecords

VARIABLES
    starts,    \* processes started so far
    serve,     \* "up", "stopping" (in stop()), "leaving" (serve() returned), "exited"
    base,      \* records that arrived before this process
    arrived,   \* records that arrived so far
    queue,     \* self.queue
    dropped,   \* the records dropped_overflow counts
    writer,    \* _run_writer_loop: "get", "flush", "final" (in the handler), "done"
    batch,     \* its local `batch`, the very list the flush jobs are given
    cancel,    \* its cancellation: "none", "due", "missed" (wait_for swallows it)
    retention, \* _run_retention_loop: "sleep", "purge", "done"
    cutoff,    \* latest cutoff_ns: the records up to it are old
    job,       \* job[j]: "idle", "queued", "running", "done", "raised"
    todo,      \* rows the executemany of a flush job has still to insert
    conn,      \* _conn: "open", "closed" (close() returned), "none"
    inTxn,     \* the connection has a transaction under way
    view,      \* the table as the connection sees it
    disk,      \* the table as it was last committed
    warned,    \* records named by "query log flush failed ... dropping"
    written,   \* self.written
    deleted,   \* rows the purge in progress has deleted
    purged     \* self.purged

procVars   == <<starts, serve, base>>
arrivals   == <<arrived, queue, dropped>>
writerVars == <<writer, batch, cancel>>
purgeVars  == <<retention, cutoff>>
sqlVars    == <<conn, inTxn, view, disk>>
tallies    == <<warned, written, deleted, purged>>
vars == <<procVars, arrivals, writerVars, purgeVars, job, todo, sqlVars, tallies>>

------------------------------------------------------------------------------
(* The table: rows under their AUTOINCREMENT ids, and the last id given.   *)

EmptyTable == [rows |-> {}, seq |-> 0]

(* Mutant of Insert: INTEGER PRIMARY KEY without AUTOINCREMENT gives the   *)
(* largest id in the table plus one.                                       *)
InsertAfterLargest(table, n) ==
    LET next == 1 + (CHOOSE m \in 0..table.seq :
                        /\ m = 0 \/ \E r \in table.rows : r.id = m
                        /\ \A r \in table.rows : r.id <= m)
    IN [rows |-> table.rows \cup {[id |-> next, rec |-> n]}, seq |-> next]

Insert(table, n) ==
    [rows |-> table.rows \cup {[id |-> table.seq + 1, rec |-> n]},
     seq  |-> table.seq + 1]

Delete(table, limit) ==
    [table EXCEPT !.rows = {r \in @ : r.rec > limit}]

Recs(table) == {r.rec : r \in table.rows}

Set(j, state) == job' = [job EXCEPT ![j] = state]

(* COMMIT and ROLLBACK act on the transaction of the connection, whichever *)
(* job opened it.  Without one they do nothing.                            *)
Commit   == disk' = view /\ inTxn' = FALSE /\ UNCHANGED <<conn, view>>
Rollback == view' = disk /\ inTxn' = FALSE /\ UNCHANGED <<conn, disk>>

------------------------------------------------------------------------------
(* start: a process opens the file, whatever an earlier one left in it.    *)

Init ==
    /\ starts = 1 /\ serve = "up"
    /\ base = 0 /\ arrived = 0
    /\ queue = << >> /\ dropped = {}
    /\ writer = "get" /\ batch = << >> /\ cancel = "none"
    /\ retention = "sleep" /\ cutoff = 0
    /\ job = [j \in Jobs |-> "idle"]
    /\ todo = [j \in FlushJobs |-> << >>]
    /\ conn = "open" /\ inTxn = FALSE
    /\ view = EmptyTable /\ disk = EmptyTable
    /\ warned = {} /\ written = 0 /\ deleted = 0 /\ purged = 0

Start ==
    /\ serve = "exited" /\ starts < MaxStarts
    /\ starts' = starts + 1 /\ serve' = "up"
    /\ base' = arrived
    /\ writer' = "get" /\ retention' = "sleep"
    /\ conn' = "open" /\ inTxn' = FALSE /\ view' = disk
    /\ warned' = {} /\ dropped' = {} /\ written' = 0 /\ purged' = 0
    /\ UNCHANGED <<arrived, queue, batch, cancel, cutoff, job, todo, disk, deleted>>

(* The memory of a process that is gone.  SQLite undoes what it had not    *)
(* committed when the next process opens the file.                         *)
Forget ==
    /\ serve' = "exited"
    /\ queue' = << >> /\ batch' = << >>
    /\ writer' = "done" /\ retention' = "done" /\ cancel' = "none"
    /\ job' = [j \in Jobs |-> "idle"]
    /\ todo' = [j \in FlushJobs |-> << >>]
    /\ conn' = "none" /\ inTxn' = FALSE /\ view' = disk
    /\ deleted' = 0
    /\ UNCHANGED <<starts, base, arrived, dropped, cutoff, disk, warned,
                   written, purged>>

Crash == MayCrash /\ serve # "exited" /\ Forget

------------------------------------------------------------------------------
(* Steps of the event loop.                                                *)

Running == serve = "up" /\ writer \in {"get", "flush"}

(* A _handle task reaches _record.  Once stop() has cancelled the writer   *)
(* there are still tasks in the ready queue, all of them before it.        *)
Arrive ==
    /\ \/ serve = "up"
       \/ serve = "stopping" /\ cancel # "none"
    /\ writer \in {"get", "flush"}
    /\ arrived < MaxRecords
    /\ arrived' = arrived + 1
    /\ UNCHANGED <<procVars, writerVars, purgeVars, job, todo, sqlVars, tallies>>

LogNowait ==
    /\ Arrive
    /\ Len(queue) < QueueMax
    /\ queue' = Append(queue, arrived + 1)
    /\ UNCHANGED dropped

(* Mutant of Overflowed: only the first drop is counted, the one that is   *)
(* logged.                                                                 *)
OverflowedFirst(n) == IF dropped = {} THEN {n} ELSE dropped

Overflowed(n) == dropped \cup {n}

LogOverflow ==
    /\ Arrive
    /\ Len(queue) >= QueueMax
    /\ dropped' = Overflowed(arrived + 1)
    /\ UNCHANGED queue

(* Mutants of Full, Begun and AfterFlush: the batch may grow past          *)
(* batch_size; the timeout flushes full batches only; `batch = []` is      *)
(* missing.                                                                *)
FullOneMore(b)     == Len(b) > BatchSize
BegunFull(b)       == Len(b) >= BatchSize
AfterFlushSame(b)  == b

Full(b)       == Len(b) >= BatchSize
Begun(b)      == b # << >>
AfterFlush(b) == << >>

(* queue.get() returned a record before the timeout.                       *)
WriterTake ==
    /\ writer = "get" /\ cancel # "due"
    /\ queue # << >>
    /\ batch' = Append(batch, Head(queue))
    /\ queue' = Tail(queue)
    /\ cancel' = "none"
    /\ IF Full(batch')
       THEN writer' = "flush" /\ Set("flush", "queued")
       ELSE UNCHANGED <<writer, job>>
    /\ UNCHANGED <<procVars, arrived, dropped, purgeVars, todo, sqlVars, tallies>>

(* TimeoutError with a batch begun.  A record that arrives while the timer *)
(* fires stays in the queue, so the queue need not be empty.               *)
WriterTimeout ==
    /\ writer = "get" /\ cancel = "none"
    /\ Begun(batch)
    /\ writer' = "flush" /\ Set("flush", "queued")
    /\ UNCHANGED <<procVars, arrivals, batch, cancel, purgeVars, todo, sqlVars, tallies>>

(* The await of the flush returns; `batch` names a new list.               *)
WriterResume ==
    /\ writer = "flush" /\ cancel = "none"
    /\ job["flush"] = "done"
    /\ writer' = "get" /\ batch' = AfterFlush(batch)
    /\ Set("flush", "idle")
    /\ UNCHANGED <<procVars, arrivals, cancel, purgeVars, todo, sqlVars, tallies>>

(* Mutant of Cutoffs: the retention period is added to the time.           *)
CutoffsAhead == cutoff..(arrived + 1)

Cutoffs == cutoff..arrived

(* The hourly wake-up reads the clock and hands the purge its cutoff.      *)
RetentionWake ==
    /\ serve = "up" /\ retention = "sleep"
    /\ cutoff' \in Cutoffs
    /\ retention' = "purge" /\ Set("purge", "queued")
    /\ UNCHANGED <<procVars, arrivals, writerVars, todo, sqlVars, tallies>>

(* The await of the purge returns or raises sqlite3.Error.                 *)
RetentionResume ==
    /\ serve = "up" /\ retention = "purge"
    /\ job["purge"] \in {"done", "raised"}
    /\ purged' = IF job["purge"] = "done" THEN purged + deleted ELSE purged
    /\ deleted' = 0
    /\ retention' = "sleep" /\ Set("purge", "idle")
    /\ UNCHANGED <<procVars, arrivals, writerVars, cutoff, todo, sqlVars, warned, written>>

------------------------------------------------------------------------------
(* The end of the service.                                                 *)

(* Cancelling an await of the executor withdraws a job that no thread has  *)
(* taken yet and leaves a running one alone.                               *)
Withdrawn(j) == IF job[j] = "queued" THEN "idle" ELSE job[j]

(* Mutant of Cancellation: the loop catches CancelledError like            *)
(* TimeoutError.                                                           *)
CancellationIgnored == {"none"}

(* task.cancel() of the writer takes effect when the task runs next.  Up   *)
(* to Python 3.11 wait_for returns the record that queue.get() has got     *)
(* meanwhile, and the cancellation is gone; since 3.12 it raises           *)
(* CancelledError and the record stays in the queue.                       *)
Cancellation ==
    {"due"} \cup (IF MayMiss /\ writer = "get" /\ queue # << >> THEN {"missed"} ELSE {})

(* stop() cancels both tasks and submits _close before either task has run *)
(* again.  The retention loop has no handler, the writer's is              *)
(* WriterCancelled.                                                        *)
Stop ==
    /\ MayStop
    /\ serve = "up" /\ serve' = "stopping"
    /\ retention' = "done" /\ cancel' \in Cancellation
    /\ job' = [j \in Jobs |-> IF j = "close" THEN "queued" ELSE Withdrawn(j)]
    /\ UNCHANGED <<starts, base, arrivals, writer, batch, cutoff, todo, sqlVars, tallies>>

(* serve() raises before it gets to stop(): the socket cannot be bound, or *)
(* aclose() fails.  The runner of asyncio.run cancels all tasks, nobody    *)
(* closes the connection.                                                  *)
StopSkipped ==
    /\ MayFailStop
    /\ serve = "up" /\ serve' = "leaving"
    /\ retention' = "done" /\ cancel' \in Cancellation
    /\ job' = [j \in Jobs |-> Withdrawn(j)]
    /\ UNCHANGED <<starts, base, arrivals, writer, batch, cutoff, todo, sqlVars, tallies>>

(* Mutant of Drained: the handler flushes only what it has drained.        *)
DrainedOnly(b, q) == q

(* while not self.queue.empty(): batch.append(self.queue.get_nowait())     *)
Drained(b, q) == b \o q

(* CancelledError at either await of the writer, also at the one of a      *)
(* flush that has just finished: `batch` is not reset.                     *)
WriterCancelled ==
    /\ writer \in {"get", "flush"} /\ cancel = "due"
    /\ batch' = Drained(batch, queue)
    /\ queue' = << >>
    /\ cancel' = "none"
    /\ IF Begun(batch')
       THEN writer' = "final" /\ Set("final", "queued")
       ELSE writer' = "done" /\ UNCHANGED job
    /\ UNCHANGED <<procVars, arrived, dropped, purgeVars, todo, sqlVars, tallies>>

(* The last flush returned, or a flush raised AssertionError.              *)
WriterFinished ==
    /\ writer \in FlushJobs /\ cancel = "none"
    /\ \/ job[writer] = "raised"
       \/ writer = "final" /\ job["final"] = "done"
    /\ writer' = "done"
    /\ UNCHANGED <<procVars, arrivals, batch, cancel, purgeVars, job, todo, sqlVars, tallies>>

(* stop() and serve() return.  The runner of asyncio.run cancels a writer  *)
(* that is still there: one that awaits its last flush ends, one that has  *)
(* missed its cancellation gets another.                                   *)
ServeReturns ==
    /\ serve = "stopping" /\ cancel = "none"
    /\ job["close"] \in {"done", "raised"}
    /\ serve' = "leaving"
    /\ IF writer \in {"final", "done"}
       THEN writer' = "done" /\ UNCHANGED cancel
       ELSE cancel' \in Cancellation /\ UNCHANGED writer
    /\ job' = [j \in Jobs |-> IF j \in FlushJobs THEN Withdrawn(j) ELSE job[j]]
    /\ UNCHANGED <<starts, base, arrivals, batch, purgeVars, todo, sqlVars, tallies>>

(* The runner waits for the tasks it has cancelled and for the executor's  *)
(* threads, then the process ends.                                         *)
ProcessExit ==
    /\ serve = "leaving" /\ writer = "done"
    /\ \A j \in Jobs : job[j] \notin {"queued", "running"}
    /\ Forget

------------------------------------------------------------------------------
(* Steps of the executor's threads: _flush on behalf of job j.             *)

(* The assertion, the rows of the batch as it is now, and BEGIN.           *)
FlushStart(j) ==
    /\ job[j] = "queued"
    /\ conn = "open"
    /\ Set(j, "running")
    /\ todo' = [todo EXCEPT ![j] = batch]
    /\ inTxn' = TRUE
    /\ UNCHANGED <<procVars, arrivals, writerVars, purgeVars, conn, view, disk, tallies>>

(* One INSERT.  Another job may have ended the transaction in the middle   *)
(* of the executemany, the remaining rows are then committed one by one.   *)
FlushInsert(j) ==
    /\ job[j] = "running"
    /\ conn = "open" /\ todo[j] # << >>
    /\ view' = Insert(view, Head(todo[j]))
    /\ disk' = IF inTxn THEN disk ELSE view'
    /\ todo' = [todo EXCEPT ![j] = Tail(@)]
    /\ UNCHANGED <<procVars, arrivals, writerVars, purgeVars, job, conn, inTxn, tallies>>

(* Mutant of Counted: every flush counts as a full batch.                  *)
CountedFull(b) == BatchSize

Counted(b) == Len(b)

(* The end of the `with` block.  `records` is the writer's list, which the *)
(* drain of the cancellation handler may have extended by now.             *)
FlushCommit(j) ==
    /\ job[j] = "running"
    /\ conn = "open" /\ todo[j] = << >>
    /\ Commit
    /\ written' = written + Counted(batch)
    /\ Set(j, "done")
    /\ UNCHANGED <<procVars, arrivals, writerVars, purgeVars, todo, warned, deleted, purged>>

(* sqlite3.Error from any call in the block: rollback, warning, return.    *)
(* Every call on a closed connection raises it.                            *)
FlushError(j) ==
    /\ \/ job[j] = "running" /\ (conn # "open" \/ j \in FailingJobs)
       \/ job[j] = "queued" /\ conn = "closed"
    /\ IF conn = "open" THEN Rollback ELSE UNCHANGED sqlVars
    /\ todo' = [todo EXCEPT ![j] = << >>]
    /\ warned' = warned \cup ToSet(batch)
    /\ Set(j, "done")
    /\ UNCHANGED <<procVars, arrivals, writerVars, purgeVars, written, deleted, purged>>

(* `assert self._conn is not None` fails: no sqlite3.Error, not caught.    *)
FlushAssertion(j) ==
    /\ job[j] = "queued" /\ conn = "none"
    /\ Set(j, "raised")
    /\ UNCHANGED <<procVars, arrivals, writerVars, purgeVars, todo, sqlVars, tallies>>

(* _purge: BEGIN and DELETE, then COMMIT.                                  *)
PurgeDelete ==
    /\ job["purge"] = "queued" /\ conn = "open"
    /\ Set("purge", "running")
    /\ inTxn' = TRUE
    /\ view' = Delete(view, cutoff)
    /\ deleted' = Cardinality(view.rows \ view'.rows)
    /\ UNCHANGED <<procVars, arrivals, writerVars, purgeVars, todo, conn, disk, warned, written, purged>>

PurgeCommit ==
    /\ job["purge"] = "running" /\ conn = "open"
    /\ Commit
    /\ Set("purge", "done")
    /\ UNCHANGED <<procVars, arrivals, writerVars, purgeVars, todo, tallies>>

(* Any error ends the job: sqlite3.Error, or the failed assertion.         *)
PurgeError ==
    /\ \/ job["purge"] = "running" /\ (conn # "open" \/ "purge" \in FailingJobs)
       \/ job["purge"] = "queued" /\ (conn # "open" \/ "purge" \in FailingJobs)
    /\ IF conn = "open" THEN Rollback ELSE UNCHANGED sqlVars
    /\ Set("purge", "raised")
    /\ UNCHANGED <<procVars, arrivals, writerVars, purgeVars, todo, tallies>>

(* _close: closing the connection undoes an open transaction.              *)
CloseConnection ==
    /\ job["close"] = "queued" /\ conn = "open"
    /\ Set("close", "running")
    /\ conn' = "closed" /\ inTxn' = FALSE /\ view' = disk
    /\ UNCHANGED <<procVars, arrivals, writerVars, purgeVars, todo, disk, tallies>>

CloseDone ==
    /\ job["close"] = "running"
    /\ conn' = "none"
    /\ Set("close", "done")
    /\ UNCHANGED <<procVars, arrivals, writerVars, purgeVars, todo, inTxn, view, disk, tallies>>

------------------------------------------------------------------------------
FlushStep(j) ==
    FlushStart(j) \/ FlushInsert(j) \/ FlushCommit(j) \/ FlushError(j) \/ FlushAssertion(j)
PurgeStep == PurgeDelete \/ PurgeCommit \/ PurgeError
CloseStep == CloseConnection \/ CloseDone

WriterStep == WriterTake \/ WriterTimeout \/ WriterResume \/ WriterCancelled \/ WriterFinished
RetentionStep == RetentionWake \/ RetentionResume
ServeStep == ServeReturns \/ ProcessExit

Next ==
    \/ Start \/ Crash \/ Stop \/ StopSkipped
    \/ LogNowait \/ LogOverflow
    \/ WriterStep \/ RetentionStep \/ ServeStep
    \/ \E j \in FlushJobs : FlushStep(j)
    \/ PurgeStep \/ CloseStep

Spec == Init /\ [][Next]_vars

(* The loop gets round to every coroutine that can go on, the executor to  *)
(* every job.  Records, wake-ups of the retention loop, Ctrl-C, crashes    *)
(* and restarts are nobody's duty.                                         *)
Fairness ==
    /\ WF_vars(WriterStep)
    /\ WF_vars(RetentionResume)
    /\ WF_vars(ServeStep)
    /\ \A j \in FlushJobs : WF_vars(FlushStep(j))
    /\ WF_vars(PurgeStep)
    /\ WF_vars(CloseStep)

FairSpec == Spec /\ Fairness

------------------------------------------------------------------------------
Sequences == Seq(Records)
Tables == {t \in [rows : SUBSET [id : Nat, rec : Records], seq : Nat] :
              /\ IsFiniteSet(t.rows)
              /\ \A r \in t.rows : r.id \in 1..t.seq}

TypeOK ==
    /\ starts \in Nat /\ serve \in {"up", "stopping", "leaving", "exited"}
    /\ arrived \in 0..MaxRecords /\ base \in 0..arrived
    /\ queue \in Sequences /\ dropped \subseteq Records
    /\ writer \in {"get", "flush", "final", "done"} /\ batch \in Sequences
    /\ cancel \in {"none", "due", "missed"}
    /\ retention \in {"sleep", "purge", "done"} /\ cutoff \in 0..arrived
    /\ job \in [Jobs -> {"idle", "queued", "running", "done", "raised"}]
    /\ todo \in [FlushJobs -> Sequences]
    /\ conn \in {"open", "closed", "none"} /\ inTxn \in BOOLEAN
    /\ view \in Tables /\ disk \in Tables
    /\ warned \subseteq Records
    /\ written \in Nat /\ deleted \in Nat /\ purged \in Nat

(* Rows of the batch that the flush in progress has not inserted yet.      *)
Unwritten ==
    CASE writer = "get" \/ job["flush"] = "queued" -> ToSet(batch)
      [] writer # "get" /\ job["flush"] = "running" -> ToSet(todo["flush"])
      [] OTHER -> {}

Increasing(s) == \A i, j \in DOMAIN s : i < j => s[i] < s[j]

(* While the log is in use a record is in one place and keeps its place in *)
(* the order of arrival: the ids of the table, the batch and the queue     *)
(* follow one another although rows are inserted one at a time, in another *)
(* thread, in a transaction that the purge may commit half-way             *)
(* (query_log.py:189-195, 211-213, 235-236).                               *)
PipelineOrder ==
    Running =>
        /\ Increasing(batch) /\ Increasing(queue)
        /\ \A m \in ToSet(batch), n \in ToSet(queue) : m < n
        /\ \A n \in ToSet(batch) \cup ToSet(queue) : n > base
        /\ \A r, s \in view.rows : r.rec > base /\ r.id < s.id => r.rec < s.rec
        /\ \A r \in view.rows, n \in Unwritten \cup ToSet(queue) : r.rec < n

(* Until the process has ended, a record that is no longer in memory is in *)
(* the committed table, or the log has said that it is not: dropped on     *)
(* overflow, named in a warning, or older than the retention period; also  *)
(* while the handler of the cancellation and a flush that goes on use the  *)
(* same list, and after the close (query_log.py:3-4, 143-158, 194,         *)
(* 200-215, 236).                                                          *)
Unaccounted(n) == n \notin Recs(disk) \cup dropped \cup warned /\ n > cutoff

NoSilentLoss ==
    serve # "exited" =>
        \A n \in (base + 1)..arrived :
            Unaccounted(n) => n \in ToSet(queue) \cup ToSet(batch)

(* However a process ends, at most what its queue and one batch hold is    *)
(* lost without a word (query_log.py:109-110, 151-158, 200-215).           *)
BoundedLoss ==
    Cardinality({n \in (base + 1)..arrived : Unaccounted(n)}) <= QueueMax + BatchSize

(* The counters of `stats` and the warnings account for every record once, *)
(* at every moment between two flushes as well as during one               *)
(* (query_log.py:155, 160-167, 213, 215).                                  *)
CountersBalance ==
    Running =>
        written + Cardinality(warned) + Cardinality(dropped) + Len(queue)
            + (IF job["flush"] = "done" THEN 0 ELSE Len(batch))
        = arrived - base

(* `written` less `purged` is the number of rows in the table, whenever    *)
(* neither a flush nor a purge is under way: the two counters, kept by an  *)
(* executor thread and by the loop, describe what the shared transaction   *)
(* committed (query_log.py:213, 227, 235-237).  Of the first process, and  *)
(* until a flush fails: the purge may have committed some of its rows.     *)
CountersMatchTable ==
    Running /\ base = 0 /\ warned = {} /\ job["flush"] = "idle" /\ job["purge"] = "idle" =>
        Cardinality(disk.rows) = written - purged

(* The memory of the log is bounded by its two limits, also while the      *)
(* cancellation handler moves the queue to the batch that a running flush  *)
(* still holds (query_log.py:119, 193, 202-203).                           *)
BoundedMemory == Len(queue) + Len(batch) <= QueueMax + BatchSize

(* A record has one row, or two if Ctrl-C came during its flush: the       *)
(* handler flushes the list that the thread is still inserting once more,  *)
(* after a failure, a purge or a crash as well (query_log.py:194, 198,     *)
(* 202-205).                                                               *)
RowsOf(n) == {r \in disk.rows : r.rec = n}
TwoRowsAtMost ==
    \A n \in Records :
        Cardinality(RowsOf(n)) <= IF Running /\ n > base THEN 1 ELSE 2

(* What a reader of the file sees: module DurableTable.                    *)
Durable == INSTANCE DurableTable WITH table <- disk, limit <- cutoff

(* The committed table only grows at the end of its ids and loses only     *)
(* rows that the retention period has passed, whichever of the four jobs   *)
(* commits, fails or is cut short by a shutdown or a crash, and across     *)
(* restarts (query_log.py:38-40, 178-181, 208-215, 233-237).               *)
ImplementsDurableTable == Durable!Spec

(* A record in memory leaves it: into the table, or with a warning, or     *)
(* past the retention period, or because the log is shut down              *)
(* (query_log.py:187-199).                                                 *)
Settled(n) == n \in Recs(disk) \cup warned \/ n <= cutoff
EventuallySettled ==
    \A n \in Records :
        n \in ToSet(queue) \cup ToSet(batch) ~> Settled(n) \/ serve # "up"

(* Whoever awaits a job of the executor awaits one that is there and has   *)
(* not been withdrawn by a cancellation meant for somebody else, and the   *)
(* writer is left without an end only by two accidents: stop() is skipped  *)
(* and the writer misses its cancellation.  Then nobody cancels it again;  *)
(* after stop() a writer that has missed its cancellation still has a      *)
(* record, and the assertion of _flush ends it (query_log.py:143-149,      *)
(* 178-181, 189-191, 194, 198, 200-209, 226; forwarder.py:316-319).        *)
Stranded ==
    /\ serve = "leaving" /\ writer = "get" /\ cancel = "none"
    /\ queue = << >> /\ batch = << >>

NobodyWaitsInVain ==
    /\ writer = "flush" /\ cancel = "none" => job["flush"] # "idle"
    /\ writer = "final" => job["final"] # "idle"
    /\ retention = "purge" => job["purge"] # "idle"
    /\ serve = "stopping" => job["close"] # "idle"
    /\ Stranded => MayMiss /\ MayFailStop /\ conn = "open"

(* Ctrl-C and an error in serve end the process: no job, handler or        *)
(* cancellation waits for one that waits for it, unless the writer is      *)
(* stranded (query_log.py:143-149, 178-181, 189-191, 200-209;              *)
(* forwarder.py:316-319).                                                  *)
ShutdownCompletes ==
    serve \in {"stopping", "leaving"} ~> serve = "exited" \/ Stranded

------------------------------------------------------------------------------
(* docs/query-log.md:76: "On a normal Ctrl-C the in-flight records hit     *)
(* disk before the process exits."                                         *)
InFlightRecordsHitDisk ==
    [][ProcessExit =>
         \A n \in (base + 1)..arrived :
            n \in Recs(disk') \cup dropped \/ n <= cutoff]_vars

==============================================================================
