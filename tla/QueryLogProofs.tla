--------------------------- MODULE QueryLogProofs ---------------------------
(***************************************************************************)
(* Theorems about QueryLog for every number of records and processes and   *)
(* every size of queue and batch: its types, the bound on its memory, the  *)
(* durable table that it implements, and what becomes of every record      *)
(* while records arrive, batches are flushed and old rows deleted.         *)
(***************************************************************************)
EXTENDS QueryLog, SequenceFacts

(* Inserting a record into a table of rows with used ids gives such a      *)
(* table again (INSERT_SQL, query_log.py:57-62).                           *)
LEMMA InsertIsTable ==
    ASSUME NEW t \in Tables, NEW n \in Records
    PROVE  Insert(t, n) \in Tables
<1>1. IsFiniteSet(t.rows \cup {[id |-> t.seq + 1, rec |-> n]})
  BY FS_AddElement DEF Tables
<1> QED
  BY <1>1 DEF Tables, Insert

(* Deleting rows from such a table leaves one (query_log.py:236).          *)
LEMMA DeleteIsTable ==
    ASSUME NEW t \in Tables, NEW limit \in Int
    PROVE  /\ Delete(t, limit) \in Tables
           /\ Cardinality(t.rows \ Delete(t, limit).rows) \in Nat
<1> DEFINE kept == {r \in t.rows : r.rec > limit}
<1>1. Delete(t, limit) = [t EXCEPT !.rows = kept]
  BY DEF Delete, Tables
<1>2. IsFiniteSet(kept) /\ IsFiniteSet(t.rows \ kept)
  BY FS_Subset DEF Tables
<1>3. Cardinality(t.rows \ kept) \in Nat
  BY <1>2, FS_CardinalityType
<1> HIDE DEF kept
<1>4. kept \subseteq t.rows
  BY DEF kept
<1> QED
  BY <1>1, <1>2, <1>3, <1>4 DEF Tables

(* The table of a new file is such a table (query_log.py:38-55).           *)
LEMMA EmptyTableIsTable == EmptyTable \in Tables
BY FS_EmptySet DEF EmptyTable, Tables

(* A process that has opened a new file has a state of the right types.    *)
LEMMA TypeInit == Init => TypeOK
<1> SUFFICES ASSUME Init PROVE TypeOK
  OBVIOUS
<1>1. inTxn \in BOOLEAN
  BY DEF Init
<1> QED
  BY <1>1, EmptyTableIsTable, BoundsAssumption
  DEF Init, TypeOK, Sequences, FlushJobs, Jobs

(* Every step of the loop, of a job and of the environment keeps the       *)
(* types.                                                                  *)
LEMMA TypeNext == TypeOK /\ [Next]_vars => TypeOK'
<1> SUFFICES ASSUME TypeOK, [Next]_vars PROVE TypeOK'
  OBVIOUS
<1> USE BoundsAssumption, SizesAssumption
    DEF TypeOK, procVars, arrivals, writerVars, purgeVars, sqlVars, tallies, Set,
        Sequences, Jobs, FlushJobs
<1>1. CASE Start
  <2>1. inTxn' \in BOOLEAN
    BY <1>1 DEF Start
  <2> QED
    BY <1>1, <2>1 DEF Start
<1>2. CASE Crash
  <2>1. inTxn' \in BOOLEAN
    BY <1>2 DEF Crash, Forget
  <2> QED
    BY <1>2, <2>1 DEF Crash, Forget
<1>3. CASE Stop \/ StopSkipped
  BY <1>3 DEF Stop, StopSkipped, Withdrawn, Cancellation
<1>4. CASE LogNowait
  BY <1>4 DEF LogNowait, Arrive, Records
<1>5. CASE LogOverflow
  BY <1>5 DEF LogOverflow, Arrive, Overflowed, Records
<1>6. CASE WriterTake
  BY <1>6 DEF WriterTake
<1>7. CASE WriterTimeout
  BY <1>7 DEF WriterTimeout
<1>8. CASE WriterResume
  BY <1>8 DEF WriterResume, AfterFlush
<1>9. CASE WriterCancelled
  BY <1>9 DEF WriterCancelled, Drained
<1>10. CASE WriterFinished
  BY <1>10 DEF WriterFinished
<1>11. CASE RetentionWake
  BY <1>11 DEF RetentionWake, Cutoffs
<1>12. CASE RetentionResume
  BY <1>12 DEF RetentionResume
<1>13. CASE ServeReturns
  BY <1>13 DEF ServeReturns, Withdrawn, Cancellation
<1>14. CASE ProcessExit
  <2>1. inTxn' \in BOOLEAN
    BY <1>14 DEF ProcessExit, Forget
  <2> QED
    BY <1>14, <2>1 DEF ProcessExit, Forget
<1>15. ASSUME NEW j \in FlushJobs, FlushStart(j) PROVE TypeOK'
  BY <1>15 DEF FlushStart
<1>16. ASSUME NEW j \in FlushJobs, FlushInsert(j) PROVE TypeOK'
  <2>1. Head(todo[j]) \in Records /\ Tail(todo[j]) \in Seq(Records)
    BY <1>16, HeadTailProperties DEF FlushInsert
  <2>2. view' \in Tables /\ disk' \in Tables
    BY <1>16, <2>1, InsertIsTable DEF FlushInsert
  <2> QED
    BY <1>16, <2>1, <2>2 DEF FlushInsert
<1>17. ASSUME NEW j \in FlushJobs, FlushCommit(j) PROVE TypeOK'
  <2>1. inTxn' \in BOOLEAN
    BY <1>17 DEF FlushCommit, Commit
  <2>2. Len(batch) \in Nat
    BY LenProperties
  <2> QED
    BY <1>17, <2>1, <2>2 DEF FlushCommit, Commit, Counted
<1>18. ASSUME NEW j \in FlushJobs, FlushError(j) PROVE TypeOK'
  <2>1. ToSet(batch) \subseteq Records
    BY DEF ToSet
  <2>2. view' \in Tables /\ disk' \in Tables /\ inTxn' \in BOOLEAN /\ conn' = conn
    BY <1>18 DEF FlushError, Rollback
  <2> QED
    BY <1>18, <2>1, <2>2 DEF FlushError
<1>19. ASSUME NEW j \in FlushJobs, FlushAssertion(j) PROVE TypeOK'
  BY <1>19 DEF FlushAssertion
<1>20. CASE PurgeDelete
  <2>1. cutoff \in Int /\ view \in Tables
    OBVIOUS
  <2>2. view' = Delete(view, cutoff) /\ deleted' = Cardinality(view.rows \ view'.rows)
    BY <1>20 DEF PurgeDelete
  <2>3. view' \in Tables /\ deleted' \in Nat
    BY <2>1, <2>2, DeleteIsTable
  <2>4. inTxn' \in BOOLEAN
    BY <1>20 DEF PurgeDelete
  <2> QED
    BY <1>20, <2>3, <2>4 DEF PurgeDelete
<1>21. CASE PurgeCommit
  <2>1. inTxn' \in BOOLEAN
    BY <1>21 DEF PurgeCommit, Commit
  <2> QED
    BY <1>21, <2>1 DEF PurgeCommit, Commit
<1>22. CASE PurgeError
  <2>1. inTxn' \in BOOLEAN
    BY <1>22 DEF PurgeError, Rollback
  <2> QED
    BY <1>22, <2>1 DEF PurgeError, Rollback
<1>23. CASE CloseConnection
  BY <1>23 DEF CloseConnection
<1>24. CASE CloseDone
  BY <1>24 DEF CloseDone
<1>25. CASE UNCHANGED vars
  BY <1>25 DEF vars
<1> QED
  BY <1>1, <1>2, <1>3, <1>4, <1>5, <1>6, <1>7, <1>8, <1>9, <1>10, <1>11,
     <1>12, <1>13, <1>14, <1>15, <1>16, <1>17, <1>18, <1>19, <1>20, <1>21,
     <1>22, <1>23, <1>24, <1>25
  DEF Next, WriterStep, RetentionStep, ServeStep, FlushStep, PurgeStep, CloseStep

(* Every variable keeps its type, in every process and through every       *)
(* failure, stop and crash.                                                *)
THEOREM TypeCorrect == Spec => []TypeOK
BY TypeInit, TypeNext, PTL DEF Spec

------------------------------------------------------------------------------
(* The memory of the log.  What the writer holds depends on where it is:   *)
(* less than a batch while it waits for records, a batch during a flush,   *)
(* and the queue on top of it once the cancellation handler has drained    *)
(* the queue, which nobody fills any more.  A writer that an assertion has *)
(* ended leaves the queue as it is.                                        *)
MemoryInv ==
    /\ Len(queue) <= QueueMax
    /\ writer = "get" => Len(batch) < BatchSize
    /\ writer = "flush" => Len(batch) <= BatchSize
    /\ writer = "final" => queue = << >>
    /\ writer \in {"final", "done"} => Len(queue) + Len(batch) <= QueueMax + BatchSize
    /\ serve = "exited" => writer = "done" /\ batch = << >>

(* A new process has nothing in memory.                                    *)
LEMMA MemoryInit == Init => MemoryInv
<1>1. Len(<< >>) = 0
  BY EmptySeq
<1> QED
  BY <1>1, SizesAssumption DEF Init, MemoryInv

(* Every step keeps what the batch and the queue hold at each place of the *)
(* writer within their limits (query_log.py:183-206).                      *)
LEMMA MemoryNext == TypeOK /\ MemoryInv /\ [Next]_vars => MemoryInv'
<1> SUFFICES ASSUME TypeOK, MemoryInv, [Next]_vars PROVE MemoryInv'
  OBVIOUS
<1>0. /\ queue \in Seq(Records) /\ batch \in Seq(Records)
      /\ Len(queue) \in Nat /\ Len(batch) \in Nat
      /\ Len(<< >>) = 0
  BY LenProperties, EmptySeq DEF TypeOK, Sequences
<1> USE <1>0, SizesAssumption DEF MemoryInv, procVars, arrivals, writerVars
<1>1. CASE Start
  BY <1>1 DEF Start
<1>2. CASE Forget
  BY <1>2 DEF Forget
<1>3. CASE Stop \/ StopSkipped
  BY <1>3 DEF Stop, StopSkipped
<1>4. CASE LogNowait
  <2>1. Len(queue') = Len(queue) + 1
    BY <1>4, AppendProperties, BoundsAssumption DEF LogNowait, Arrive, Records, TypeOK
  <2> QED
    BY <1>4, <2>1 DEF LogNowait, Arrive
<1>5. CASE LogOverflow
  BY <1>5 DEF LogOverflow, Arrive
<1>6. CASE WriterTake
  <2>1. Head(queue) \in Records /\ Len(Tail(queue)) = Len(queue) - 1
    BY <1>6, HeadTailProperties DEF WriterTake
  <2>2. Len(batch') = Len(batch) + 1
    BY <1>6, <2>1, AppendProperties DEF WriterTake
  <2> QED
    BY <1>6, <2>1, <2>2 DEF WriterTake, Full
<1>7. CASE WriterTimeout
  BY <1>7 DEF WriterTimeout
<1>8. CASE WriterResume
  BY <1>8 DEF WriterResume, AfterFlush
<1>9. CASE WriterCancelled
  <2>1. Len(batch') = Len(batch) + Len(queue)
    BY <1>9, ConcatProperties DEF WriterCancelled, Drained
  <2> QED
    BY <1>9, <2>1 DEF WriterCancelled, Drained
<1>10. CASE WriterFinished
  BY <1>10 DEF WriterFinished, FlushJobs
<1>11. CASE RetentionStep
  BY <1>11 DEF RetentionStep, RetentionWake, RetentionResume
<1>12. CASE ServeReturns
  BY <1>12 DEF ServeReturns
<1>13. ASSUME NEW j \in FlushJobs, FlushStep(j) PROVE MemoryInv'
  BY <1>13 DEF FlushStep, FlushStart, FlushInsert, FlushCommit, FlushError, FlushAssertion
<1>14. CASE PurgeStep
  BY <1>14 DEF PurgeStep, PurgeDelete, PurgeCommit, PurgeError
<1>15. CASE CloseStep
  BY <1>15 DEF CloseStep, CloseConnection, CloseDone
<1>16. CASE UNCHANGED vars
  BY <1>16 DEF vars
<1> QED
  BY <1>1, <1>2, <1>3, <1>4, <1>5, <1>6, <1>7, <1>8, <1>9, <1>10, <1>11,
     <1>12, <1>13, <1>14, <1>15, <1>16
  DEF Next, Crash, ProcessExit, WriterStep, ServeStep

(* The queue and the batch together never hold more than their two limits, *)
(* for every queue_max and batch_size, also during a shutdown.             *)
THEOREM MemoryIsBounded == Spec => []BoundedMemory
<1>1. TypeOK /\ MemoryInv => BoundedMemory
  <2> SUFFICES ASSUME TypeOK, MemoryInv PROVE BoundedMemory
    OBVIOUS
  <2>1. Len(queue) \in Nat /\ Len(batch) \in Nat /\ Len(<< >>) = 0
    BY LenProperties, EmptySeq DEF TypeOK, Sequences
  <2> QED
    BY <2>1, SizesAssumption DEF TypeOK, MemoryInv, BoundedMemory
<1> QED
  BY <1>1, TypeInit, TypeNext, MemoryInit, MemoryNext, PTL DEF Spec

------------------------------------------------------------------------------
(* The committed table implements DurableTable.  Whoever commits publishes *)
(* `view`, so what has to hold at every moment is that `view` is a table   *)
(* which may be published; outside a transaction it is the committed one.  *)
Publishable ==
    /\ view.seq >= disk.seq
    /\ \A r \in view.rows \ disk.rows : r.id \in (disk.seq + 1)..view.seq
    /\ \A r, s \in view.rows \ disk.rows : r.id = s.id => r = s
    /\ \A r \in disk.rows \ view.rows : r.rec <= cutoff

DurableInv == Publishable /\ (~inTxn => view = disk)

(* A new file satisfies the invariant and the initial condition of         *)
(* DurableTable.                                                           *)
LEMMA DurableInit == Init => DurableInv /\ Durable!Init
BY DEF Init, DurableInv, Publishable, EmptyTable, Durable!Init

(* A table is publishable over itself.                                     *)
LEMMA SamePublishable == TypeOK /\ view = disk => Publishable
BY DEF TypeOK, Tables, Publishable

(* A row that a flush inserts has an id above all that were used, so the   *)
(* table of the connection stays one that may be published                 *)
(* (query_log.py:212).                                                     *)
LEMMA InsertPublishable ==
    ASSUME TypeOK, Publishable, NEW n \in Records, view' = Insert(view, n),
           UNCHANGED <<disk, cutoff>>
    PROVE  Publishable'
<1>1. view \in Tables /\ disk \in Tables /\ cutoff \in Int
  BY DEF TypeOK
<1>2. /\ view'.seq = view.seq + 1
      /\ view'.rows = view.rows \cup {[id |-> view.seq + 1, rec |-> n]}
  BY <1>1 DEF Insert, Tables
<1>3. \A r \in view.rows : r.id \in Nat /\ r.id <= view.seq
  BY <1>1 DEF Tables
<1>4. view.seq \in Nat /\ disk.seq \in Nat
  BY <1>1 DEF Tables
<1>5. \A r \in view'.rows \ disk.rows : r.id \in (disk.seq + 1)..view'.seq
  BY <1>2, <1>3, <1>4 DEF Publishable
<1>6. \A r, s \in view'.rows \ disk.rows : r.id = s.id => r = s
  <2> SUFFICES ASSUME NEW r \in view'.rows \ disk.rows, NEW s \in view'.rows \ disk.rows,
                      r.id = s.id
               PROVE  r = s
    OBVIOUS
  <2>1. CASE r \in view.rows /\ s \in view.rows
    BY <2>1 DEF Publishable
  <2>2. CASE r \notin view.rows \/ s \notin view.rows
    BY <1>2, <1>3, <1>4, <2>2
  <2> QED
    BY <2>1, <2>2
<1> QED
  BY <1>2, <1>4, <1>5, <1>6 DEF Publishable

(* A purge takes away old rows only, so the table of the connection stays  *)
(* one that may be published (query_log.py:236).                           *)
LEMMA DeletePublishable ==
    ASSUME TypeOK, Publishable, view' = Delete(view, cutoff), UNCHANGED <<disk, cutoff>>
    PROVE  Publishable'
<1>1. view \in Tables /\ disk \in Tables /\ cutoff \in Int
  BY DEF TypeOK
<1>2. view'.seq = view.seq /\ view'.rows = {r \in view.rows : r.rec > cutoff}
  BY <1>1 DEF Delete, Tables
<1>3. \A r \in view.rows : r.rec \in Int
  BY <1>1, BoundsAssumption DEF Tables, Records
<1>4. \A r \in disk.rows \ view'.rows : r.rec <= cutoff
  BY <1>1, <1>2, <1>3 DEF Publishable
<1> QED
  BY <1>2, <1>4 DEF Publishable

(* Every step of the query log keeps the invariant and is a step of        *)
(* DurableTable or leaves the file alone.                                  *)
LEMMA DurableStep ==
    TypeOK /\ TypeOK' /\ DurableInv /\ [Next]_vars =>
        DurableInv' /\ [Durable!Next]_(Durable!vars)
<1> SUFFICES ASSUME TypeOK, TypeOK', DurableInv, [Next]_vars
             PROVE  DurableInv' /\ [Durable!Next]_(Durable!vars)
  OBVIOUS
<1> DEFINE Goal == DurableInv' /\ [Durable!Next]_(Durable!vars)
<1> USE DEF purgeVars, sqlVars
<1>1. CASE UNCHANGED <<disk, cutoff, view, inTxn>>
  BY <1>1 DEF DurableInv, Publishable, Durable!vars
<1>2. CASE UNCHANGED <<disk, cutoff>> /\ view' = disk /\ inTxn' = FALSE
  BY <1>2, SamePublishable DEF DurableInv, Publishable, Durable!vars, TypeOK, Tables
<1>3. CASE disk' = view /\ UNCHANGED <<cutoff, view>> /\ inTxn' = FALSE
  <2>1. Publishable'
    BY <1>3 DEF TypeOK, Tables, Publishable
  <2>2. Durable!Publish
    BY <1>3 DEF DurableInv, Publishable, Durable!Publish, Durable!Appended, Durable!Expired
  <2> QED
    BY <1>3, <2>1, <2>2 DEF DurableInv, Durable!Next
<1>4. CASE RetentionWake
  <2>1. cutoff' >= cutoff /\ cutoff \in Int /\ cutoff' \in Int
        /\ UNCHANGED <<disk, view, inTxn>>
    BY <1>4 DEF RetentionWake, sqlVars, TypeOK, Cutoffs
  <2>2. Durable!Age
    BY <2>1 DEF Durable!Age
  <2>3. \A r \in disk.rows : r.rec \in Int
    BY BoundsAssumption DEF TypeOK, Tables, Records
  <2> QED
    BY <2>1, <2>2, <2>3 DEF DurableInv, Publishable, Durable!Next
<1>5. CASE PurgeDelete
  <2>1. view' = Delete(view, cutoff) /\ UNCHANGED <<disk, cutoff>> /\ inTxn' = TRUE
    BY <1>5 DEF PurgeDelete
  <2>2. Publishable'
    BY <2>1, DeletePublishable DEF DurableInv
  <2> QED
    BY <2>1, <2>2 DEF DurableInv, Durable!vars
<1>6. ASSUME NEW j \in FlushJobs, FlushInsert(j) PROVE Goal
  <2>1. Head(todo[j]) \in Records
    BY <1>6, HeadTailProperties DEF FlushInsert, TypeOK, Sequences
  <2>2. /\ view' = Insert(view, Head(todo[j])) /\ UNCHANGED <<cutoff, inTxn>>
        /\ disk' = IF inTxn THEN disk ELSE view'
    BY <1>6 DEF FlushInsert
  <2>3. CASE inTxn
    <3>1. Publishable'
      BY <2>1, <2>2, <2>3, InsertPublishable DEF DurableInv
    <3> QED
      BY <2>2, <2>3, <3>1 DEF DurableInv, Durable!vars
  <2>4. CASE ~inTxn
    <3>1. view = disk /\ disk' = view'
      BY <2>2, <2>4 DEF DurableInv
    <3>2. Publishable'
      BY <3>1 DEF TypeOK, Tables, Publishable
    <3>3. Durable!Publish
      <4>1. disk \in Tables /\ disk.seq \in Nat
        BY DEF TypeOK, Tables
      <4>2. /\ disk'.seq = disk.seq + 1
            /\ disk'.rows = disk.rows \cup {[id |-> disk.seq + 1, rec |-> Head(todo[j])]}
        BY <2>2, <3>1, <4>1 DEF Insert, Tables
      <4> QED
        BY <2>2, <4>1, <4>2 DEF Durable!Publish, Durable!Appended, Durable!Expired
    <3> QED
      BY <2>2, <2>4, <3>1, <3>2, <3>3 DEF DurableInv, Durable!Next
  <2> QED
    BY <2>3, <2>4
<1>7. ASSUME NEW j \in FlushJobs, FlushStart(j) PROVE Goal
  BY <1>7 DEF FlushStart, DurableInv, Publishable, Durable!vars
<1>8. ASSUME NEW j \in FlushJobs, FlushCommit(j) \/ FlushError(j) \/ FlushAssertion(j)
      PROVE  Goal
  BY <1>1, <1>2, <1>3, <1>8 DEF FlushCommit, FlushError, FlushAssertion, Commit, Rollback, sqlVars
<1>9. CASE PurgeCommit \/ PurgeError
  BY <1>1, <1>2, <1>3, <1>9 DEF PurgeCommit, PurgeError, Commit, Rollback, sqlVars
<1>10. CASE CloseStep
  BY <1>1, <1>2, <1>10 DEF CloseStep, CloseConnection, CloseDone
<1>11. CASE Start \/ Forget
  BY <1>2, <1>11 DEF Start, Forget
<1>12. CASE Stop \/ StopSkipped \/ LogNowait \/ LogOverflow
  BY <1>1, <1>12 DEF Stop, StopSkipped, LogNowait, LogOverflow, Arrive, sqlVars, purgeVars
<1>13. CASE WriterStep \/ RetentionResume \/ ServeReturns
  BY <1>1, <1>13 DEF WriterStep, WriterTake, WriterTimeout, WriterResume, WriterCancelled,
     WriterFinished, RetentionResume, ServeReturns, sqlVars
<1>14. CASE UNCHANGED vars
  BY <1>1, <1>14 DEF vars, sqlVars
<1> QED
  BY <1>4, <1>5, <1>6, <1>7, <1>8, <1>9, <1>10, <1>11, <1>12, <1>13, <1>14
  DEF Next, Crash, ProcessExit, RetentionStep, ServeStep, FlushStep, PurgeStep

(* Whatever commits, fails, stops or is killed, the file changes only as   *)
(* DurableTable allows: new rows under new ids, old rows by age.           *)
THEOREM FileIsDurable == Spec => ImplementsDurableTable
<1>1. Spec => []TypeOK
  BY TypeCorrect
<1> QED
  BY <1>1, DurableInit, DurableStep, PTL DEF Spec, ImplementsDurableTable, Durable!Spec

------------------------------------------------------------------------------
(* The log in use: what becomes of every record, whatever fails.           *)

(* A process that serves has an open connection, nobody has cancelled its  *)
(* writer, and the flush the writer awaits is the only one; a process that *)
(* has ended has left nothing but the file.                                *)
UseInv ==
    /\ serve = "up" =>
          /\ cancel = "none" /\ conn = "open"
          /\ job["final"] = "idle" /\ job["close"] = "idle"
          /\ \/ writer = "get" /\ job["flush"] = "idle"
             \/ writer = "flush" /\ job["flush"] \in {"queued", "running", "done"}
    /\ serve = "exited" =>
          /\ queue = << >> /\ batch = << >> /\ writer = "done" /\ cancel = "none"
          /\ job = [j \in Jobs |-> "idle"] /\ view = disk

(* Before the first start there is nothing but an empty file.              *)
LEMMA UseInit == Init => UseInv
BY DEF Init, UseInv, Jobs, FlushJobs

(* The steps of a process that serves and goes on serving.                 *)
UseNext ==
    \/ Start
    \/ LogNowait \/ LogOverflow
    \/ WriterTake \/ WriterTimeout \/ WriterResume
    \/ RetentionStep
    \/ FlushStart("flush") \/ FlushInsert("flush") \/ FlushCommit("flush") \/ FlushError("flush")
    \/ PurgeStep

(* Before its end a process takes no other step.                           *)
LEMMA UseStep ==
    ASSUME UseInv, Next, serve' = "up"
    PROVE  UseNext /\ (serve = "exited" \/ serve = "up") /\ (serve = "exited" <=> Start)
<1>1. CASE Start
  BY <1>1 DEF Start, UseNext
<1>2. CASE serve = "up" /\ ~Start
  <2> USE <1>2 DEF UseInv
  <2>1. ~Crash /\ ~Stop /\ ~StopSkipped /\ ~ServeStep
    BY DEF Crash, Forget, Stop, StopSkipped, ServeStep, ServeReturns, ProcessExit
  <2>2. ~WriterCancelled /\ ~WriterFinished /\ ~CloseStep
    BY DEF WriterCancelled, Drained, WriterFinished, CloseStep, CloseConnection, CloseDone, FlushJobs
  <2>3. \A j \in FlushJobs : FlushStep(j) => j = "flush" /\ ~FlushAssertion(j)
    BY DEF FlushStep, FlushStart, FlushInsert, FlushCommit, FlushError, FlushAssertion, FlushJobs
  <2>4. \A j \in FlushJobs : FlushStep(j) =>
           \/ FlushStart("flush") \/ FlushInsert("flush")
           \/ FlushCommit("flush") \/ FlushError("flush")
    BY <2>3 DEF FlushStep
  <2> QED
    BY <2>1, <2>2, <2>4 DEF Next, UseNext, WriterStep
<1>3. CASE serve # "up" /\ ~Start
  <2>1. ~Crash /\ ~Stop /\ ~StopSkipped /\ ~ServeStep
    BY <1>3 DEF Crash, Forget, Stop, StopSkipped, ServeStep, ServeReturns, ProcessExit
  <2>2. serve' = serve
    BY <1>3, <2>1
    DEF Next, Start, LogNowait, LogOverflow, Arrive, procVars, WriterStep, WriterTake, WriterTimeout,
        WriterResume, WriterCancelled, Drained, WriterFinished, RetentionStep, RetentionWake,
        RetentionResume, FlushStep, FlushStart, FlushInsert, FlushCommit, FlushError,
        FlushAssertion, PurgeStep, PurgeDelete, PurgeCommit, PurgeError, CloseStep,
        CloseConnection, CloseDone
  <2> QED
    BY <1>3, <2>2
<1> QED
  BY <1>1, <1>2, <1>3 DEF Start

(* A process ends by losing its memory.                                    *)
LEMMA ExitForgets == Next /\ serve' = "exited" /\ serve # "exited" => Forget
BY DEF Next, Start, Crash, Stop, StopSkipped, ServeStep, ServeReturns, ProcessExit,
       LogNowait, LogOverflow, Arrive, procVars, WriterStep, WriterTake, WriterTimeout,
       WriterResume, WriterCancelled, Drained, WriterFinished, RetentionStep, RetentionWake,
       RetentionResume, FlushStep, FlushStart, FlushInsert, FlushCommit, FlushError,
       FlushAssertion, PurgeStep, PurgeDelete, PurgeCommit, PurgeError, CloseStep,
       CloseConnection, CloseDone

(* Between two processes nothing happens.                                  *)
LEMMA ExitedRests == UseInv => ~(Next /\ serve' = "exited" /\ serve = "exited")
<1> SUFFICES ASSUME UseInv, Next, serve' = "exited", serve = "exited" PROVE FALSE
  OBVIOUS
<1> USE DEF UseInv, Jobs, FlushJobs
<1>1. ~Start /\ ~Crash /\ ~Stop /\ ~StopSkipped /\ ~ServeStep
  BY DEF Start, Crash, Stop, StopSkipped, ServeStep, ServeReturns, ProcessExit
<1>2. ~LogNowait /\ ~LogOverflow /\ ~WriterStep /\ ~RetentionStep
  BY DEF LogNowait, LogOverflow, Arrive, WriterStep, WriterTake, WriterTimeout, WriterResume,
         WriterCancelled, Drained, WriterFinished, RetentionStep, RetentionWake, RetentionResume
<1>3. ~PurgeStep /\ ~CloseStep /\ \A j \in FlushJobs : ~FlushStep(j)
  BY DEF PurgeStep, PurgeDelete, PurgeCommit, PurgeError, CloseStep, CloseConnection, CloseDone,
         FlushStep, FlushStart, FlushInsert, FlushCommit, FlushError, FlushAssertion
<1> QED
  BY <1>1, <1>2, <1>3 DEF Next

(* No step of a process that serves starts a second flush, closes the      *)
(* connection or cancels the writer; every end leaves only the file.       *)
LEMMA UseInvNext == TypeOK /\ UseInv /\ [Next]_vars => UseInv'
<1> SUFFICES ASSUME TypeOK, UseInv, [Next]_vars PROVE UseInv'
  OBVIOUS
<1>1. CASE UNCHANGED vars
  BY <1>1 DEF vars, procVars, arrivals, writerVars, sqlVars, UseInv
<1>2. CASE Next /\ serve' = "up"
  <2>1. UseNext /\ (serve = "exited" \/ serve = "up") /\ (serve = "exited" <=> Start)
    BY <1>2, UseStep
  <2> USE <1>2 DEF UseInv, TypeOK, procVars, arrivals, writerVars, purgeVars, sqlVars, tallies, Set, Jobs, FlushJobs
  <2>2. CASE Start
    BY <2>2 DEF Start
  <2>3. CASE LogNowait \/ LogOverflow
    BY <2>1, <2>3 DEF LogNowait, LogOverflow, Arrive
  <2>4. CASE WriterTake \/ WriterTimeout \/ WriterResume
    BY <2>1, <2>4 DEF WriterTake, WriterTimeout, WriterResume
  <2>5. CASE RetentionStep
    BY <2>1, <2>5 DEF RetentionStep, RetentionWake, RetentionResume
  <2>6. CASE FlushStart("flush") \/ FlushInsert("flush") \/ FlushCommit("flush") \/ FlushError("flush")
    BY <2>1, <2>6 DEF FlushStart, FlushInsert, FlushCommit, FlushError, Commit, Rollback
  <2>7. CASE PurgeStep
    BY <2>1, <2>7 DEF PurgeStep, PurgeDelete, PurgeCommit, PurgeError, Commit, Rollback
  <2> QED
    BY <2>1, <2>2, <2>3, <2>4, <2>5, <2>6, <2>7 DEF UseNext
<1>3. CASE Next /\ serve' = "exited" /\ serve # "exited"
  BY <1>3, ExitForgets DEF Forget, UseInv
<1>4. CASE Next /\ serve' = "exited" /\ serve = "exited"
  BY <1>4, ExitedRests
<1>5. CASE serve' \notin {"up", "exited"}
  BY <1>5 DEF UseInv
<1> QED
  BY <1>1, <1>2, <1>3, <1>4, <1>5

------------------------------------------------------------------------------
(* Nothing is older than its arrival.                                      *)

ArrivedInv ==
    /\ \A n \in ToSet(queue) \cup ToSet(batch) : n <= arrived
    /\ \A j \in FlushJobs : \A n \in ToSet(todo[j]) : n <= arrived
    /\ \A r \in view.rows \cup disk.rows : r.rec <= arrived
    /\ \A n \in warned \cup dropped : n <= arrived

(* Before the first record nothing holds one.                              *)
LEMMA ArrivedInit == Init => ArrivedInv
BY EmptySet DEF Init, ArrivedInv, EmptyTable

(* Only an arrival brings in a record, and it takes the next number.       *)
LEMMA ArrivedNext == TypeOK /\ ArrivedInv /\ [Next]_vars => ArrivedInv'
<1> SUFFICES ASSUME TypeOK, ArrivedInv, [Next]_vars PROVE ArrivedInv'
  OBVIOUS
<1>0. /\ queue \in Seq(Records) /\ batch \in Seq(Records) /\ arrived \in Nat
      /\ todo \in [FlushJobs -> Seq(Records)]
      /\ view \in Tables /\ disk \in Tables /\ warned \subseteq Records /\ dropped \subseteq Records
      /\ MaxRecords \in Nat /\ ToSet(<< >>) = {}
  BY BoundsAssumption, EmptySet DEF TypeOK, Sequences
<1> USE <1>0 DEF ArrivedInv, procVars, arrivals, writerVars, purgeVars, sqlVars, tallies
<1>1. CASE Start
  BY <1>1 DEF Start
<1>2. CASE Forget
  BY <1>2 DEF Forget
<1>3. CASE Stop \/ StopSkipped \/ ServeReturns
  BY <1>3 DEF Stop, StopSkipped, ServeReturns
<1>4. CASE LogNowait
  <2>1. arrived' = arrived + 1 /\ arrived + 1 \in Records /\ queue' = Append(queue, arrived + 1)
    BY <1>4 DEF LogNowait, Arrive, Records
  <2>2. ToSet(queue') = ToSet(queue) \cup {arrived + 1}
    BY <2>1, AppendedSet
  <2>3. \A n \in Records : n <= arrived => n <= arrived + 1
    BY DEF Records
  <2>4. UNCHANGED <<batch, todo, view, disk, warned, dropped>>
    BY <1>4 DEF LogNowait, Arrive
  <2>5. ToSet(queue) \subseteq Records /\ ToSet(batch) \subseteq Records
    BY SetOfSeq
  <2>6. \A j \in FlushJobs : ToSet(todo[j]) \subseteq Records
    BY SetOfSeq
  <2>7. \A r \in view.rows \cup disk.rows : r.rec \in Records
    BY DEF Tables
  <2> QED
    BY <2>1, <2>2, <2>3, <2>4, <2>5, <2>6, <2>7
<1>5. CASE LogOverflow
  <2>1. arrived' = arrived + 1 /\ dropped' = dropped \cup {arrived + 1}
    BY <1>5 DEF LogOverflow, Arrive, Overflowed
  <2>3. \A n \in Records : n <= arrived => n <= arrived + 1
    BY DEF Records
  <2>4. UNCHANGED <<queue, batch, todo, view, disk, warned>>
    BY <1>5 DEF LogOverflow, Arrive
  <2>5. ToSet(queue) \subseteq Records /\ ToSet(batch) \subseteq Records
    BY SetOfSeq
  <2>6. \A j \in FlushJobs : ToSet(todo[j]) \subseteq Records
    BY SetOfSeq
  <2>7. \A r \in view.rows \cup disk.rows : r.rec \in Records
    BY DEF Tables
  <2> QED
    BY <2>1, <2>3, <2>4, <2>5, <2>6, <2>7
<1>6. CASE WriterTake
  <2>1. /\ Head(queue) \in Records /\ ToSet(queue) = {Head(queue)} \cup ToSet(Tail(queue))
    BY <1>6, TailSet DEF WriterTake
  <2>2. ToSet(Append(batch, Head(queue))) = ToSet(batch) \cup {Head(queue)}
    BY <2>1, AppendedSet
  <2> QED
    BY <1>6, <2>1, <2>2 DEF WriterTake
<1>7. CASE WriterTimeout \/ WriterResume \/ WriterFinished
  BY <1>7 DEF WriterTimeout, WriterResume, WriterFinished, AfterFlush
<1>8. CASE WriterCancelled
  <2>1. ToSet(batch \o queue) \subseteq ToSet(batch) \cup ToSet(queue)
    BY JoinedSet
  <2> QED
    BY <1>8, <2>1 DEF WriterCancelled, Drained
<1>9. CASE RetentionStep
  BY <1>9 DEF RetentionStep, RetentionWake, RetentionResume
<1>10. ASSUME NEW j \in FlushJobs, FlushStart(j) PROVE ArrivedInv'
  BY <1>10 DEF FlushStart
<1>11. ASSUME NEW j \in FlushJobs, FlushInsert(j) PROVE ArrivedInv'
  <2>1. /\ todo[j] # << >> /\ todo' = [todo EXCEPT ![j] = Tail(todo[j])]
        /\ view' = Insert(view, Head(todo[j])) /\ disk' \in {disk, view'}
        /\ UNCHANGED <<arrived, queue, batch, warned, dropped>>
    BY <1>11 DEF FlushInsert
  <2>2. ToSet(todo[j]) = {Head(todo[j])} \cup ToSet(Tail(todo[j]))
    BY <2>1, TailSet
  <2>3. \A r \in view'.rows : r.rec <= arrived
    BY <2>1, <2>2 DEF Insert
  <2> QED
    BY <2>1, <2>2, <2>3
<1>12. ASSUME NEW j \in FlushJobs, FlushCommit(j) \/ FlushError(j) \/ FlushAssertion(j)
       PROVE  ArrivedInv'
  BY <1>12 DEF FlushCommit, FlushError, FlushAssertion, Commit, Rollback
<1>13. CASE PurgeDelete
  <2>1. view' = Delete(view, cutoff) /\ UNCHANGED <<arrived, queue, batch, todo, disk, warned, dropped>>
    BY <1>13 DEF PurgeDelete
  <2>2. view'.rows \subseteq view.rows
    BY <2>1 DEF Delete, Tables
  <2> QED
    BY <2>1, <2>2
<1>14. CASE PurgeCommit \/ PurgeError
  BY <1>14 DEF PurgeCommit, PurgeError, Commit, Rollback
<1>15. CASE CloseStep
  BY <1>15 DEF CloseStep, CloseConnection, CloseDone
<1>16. CASE UNCHANGED vars
  BY <1>16 DEF vars
<1> QED
  BY <1>1, <1>2, <1>3, <1>4, <1>5, <1>6, <1>7, <1>8, <1>9, <1>10, <1>11, <1>12, <1>13, <1>14,
     <1>15, <1>16
  DEF Next, Crash, ProcessExit, ServeStep, WriterStep, FlushStep, PurgeStep

------------------------------------------------------------------------------
(* The jobs of the writer.                                                 *)

(* Where the flush jobs may be, in and out of use: the handler's flush     *)
(* comes when the writer has left its loop, and a flush that no thread has *)
(* taken is withdrawn with the cancellation.                               *)
JobsInv ==
    /\ writer \in {"get", "flush"} => job["final"] = "idle"
    /\ writer = "get" => job["flush"] = "idle"
    /\ job["flush"] = "queued" => writer = "flush" /\ cancel # "due"

(* Before the first start there is no job.                                 *)
LEMMA JobsInit == Init => JobsInv
BY DEF Init, JobsInv, Jobs, FlushJobs

(* The writer submits one flush at a time, and the handler only when the   *)
(* flush of the loop has been withdrawn, runs or is over.                  *)
LEMMA JobsNext == TypeOK /\ UseInv /\ JobsInv /\ [Next]_vars => JobsInv'
<1> SUFFICES ASSUME TypeOK, UseInv, JobsInv, [Next]_vars PROVE JobsInv'
  OBVIOUS
<1>0. /\ job \in [Jobs -> {"idle", "queued", "running", "done", "raised"}]
      /\ writer \in {"get", "flush", "final", "done"}
      /\ Jobs = {"flush", "final", "purge", "close"}
  BY DEF TypeOK, Jobs, FlushJobs
<1> USE <1>0 DEF JobsInv, procVars, arrivals, writerVars, purgeVars, sqlVars, tallies, Set, FlushJobs
<1>1. CASE Start
  BY <1>1 DEF Start, UseInv
<1>2. CASE Forget
  BY <1>2 DEF Forget
<1>3. CASE Stop \/ StopSkipped
  BY <1>3 DEF Stop, StopSkipped, Withdrawn, Cancellation
<1>4. CASE LogNowait \/ LogOverflow
  BY <1>4 DEF LogNowait, LogOverflow, Arrive
<1>5. CASE WriterTake \/ WriterTimeout \/ WriterResume
  BY <1>5 DEF WriterTake, WriterTimeout, WriterResume
<1>6. CASE WriterCancelled
  BY <1>6 DEF WriterCancelled, Drained
<1>7. CASE WriterFinished
  BY <1>7 DEF WriterFinished
<1>8. CASE RetentionStep
  BY <1>8 DEF RetentionStep, RetentionWake, RetentionResume
<1>9. CASE ServeReturns
  BY <1>9 DEF ServeReturns, Withdrawn, Cancellation
<1>10. ASSUME NEW j \in FlushJobs, FlushStep(j) PROVE JobsInv'
  <2>1. job[j] \in {"queued", "running"} /\ UNCHANGED <<writer, cancel>>
    BY <1>10 DEF FlushStep, FlushStart, FlushInsert, FlushCommit, FlushError, FlushAssertion
  <2>2. PICK s \in {"running", "done", "raised"} : job' = [job EXCEPT ![j] = s]
    BY <1>10, <2>1 DEF FlushStep, FlushStart, FlushInsert, FlushCommit, FlushError, FlushAssertion
  <2> QED
    BY <2>1, <2>2
<1>11. CASE PurgeStep
  BY <1>11 DEF PurgeStep, PurgeDelete, PurgeCommit, PurgeError
<1>12. CASE CloseStep
  BY <1>12 DEF CloseStep, CloseConnection, CloseDone
<1>13. CASE UNCHANGED vars
  BY <1>13 DEF vars
<1> QED
  BY <1>1, <1>2, <1>3, <1>4, <1>5, <1>6, <1>7, <1>8, <1>9, <1>10, <1>11, <1>12, <1>13
  DEF Next, Crash, ProcessExit, WriterStep, ServeStep

------------------------------------------------------------------------------
(* No silent loss.                                                         *)

(* A record is in memory, in the table, reported or old; and so are those  *)
(* the running flush has inserted and those it has dealt with, as long as  *)
(* the writer is going to forget them.                                     *)
KnownIn(t, n) == n \in Recs(t) \/ n <= cutoff

Forgetful == writer \in {"get", "flush"} /\ cancel # "due"

LossInv ==
    serve # "exited" =>
        /\ \A n \in (base + 1)..arrived :
              \/ n \in ToSet(queue) \cup ToSet(batch) \cup dropped \cup warned
              \/ KnownIn(disk, n)
        /\ \A n \in Recs(disk) : KnownIn(view, n)
        /\ Forgetful /\ job["flush"] = "running" /\ conn = "open" =>
              \A n \in ToSet(batch) : n \in ToSet(todo["flush"]) \/ KnownIn(view, n)
        /\ Forgetful /\ job["flush"] = "done" =>
              \A n \in ToSet(batch) : n \in warned \/ KnownIn(disk, n)

(* Before the first start no record is missing.                            *)
LEMMA LossInit == Init => LossInv
<1> SUFFICES ASSUME Init PROVE LossInv
  OBVIOUS
<1>1. (base + 1)..arrived = {} /\ disk.rows = {} /\ job["flush"] = "idle"
  BY DEF Init, EmptyTable, Jobs, FlushJobs
<1>2. Recs(disk) = {}
  BY <1>1 DEF Recs
<1> QED
  BY <1>1, <1>2 DEF LossInv

(* Where the purge does not fail, nobody undoes what a flush has inserted  *)
(* but a flush itself, which then names the batch in a warning, the        *)
(* handler, which never forgets its batch, or the close, after which no    *)
(* flush succeeds.                                                         *)
LEMMA LossNext ==
    ASSUME "purge" \notin FailingJobs, TypeOK, UseInv, JobsInv, LossInv, [Next]_vars
    PROVE  LossInv'
<1>0. /\ queue \in Seq(Records) /\ batch \in Seq(Records)
      /\ arrived \in Nat /\ base \in Nat /\ cutoff \in Nat /\ cutoff <= arrived
      /\ todo \in [FlushJobs -> Seq(Records)]
      /\ job \in [Jobs -> {"idle", "queued", "running", "done", "raised"}]
      /\ view \in Tables /\ disk \in Tables
      /\ MaxRecords \in Nat /\ ToSet(<< >>) = {} /\ "flush" \in Jobs /\ "flush" \in FlushJobs
      /\ "purge" \in Jobs /\ "final" \in Jobs /\ "final" \in FlushJobs
  BY BoundsAssumption, EmptySet DEF TypeOK, Sequences, Jobs, FlushJobs
<1> USE <1>0 DEF procVars, arrivals, writerVars, purgeVars, sqlVars, tallies, Set
<1>1. CASE UNCHANGED vars
  BY <1>1 DEF vars, LossInv, Forgetful, KnownIn, Recs
<1>2. CASE serve' = "exited"
  BY <1>2 DEF LossInv
<1>3. CASE Start
  BY <1>3 DEF Start, LossInv, UseInv, KnownIn, Recs
<1>4. CASE (Stop \/ StopSkipped \/ ServeReturns) /\ serve' # "exited"
  <2>1. /\ serve # "exited"
        /\ Forgetful' => Forgetful
        /\ job'["flush"] \in {"running", "done"} => job'["flush"] = job["flush"]
        /\ UNCHANGED <<base, arrived, queue, batch, dropped, warned, view, disk, conn, cutoff, todo>>
    BY <1>4 DEF Stop, StopSkipped, ServeReturns, Withdrawn, Forgetful, UseInv
  <2> QED
    BY <2>1 DEF LossInv, KnownIn, Recs
<1>5. CASE LogNowait
  <2>1. /\ serve # "exited" /\ arrived' = arrived + 1 /\ arrived + 1 \in Records
        /\ queue' = Append(queue, arrived + 1)
        /\ UNCHANGED <<base, writer, batch, cancel, dropped, warned, view, disk, conn, cutoff, job, todo>>
    BY <1>5 DEF LogNowait, Arrive, Records
  <2>2. ToSet(queue') = ToSet(queue) \cup {arrived + 1}
    BY <2>1, AppendedSet
  <2>3. (base + 1)..arrived' \subseteq ((base + 1)..arrived) \cup {arrived + 1}
    BY <2>1
  <2> QED
    BY <2>1, <2>2, <2>3 DEF LossInv, Forgetful, KnownIn, Recs
<1>6. CASE LogOverflow
  <2>1. /\ serve # "exited" /\ arrived' = arrived + 1
        /\ dropped' = dropped \cup {arrived + 1}
        /\ UNCHANGED <<base, writer, queue, batch, cancel, warned, view, disk, conn, cutoff, job, todo>>
    BY <1>6 DEF LogOverflow, Arrive, Overflowed
  <2>2. (base + 1)..arrived' \subseteq ((base + 1)..arrived) \cup {arrived + 1}
    BY <2>1
  <2> QED
    BY <2>1, <2>2 DEF LossInv, Forgetful, KnownIn, Recs
<1>7. CASE WriterTake /\ serve' # "exited"
  <2>1. /\ serve # "exited" /\ job["flush"] = "idle" /\ queue # << >>
        /\ queue' = Tail(queue) /\ batch' = Append(batch, Head(queue))
        /\ job'["flush"] \in {"idle", "queued"}
        /\ UNCHANGED <<base, arrived, dropped, warned, view, disk, cutoff>>
    BY <1>7 DEF WriterTake, JobsInv
  <2>2. Head(queue) \in Records /\ ToSet(queue) = {Head(queue)} \cup ToSet(Tail(queue))
    BY <2>1, TailSet
  <2>3. ToSet(batch') = ToSet(batch) \cup {Head(queue)}
    BY <2>1, <2>2, AppendedSet
  <2> QED
    BY <2>1, <2>2, <2>3 DEF LossInv, KnownIn, Recs
<1>8. CASE WriterTimeout /\ serve' # "exited"
  <2>1. /\ serve # "exited" /\ job'["flush"] = "queued"
        /\ UNCHANGED <<base, arrived, queue, batch, dropped, warned, view, disk, cutoff>>
    BY <1>8 DEF WriterTimeout
  <2> QED
    BY <2>1 DEF LossInv, KnownIn, Recs
<1>9. CASE WriterResume /\ serve' # "exited"
  <2>1. /\ serve # "exited" /\ job["flush"] = "done" /\ job'["flush"] = "idle"
        /\ Forgetful /\ batch' = << >>
        /\ UNCHANGED <<base, arrived, queue, dropped, warned, view, disk, cutoff>>
    BY <1>9 DEF WriterResume, AfterFlush, Forgetful
  <2> QED
    BY <2>1 DEF LossInv, KnownIn, Recs
<1>10. CASE WriterCancelled /\ serve' # "exited"
  <2>1. /\ serve # "exited" /\ batch' = batch \o queue /\ queue' = << >> /\ ~Forgetful'
        /\ UNCHANGED <<base, arrived, dropped, warned, view, disk, cutoff>>
    BY <1>10 DEF WriterCancelled, Drained, Forgetful
  <2>2. ToSet(batch \o queue) = ToSet(batch) \cup ToSet(queue)
    BY JoinedSet
  <2> QED
    BY <2>1, <2>2 DEF LossInv, KnownIn, Recs
<1>11. CASE WriterFinished /\ serve' # "exited"
  <2>1. /\ serve # "exited" /\ ~Forgetful'
        /\ UNCHANGED <<base, arrived, queue, batch, dropped, warned, view, disk, cutoff>>
    BY <1>11 DEF WriterFinished, Forgetful
  <2> QED
    BY <2>1 DEF LossInv, KnownIn, Recs
<1>12. CASE RetentionStep
  <2>1. /\ serve = "up" /\ cutoff' \in Nat /\ cutoff <= cutoff'
        /\ job'["flush"] = job["flush"]
        /\ UNCHANGED <<base, arrived, queue, writer, batch, cancel, dropped, warned, view, disk, conn, todo>>
    BY <1>12 DEF RetentionStep, RetentionWake, RetentionResume, Cutoffs
  <2>2. \A n \in Records \cup (base + 1)..arrived : n <= cutoff => n <= cutoff'
    BY <2>1 DEF Records
  <2>3. ToSet(batch) \subseteq Records /\ Recs(disk) \subseteq Records
    BY SetOfSeq DEF Recs, Tables
  <2> QED
    BY <2>1, <2>2, <2>3 DEF LossInv, Forgetful, KnownIn, Recs
<1>13. ASSUME NEW j \in FlushJobs, FlushStep(j), serve' # "exited" PROVE LossInv'
  <2>0. /\ serve # "exited" /\ job[j] \in {"queued", "running"}
        /\ UNCHANGED <<base, arrived, queue, writer, batch, cancel, dropped, cutoff>>
        /\ (Forgetful' <=> Forgetful) /\ (Forgetful => j = "flush")
    <3>1. /\ job[j] \in {"queued", "running"}
          /\ UNCHANGED <<serve, base, arrived, queue, writer, batch, cancel, dropped, cutoff>>
      BY <1>13 DEF FlushStep, FlushStart, FlushInsert, FlushCommit, FlushError, FlushAssertion
    <3>2. Forgetful => j = "flush"
      BY <3>1 DEF Forgetful, JobsInv, FlushJobs
    <3> QED
      BY <1>13, <3>1, <3>2 DEF Forgetful
  <2>1. CASE FlushStart(j)
    <3>1. /\ job'[j] = "running" /\ todo'[j] = batch
          /\ UNCHANGED <<warned, view, disk>>
      BY <1>13, <2>1 DEF FlushStart, Jobs
    <3> QED
      BY <2>0, <3>1 DEF LossInv, KnownIn, Recs
  <2>2. CASE FlushInsert(j)
    <3>1. /\ job[j] = "running" /\ job' = job /\ conn = "open"
          /\ todo[j] # << >> /\ todo'[j] = Tail(todo[j]) /\ todo[j] \in Seq(Records)
          /\ view' = Insert(view, Head(todo[j])) /\ disk' \in {disk, view'}
          /\ warned' = warned
      BY <1>13, <2>2 DEF FlushInsert
    <3>2. ToSet(todo[j]) = {Head(todo[j])} \cup ToSet(Tail(todo[j]))
      BY <3>1, TailSet
    <3>3. Recs(view') = Recs(view) \cup {Head(todo[j])}
      <4> DEFINE new == [id |-> view.seq + 1, rec |-> Head(todo[j])]
      <4>1. view'.rows = view.rows \cup {new} /\ new.rec = Head(todo[j])
        BY <3>1 DEF Insert
      <4> HIDE DEF new
      <4> QED
        BY <4>1 DEF Recs
    <3>4. Recs(disk') = Recs(disk) \/ Recs(disk') = Recs(view')
      BY <3>1
    <3> QED
      BY <2>0, <3>1, <3>2, <3>3, <3>4 DEF LossInv, KnownIn
  <2>3. CASE FlushCommit(j)
    <3>1. /\ job[j] = "running" /\ job'[j] = "done" /\ conn = "open"
          /\ todo[j] = << >> /\ disk' = view
          /\ UNCHANGED <<warned, view>>
      BY <1>13, <2>3 DEF FlushCommit, Commit, Jobs
    <3> QED
      BY <2>0, <3>1 DEF LossInv, KnownIn
  <2>4. CASE FlushError(j)
    <3>1. /\ job'[j] = "done"
          /\ view' \in {view, disk} /\ disk' = disk /\ warned' = warned \cup ToSet(batch)
      BY <1>13, <2>4 DEF FlushError, Rollback, Jobs
    <3> QED
      BY <2>0, <3>1 DEF LossInv, KnownIn
  <2>5. CASE FlushAssertion(j)
    <3>1. job'[j] = "raised" /\ UNCHANGED <<warned, view, disk>>
      BY <1>13, <2>5 DEF FlushAssertion, Jobs
    <3> QED
      BY <2>0, <3>1 DEF LossInv, KnownIn, Recs
  <2> QED
    BY <1>13, <2>1, <2>2, <2>3, <2>4, <2>5 DEF FlushStep
<1>14. CASE PurgeStep /\ serve' # "exited"
  <2>0. /\ serve # "exited" /\ job'["flush"] = job["flush"]
        /\ UNCHANGED <<base, arrived, queue, writer, batch, cancel, dropped, warned, conn, cutoff, todo>>
    BY <1>14 DEF PurgeStep, PurgeDelete, PurgeCommit, PurgeError, Commit, Rollback
  <2>1. CASE PurgeDelete
    <3>1. view' = Delete(view, cutoff) /\ disk' = disk
      BY <2>1 DEF PurgeDelete
    <3>2. \A n \in Recs(view) : n \in Recs(view') \/ n <= cutoff
      <4>1. view'.rows = {r \in view.rows : r.rec > cutoff}
        BY <3>1 DEF Delete, Tables
      <4>2. \A r \in view.rows : r.rec \in Nat
        BY DEF Tables, Records
      <4> QED
        BY <4>1, <4>2 DEF Recs
    <3> QED
      BY <2>0, <3>1, <3>2 DEF LossInv, Forgetful, KnownIn
  <2>2. CASE PurgeCommit
    <3>1. disk' = view /\ view' = view
      BY <2>2 DEF PurgeCommit, Commit
    <3> QED
      BY <2>0, <3>1 DEF LossInv, Forgetful, KnownIn
  <2>3. CASE PurgeError
    <3>1. view' = view /\ disk' = disk
      BY <2>3 DEF PurgeError
    <3> QED
      BY <2>0, <3>1 DEF LossInv, Forgetful, KnownIn
  <2> QED
    BY <1>14, <2>1, <2>2, <2>3 DEF PurgeStep
<1>15. CASE CloseStep /\ serve' # "exited"
  <2>1. /\ serve # "exited" /\ job'["flush"] = job["flush"]
        /\ view' \in {view, disk} /\ disk' = disk /\ conn' # "open"
        /\ UNCHANGED <<base, arrived, queue, writer, batch, cancel, dropped, warned, cutoff, todo>>
    BY <1>15 DEF CloseStep, CloseConnection, CloseDone
  <2> QED
    BY <2>1 DEF LossInv, Forgetful, KnownIn
<1> QED
  BY <1>1, <1>2, <1>3, <1>4, <1>5, <1>6, <1>7, <1>8, <1>9, <1>10, <1>11, <1>12, <1>13, <1>14, <1>15
  DEF Next, Crash, Forget, ProcessExit, WriterStep, ServeStep

(* The invariant and what it rests on.                                     *)
LEMMA LossAlways ==
    ASSUME "purge" \notin FailingJobs
    PROVE  Spec => [](TypeOK /\ UseInv /\ LossInv)
<1>1. Init => TypeOK /\ UseInv /\ JobsInv /\ LossInv
  BY TypeInit, UseInit, JobsInit, LossInit
<1>2. TypeOK /\ UseInv /\ JobsInv /\ LossInv /\ [Next]_vars
         => TypeOK' /\ UseInv' /\ JobsInv' /\ LossInv'
  BY TypeNext, UseInvNext, JobsNext, LossNext
<1> QED
  BY <1>1, <1>2, PTL DEF Spec

(* Unless a purge fails, no record is lost silently before the process has *)
(* ended, for every queue and batch size, every failure of a flush, and    *)
(* whatever the handler of the cancellation, the close and the runner do   *)
(* (query_log.py:143-158, 187-215, 233-237).                               *)
THEOREM NothingLostSilently ==
    ASSUME "purge" \notin FailingJobs
    PROVE  Spec => []NoSilentLoss
<1>1. TypeOK /\ LossInv => NoSilentLoss
  BY DEF TypeOK, LossInv, NoSilentLoss, KnownIn, Unaccounted
<1> QED
  BY <1>1, LossAlways, PTL

(* What is unaccounted for is in memory until the process has ended, and   *)
(* the memory is bounded.                                                  *)
LEMMA LossBoundAlive ==
    ASSUME TypeOK, NoSilentLoss, BoundedMemory, serve # "exited"
    PROVE  BoundedLoss
<1> DEFINE Lost == {n \in (base + 1)..arrived : Unaccounted(n)}
<1>1. Lost \subseteq ToSet(queue) \cup ToSet(batch)
  BY DEF NoSilentLoss
<1>2. queue \in Seq(Records) /\ batch \in Seq(Records)
  BY DEF TypeOK, Sequences
<1>3. /\ IsFiniteSet(ToSet(queue)) /\ Cardinality(ToSet(queue)) <= Len(queue)
      /\ IsFiniteSet(ToSet(batch)) /\ Cardinality(ToSet(batch)) <= Len(batch)
  BY <1>2, SetAtMostLength
<1>4. /\ IsFiniteSet(ToSet(queue) \cup ToSet(batch))
      /\ Cardinality(ToSet(queue) \cup ToSet(batch))
            = Cardinality(ToSet(queue)) + Cardinality(ToSet(batch))
                 - Cardinality(ToSet(queue) \cap ToSet(batch))
  BY <1>3, FS_Union
<1>5. IsFiniteSet(ToSet(queue) \cap ToSet(batch))
  BY <1>3, FS_Intersection
<1>6. IsFiniteSet(Lost) /\ Cardinality(Lost) <= Cardinality(ToSet(queue) \cup ToSet(batch))
  BY <1>1, <1>4, FS_Subset
<1>7. /\ Cardinality(Lost) \in Nat /\ Len(queue) \in Nat /\ Len(batch) \in Nat
      /\ Cardinality(ToSet(queue)) \in Nat /\ Cardinality(ToSet(batch)) \in Nat
      /\ Cardinality(ToSet(queue) \cap ToSet(batch)) \in Nat
  BY <1>2, <1>3, <1>5, <1>6, FS_CardinalityType, LenProperties
<1>8. Cardinality(Lost) <= Len(queue) + Len(batch)
  BY <1>3, <1>4, <1>6, <1>7
<1>9. Cardinality(Lost) <= QueueMax + BatchSize
  BY <1>7, <1>8, SizesAssumption DEF BoundedMemory
<1> QED
  BY <1>9 DEF BoundedLoss

(* The end of a process leaves the account as it is, and between two       *)
(* processes nothing happens.                                              *)
LEMMA LossBoundStep ==
    ASSUME UseInv, BoundedLoss, [Next]_vars, serve' = "exited"
    PROVE  BoundedLoss'
<1>1. CASE UNCHANGED vars
  BY <1>1 DEF vars, procVars, arrivals, purgeVars, sqlVars, tallies, BoundedLoss, Unaccounted, Recs
<1>2. CASE Next
  <2>1. Forget
    BY <1>2, ExitForgets, ExitedRests
  <2> QED
    BY <2>1 DEF Forget, BoundedLoss, Unaccounted, Recs
<1> QED
  BY <1>1, <1>2

(* Unless a purge fails, a process loses at most what its queue and one    *)
(* batch hold without a word, whether it is stopped, fails or is killed    *)
(* (query_log.py:109-110, 143-158, 187-215).                               *)
THEOREM LossIsBounded ==
    ASSUME "purge" \notin FailingJobs
    PROVE  Spec => []BoundedLoss
<1> DEFINE Exited == serve = "exited"
<1>1. TypeOK /\ NoSilentLoss /\ BoundedMemory /\ ~Exited => BoundedLoss
  BY LossBoundAlive
<1>2. Init => ~Exited
  BY DEF Init
<1>3. UseInv /\ BoundedLoss /\ [Next]_vars /\ Exited' => BoundedLoss'
  BY LossBoundStep
<1> HIDE DEF Exited
<1> QED
  BY <1>1, <1>2, <1>3, LossAlways, NothingLostSilently, MemoryIsBounded, PTL DEF Spec

------------------------------------------------------------------------------
(* Order in memory.                                                        *)

(* An increasing sequence that gets a larger element.                      *)
LEMMA IncreasingAppend ==
    ASSUME NEW s \in Seq(Records), Increasing(s), NEW e \in Records, \A m \in ToSet(s) : m < e
    PROVE  Increasing(Append(s, e))
<1>1. /\ Len(s) \in Nat /\ DOMAIN s = 1..Len(s)
      /\ DOMAIN Append(s, e) = 1..(Len(s) + 1)
      /\ \A i \in 1..Len(s) : Append(s, e)[i] = s[i]
      /\ Append(s, e)[Len(s) + 1] = e
  BY AppendProperties, LenProperties
<1>2. \A i \in 1..Len(s) : s[i] < e
  BY <1>1 DEF ToSet
<1> QED
  BY <1>1, <1>2 DEF Increasing

(* An increasing sequence that loses its first element, the least one.     *)
LEMMA IncreasingTail ==
    ASSUME NEW s \in Seq(Records), Increasing(s), s # << >>
    PROVE  Increasing(Tail(s)) /\ \A n \in ToSet(Tail(s)) : Head(s) < n
<1>1. /\ Len(s) \in Nat /\ Len(s) # 0 /\ DOMAIN s = 1..Len(s)
      /\ DOMAIN Tail(s) = 1..(Len(s) - 1) /\ Head(s) = s[1]
      /\ \A i \in 1..(Len(s) - 1) : Tail(s)[i] = s[i + 1]
  BY EmptySeq, HeadTailProperties, LenProperties
<1>2. \A i \in 1..(Len(s) - 1) : i + 1 \in 1..Len(s) /\ 1 < i + 1 /\ 1 \in 1..Len(s)
  BY <1>1
<1>3. \A i, j \in 1..(Len(s) - 1) : i < j => i + 1 < j + 1
  BY <1>1
<1> QED
  BY <1>1, <1>2, <1>3 DEF Increasing, ToSet

(* An increasing sequence has as many elements as places.                  *)
LEMMA IncreasingCount ==
    ASSUME NEW s \in Seq(Records), Increasing(s)
    PROVE  IsFiniteSet(ToSet(s)) /\ Cardinality(ToSet(s)) = Len(s)
<1>1. DOMAIN s = 1..Len(s) /\ Len(s) \in Nat /\ \A i \in 1..Len(s) : s[i] \in Int
  BY LenProperties, ElementOfSeq, BoundsAssumption DEF Records
<1>2. s \in Bijection(1..Len(s), ToSet(s))
  <2>1. s \in [1..Len(s) -> ToSet(s)]
    BY <1>1 DEF ToSet
  <2>2. \A i, j \in 1..Len(s) : s[i] = s[j] => i = j
    <3> SUFFICES ASSUME NEW i \in 1..Len(s), NEW j \in 1..Len(s), i < j
                 PROVE  s[i] # s[j]
      BY <1>1
    <3> QED
      BY <1>1 DEF Increasing
  <2>3. \A x \in ToSet(s) : \E i \in 1..Len(s) : s[i] = x
    BY <1>1 DEF ToSet
  <2> QED
    BY <2>1, <2>2, <2>3 DEF Bijection, Injection, Surjection, IsInjective
<1>3. ExistsBijection(1..Len(s), ToSet(s))
  BY <1>2 DEF ExistsBijection
<1>4. IsFiniteSet(1..Len(s))
  BY <1>1, FS_Interval
<1> QED
  BY <1>1, <1>3, <1>4, FS_Bijection, FS_CountingElements

(* The empty sequence is increasing.                                       *)
LEMMA IncreasingEmpty == Increasing(<< >>)
BY DEF Increasing

(* What is in memory came to this process, and in this order.              *)
QueueInv ==
    serve = "up" =>
        /\ Increasing(batch) /\ Increasing(queue)
        /\ \A m \in ToSet(batch), n \in ToSet(queue) : m < n
        /\ \A n \in ToSet(batch) \cup ToSet(queue) : n > base

(* Before the first start the queue and the batch are empty.               *)
LEMMA QueueInit == Init => QueueInv
BY EmptySet, IncreasingEmpty DEF Init, QueueInv

(* An arrival goes behind the queue, the writer moves its first record     *)
(* behind the batch, and a flush that is over empties the batch.           *)
LEMMA QueueNext ==
    ASSUME TypeOK, UseInv, ArrivedInv, QueueInv, [Next]_vars
    PROVE  QueueInv'
<1>0. /\ queue \in Seq(Records) /\ batch \in Seq(Records)
      /\ arrived \in Nat /\ base \in Nat /\ base <= arrived
      /\ ToSet(<< >>) = {} /\ Increasing(<< >>)
      /\ ToSet(queue) \subseteq Records /\ ToSet(batch) \subseteq Records
      /\ \A n \in Records : n \in Nat
  BY BoundsAssumption, EmptySet, IncreasingEmpty, SetOfSeq DEF TypeOK, Sequences, Records
<1>1. CASE UNCHANGED <<serve, queue, batch, base>>
  BY <1>1 DEF QueueInv
<1>2. CASE Next /\ serve' = "up"
  <2>1. UseNext /\ (serve = "exited" \/ serve = "up") /\ (serve = "exited" <=> Start)
    BY <1>2, UseStep
  <2> USE <1>0, <1>2 DEF procVars, arrivals, writerVars, purgeVars, sqlVars, tallies
  <2>2. CASE Start
    BY <2>2 DEF Start, QueueInv, UseInv
  <2>3. CASE LogNowait
    <3>1. /\ serve = "up" /\ arrived + 1 \in Records /\ queue' = Append(queue, arrived + 1)
          /\ UNCHANGED <<base, batch>>
      BY <2>1, <2>3, BoundsAssumption DEF LogNowait, Arrive, Records, Start
    <3>2. ToSet(queue') = ToSet(queue) \cup {arrived + 1}
      BY <3>1, AppendedSet
    <3>3. \A n \in ToSet(queue) \cup ToSet(batch) : n < arrived + 1
      BY <3>1 DEF ArrivedInv
    <3>4. Increasing(queue')
      BY <3>1, <3>3, IncreasingAppend DEF QueueInv
    <3> QED
      BY <3>1, <3>2, <3>3, <3>4 DEF QueueInv
  <2>4. CASE WriterTake
    <3>1. /\ serve = "up" /\ queue # << >>
          /\ queue' = Tail(queue) /\ batch' = Append(batch, Head(queue))
          /\ UNCHANGED base
      BY <2>1, <2>4 DEF WriterTake, Start
    <3>2. Head(queue) \in Records /\ ToSet(queue) = {Head(queue)} \cup ToSet(Tail(queue))
      BY <3>1, TailSet
    <3>3. ToSet(batch') = ToSet(batch) \cup {Head(queue)}
      BY <3>1, <3>2, AppendedSet
    <3>4. Increasing(queue') /\ \A n \in ToSet(queue') : Head(queue) < n
      BY <3>1, IncreasingTail DEF QueueInv
    <3>5. Increasing(batch')
      BY <3>1, <3>2, IncreasingAppend DEF QueueInv
    <3> QED
      BY <3>1, <3>2, <3>3, <3>4, <3>5 DEF QueueInv
  <2>5. CASE WriterResume
    BY <2>1, <2>5 DEF WriterResume, AfterFlush, QueueInv, Start
  <2>6. CASE LogOverflow \/ WriterTimeout \/ RetentionStep
    BY <1>1, <2>6
    DEF LogOverflow, Arrive, WriterTimeout, RetentionStep, RetentionWake, RetentionResume
  <2>7. CASE FlushStart("flush") \/ FlushInsert("flush")
               \/ FlushCommit("flush") \/ FlushError("flush")
    BY <1>1, <2>7 DEF FlushStart, FlushInsert, FlushCommit, FlushError
  <2>8. CASE PurgeStep
    BY <1>1, <2>8 DEF PurgeStep, PurgeDelete, PurgeCommit, PurgeError
  <2> QED
    BY <2>1, <2>2, <2>3, <2>4, <2>5, <2>6, <2>7, <2>8 DEF UseNext
<1>3. CASE serve' # "up"
  BY <1>3 DEF QueueInv
<1> QED
  BY <1>1, <1>2, <1>3 DEF vars, procVars, arrivals, writerVars

------------------------------------------------------------------------------
(* The counters.                                                           *)

(* `held` is what the balance counts of the batch.                         *)
Held == IF job["flush"] = "done" THEN 0 ELSE Len(batch)

TallyInv ==
    serve = "up" =>
        /\ IsFiniteSet(warned) /\ IsFiniteSet(dropped)
        /\ warned \cap ToSet(queue) = {}
        /\ job["flush"] # "done" => warned \cap ToSet(batch) = {}
        /\ written + Cardinality(warned) + Cardinality(dropped) + Len(queue) + Held
              = arrived - base

(* Before the first start all counts are zero.                             *)
LEMMA TallyInit == Init => TallyInv
<1> SUFFICES ASSUME Init PROVE TallyInv
  OBVIOUS
<1>1. /\ IsFiniteSet({}) /\ Cardinality({}) = 0 /\ Len(<< >>) = 0 /\ ToSet(<< >>) = {}
      /\ job["flush"] = "idle"
  BY FS_EmptySet, EmptySeq, EmptySet DEF Init, Jobs, FlushJobs
<1> QED
  BY <1>1 DEF Init, TallyInv, Held

(* Every step moves a record from one count to another, an arrival adds    *)
(* one; a flush that fails counts in its warning what it does not write.   *)
LEMMA TallyNext ==
    ASSUME TypeOK, UseInv, ArrivedInv, QueueInv, TallyInv, [Next]_vars
    PROVE  TallyInv'
<1>0. /\ queue \in Seq(Records) /\ batch \in Seq(Records)
      /\ Len(queue) \in Nat /\ Len(batch) \in Nat /\ Len(<< >>) = 0 /\ ToSet(<< >>) = {}
      /\ arrived \in Nat /\ base \in Nat /\ base <= arrived /\ written \in Nat
      /\ job \in [Jobs -> {"idle", "queued", "running", "done", "raised"}]
      /\ "flush" \in Jobs /\ "purge" \in Jobs
  BY LenProperties, EmptySeq, EmptySet DEF TypeOK, Sequences, Jobs, FlushJobs
<1>1. CASE UNCHANGED <<serve, queue, batch, base, arrived, warned, dropped, written, job["flush"]>>
  BY <1>1 DEF TallyInv, Held
<1>2. CASE Next /\ serve' = "up"
  <2>1. UseNext /\ (serve = "exited" \/ serve = "up") /\ (serve = "exited" <=> Start)
    BY <1>2, UseStep
  <2> USE <1>0, <1>2 DEF procVars, arrivals, writerVars, purgeVars, sqlVars, tallies, Set
  <2>2. CASE Start
    <3>1. IsFiniteSet({}) /\ Cardinality({}) = 0
      BY FS_EmptySet
    <3> QED
      BY <2>2, <3>1 DEF Start, TallyInv, Held, UseInv
  <2>3. serve = "up" => Cardinality(warned) \in Nat /\ Cardinality(dropped) \in Nat
    BY FS_CardinalityType DEF TallyInv
  <2>4. CASE LogNowait
    <3>1. /\ serve = "up" /\ arrived + 1 \in Records /\ arrived' = arrived + 1
          /\ queue' = Append(queue, arrived + 1)
          /\ UNCHANGED <<base, batch, warned, dropped, written, job>>
      BY <2>1, <2>4, BoundsAssumption DEF LogNowait, Arrive, Records, Start
    <3>2. ToSet(queue') = ToSet(queue) \cup {arrived + 1} /\ Len(queue') = Len(queue) + 1
      BY <3>1, AppendedSet, AppendProperties
    <3>3. arrived + 1 \notin warned
      BY DEF ArrivedInv
    <3>4. Held' = Held /\ Held \in Nat
      BY <3>1 DEF Held
    <3> QED
      BY <2>3, <3>1, <3>2, <3>3, <3>4 DEF TallyInv
  <2>5. CASE LogOverflow
    <3>1. /\ serve = "up" /\ arrived' = arrived + 1 /\ dropped' = dropped \cup {arrived + 1}
          /\ UNCHANGED <<base, queue, batch, warned, written, job>>
      BY <2>1, <2>5 DEF LogOverflow, Arrive, Overflowed, Start
    <3>2. arrived + 1 \notin dropped
      BY DEF ArrivedInv
    <3>3. IsFiniteSet(dropped') /\ Cardinality(dropped') = Cardinality(dropped) + 1
      BY <3>1, <3>2, FS_AddElement DEF TallyInv
    <3>4. Held' = Held /\ Held \in Nat
      BY <3>1 DEF Held
    <3> QED
      BY <2>3, <3>1, <3>3, <3>4 DEF TallyInv
  <2>6. CASE WriterTake
    <3>1. /\ serve = "up" /\ job["flush"] = "idle" /\ job'["flush"] # "done" /\ queue # << >>
          /\ queue' = Tail(queue) /\ batch' = Append(batch, Head(queue))
          /\ UNCHANGED <<base, arrived, warned, dropped, written>>
      BY <2>1, <2>6 DEF WriterTake, UseInv, Start
    <3>2. /\ Head(queue) \in Records /\ ToSet(queue) = {Head(queue)} \cup ToSet(Tail(queue))
          /\ Len(queue') = Len(queue) - 1
      BY <3>1, TailSet
    <3>3. ToSet(batch') = ToSet(batch) \cup {Head(queue)} /\ Len(batch') = Len(batch) + 1
      BY <3>1, <3>2, AppendedSet, AppendProperties
    <3>4. Held' = Held + 1 /\ Held \in Nat
      BY <3>1, <3>3 DEF Held
    <3> QED
      BY <2>3, <3>1, <3>2, <3>3, <3>4 DEF TallyInv
  <2>7. CASE WriterTimeout
    <3>1. /\ serve = "up" /\ job["flush"] = "idle" /\ job'["flush"] = "queued"
          /\ UNCHANGED <<base, arrived, queue, batch, warned, dropped, written>>
      BY <2>1, <2>7 DEF WriterTimeout, UseInv, Start
    <3> QED
      BY <3>1 DEF TallyInv, Held
  <2>8. CASE WriterResume
    <3>1. /\ serve = "up" /\ job["flush"] = "done" /\ job'["flush"] = "idle" /\ batch' = << >>
          /\ UNCHANGED <<base, arrived, queue, warned, dropped, written>>
      BY <2>1, <2>8 DEF WriterResume, AfterFlush, Start
    <3> QED
      BY <3>1 DEF TallyInv, Held
  <2>9. CASE FlushStart("flush")
    <3>1. /\ serve = "up" /\ job["flush"] = "queued" /\ job'["flush"] = "running"
          /\ UNCHANGED <<base, arrived, queue, batch, warned, dropped, written>>
      BY <2>1, <2>9 DEF FlushStart, Start
    <3> QED
      BY <3>1 DEF TallyInv, Held
  <2>10. CASE FlushCommit("flush")
    <3>1. /\ serve = "up" /\ job["flush"] = "running" /\ job'["flush"] = "done"
          /\ written' = written + Len(batch)
          /\ UNCHANGED <<base, arrived, queue, batch, warned, dropped>>
      BY <2>1, <2>10 DEF FlushCommit, Commit, Counted, Start
    <3>2. Held = Len(batch) /\ Held' = 0
      BY <3>1 DEF Held
    <3> QED
      BY <2>3, <3>1, <3>2 DEF TallyInv
  <2>11. CASE FlushError("flush")
    <3>1. /\ serve = "up" /\ job["flush"] # "done" /\ job'["flush"] = "done"
          /\ warned' = warned \cup ToSet(batch)
          /\ UNCHANGED <<base, arrived, queue, batch, dropped, written>>
      BY <2>1, <2>11 DEF FlushError, Start
    <3>2. IsFiniteSet(ToSet(batch)) /\ Cardinality(ToSet(batch)) = Len(batch)
      BY <3>1, IncreasingCount DEF QueueInv
    <3>3. warned \cap ToSet(batch) = {} /\ IsFiniteSet(warned)
      BY <3>1 DEF TallyInv
    <3>4. /\ IsFiniteSet(warned')
          /\ Cardinality(warned') = Cardinality(warned) + Len(batch)
      <4>1. Cardinality(warned \cap ToSet(batch)) = 0
        BY <3>3, FS_EmptySet
      <4>2. /\ IsFiniteSet(warned \cup ToSet(batch))
            /\ Cardinality(warned \cup ToSet(batch))
                  = Cardinality(warned) + Cardinality(ToSet(batch))
                    - Cardinality(warned \cap ToSet(batch))
        BY <3>2, <3>3, FS_Union
      <4> QED
        BY <2>3, <3>1, <3>2, <4>1, <4>2
    <3>5. warned' \cap ToSet(queue) = {}
      <4>1. \A m \in ToSet(batch) : m \notin ToSet(queue)
        <5>1. ToSet(batch) \subseteq Int
          BY SetOfSeq, BoundsAssumption DEF Records
        <5> QED
          BY <3>1, <5>1 DEF QueueInv
      <4> QED
        BY <3>1, <4>1 DEF TallyInv
    <3>6. Held = Len(batch) /\ Held' = 0
      BY <3>1 DEF Held
    <3> QED
      BY <2>3, <3>1, <3>4, <3>5, <3>6 DEF TallyInv
  <2>12. CASE FlushInsert("flush")
    BY <1>1, <2>1, <2>12 DEF FlushInsert, Start
  <2>13. CASE RetentionStep
    BY <1>1, <2>13 DEF RetentionStep, RetentionWake, RetentionResume
  <2>14. CASE PurgeStep
    BY <1>1, <2>14 DEF PurgeStep, PurgeDelete, PurgeCommit, PurgeError
  <2> QED
    BY <2>1, <2>2, <2>4, <2>5, <2>6, <2>7, <2>8, <2>9, <2>10, <2>11, <2>12, <2>13, <2>14
    DEF UseNext
<1>3. CASE serve' # "up"
  BY <1>3 DEF TallyInv
<1> QED
  BY <1>1, <1>2, <1>3 DEF vars, procVars, arrivals, writerVars, tallies

(* The counters and the warnings account for every record of the process   *)
(* once, whatever is dropped, fails or is purged (query_log.py:151-158,    *)
(* 208-215).                                                               *)
THEOREM EveryRecordCountedOnce == Spec => []CountersBalance
<1>1. Init => TypeOK /\ UseInv /\ ArrivedInv /\ QueueInv /\ TallyInv
  BY TypeInit, UseInit, ArrivedInit, QueueInit, TallyInit
<1>2. TypeOK /\ UseInv /\ ArrivedInv /\ QueueInv /\ TallyInv /\ [Next]_vars
         => TypeOK' /\ UseInv' /\ ArrivedInv' /\ QueueInv' /\ TallyInv'
  BY TypeNext, UseInvNext, ArrivedNext, QueueNext, TallyNext
<1>3. TallyInv => CountersBalance
  BY DEF TallyInv, CountersBalance, Running, Held
<1> QED
  BY <1>1, <1>2, <1>3, PTL DEF Spec

------------------------------------------------------------------------------
(* Order in the table.                                                     *)

(* The rows of this process are in the order of their records.             *)
InOrder(t) == \A r, s \in t.rows : r.rec > base /\ r.id < s.id => r.rec < s.rec

(* What is still to be inserted: of the batch, then of the queue.          *)
Ahead ==
    ToSet(queue) \cup
        (IF job["flush"] = "running" THEN ToSet(todo["flush"])
         ELSE IF job["flush"] = "done" THEN {}
         ELSE ToSet(batch))

OrderInv ==
    serve = "up" =>
        /\ InOrder(view) /\ InOrder(disk)
        /\ \A r \in view.rows \cup disk.rows, n \in Ahead : r.rec < n
        /\ job["flush"] = "running" =>
              Increasing(todo["flush"]) /\ ToSet(todo["flush"]) \subseteq ToSet(batch)

(* Before the first start the table is empty.                              *)
LEMMA OrderInit == Init => OrderInv
BY DEF Init, OrderInv, InOrder, EmptyTable, Jobs, FlushJobs

(* A flush inserts what it holds in order and under the next id, and what  *)
(* is ahead of the table only grows behind what has arrived.  A rollback   *)
(* goes back to a table that was in order.                                 *)
LEMMA OrderNext ==
    ASSUME TypeOK, UseInv, ArrivedInv, QueueInv, OrderInv, [Next]_vars
    PROVE  OrderInv'
<1>0. /\ queue \in Seq(Records) /\ batch \in Seq(Records)
      /\ todo \in [FlushJobs -> Seq(Records)]
      /\ job \in [Jobs -> {"idle", "queued", "running", "done", "raised"}]
      /\ arrived \in Nat /\ base \in Nat /\ ToSet(<< >>) = {}
      /\ "flush" \in Jobs /\ "purge" \in Jobs /\ "flush" \in FlushJobs
      /\ ToSet(queue) \subseteq Nat /\ ToSet(batch) \subseteq Nat
      /\ \A r \in view.rows \cup disk.rows : r.rec \in Nat /\ r.id \in Nat
      /\ \A r \in view.rows : r.id <= view.seq
      /\ view.seq \in Nat
  <2>1. Records \subseteq Nat
    BY BoundsAssumption DEF Records
  <2>2. queue \in Seq(Records) /\ batch \in Seq(Records) /\ todo \in [FlushJobs -> Seq(Records)]
    BY DEF TypeOK, Sequences
  <2>3. ToSet(queue) \subseteq Nat /\ ToSet(batch) \subseteq Nat
    BY <2>1, <2>2, SetOfSeq
  <2>4. view \in Tables /\ disk \in Tables
    BY DEF TypeOK
  <2>5. /\ \A r \in view.rows \cup disk.rows : r.rec \in Nat /\ r.id \in Nat
        /\ \A r \in view.rows : r.id <= view.seq
        /\ view.seq \in Nat
    <3>1. /\ view.rows \subseteq [id : Nat, rec : Records]
          /\ disk.rows \subseteq [id : Nat, rec : Records]
          /\ \A r \in view.rows : r.id \in 1..view.seq
          /\ view.seq \in Nat
      BY <2>4 DEF Tables
    <3>2. \A r \in [id : Nat, rec : Records] : r.rec \in Nat /\ r.id \in Nat
      BY <2>1
    <3>3. \A r \in view.rows \cup disk.rows : r.rec \in Nat /\ r.id \in Nat
      BY <3>1, <3>2
    <3>4. \A r \in view.rows : r.id <= view.seq
      BY <3>1
    <3> QED
      BY <3>1, <3>3, <3>4
  <2> QED
    BY <2>2, <2>3, <2>5, EmptySet, BoundsAssumption DEF TypeOK, Jobs, FlushJobs
<1>1. CASE UNCHANGED <<serve, base, queue, batch, view, disk, todo, job["flush"]>>
  BY <1>1 DEF OrderInv, InOrder, Ahead
<1>2. CASE Next /\ serve' = "up"
  <2>1. UseNext /\ (serve = "exited" \/ serve = "up") /\ (serve = "exited" <=> Start)
    BY <1>2, UseStep
  <2> USE <1>0, <1>2 DEF procVars, arrivals, writerVars, purgeVars, sqlVars, tallies, Set
  <2>2. CASE Start
    <3>1. /\ base' = arrived /\ view' = disk /\ disk' = disk /\ job' = job
          /\ queue' = << >> /\ batch' = << >> /\ job["flush"] = "idle"
      BY <2>2 DEF Start, UseInv
    <3>2. Ahead' = {}
      BY <3>1 DEF Ahead
    <3>3. InOrder(disk)'
      BY <3>1 DEF InOrder, ArrivedInv
    <3> QED
      BY <3>1, <3>2, <3>3 DEF OrderInv, InOrder
  <2>3. CASE LogNowait
    <3>1. /\ serve = "up" /\ arrived + 1 \in Records /\ queue' = Append(queue, arrived + 1)
          /\ UNCHANGED <<base, batch, view, disk, todo, job>>
      BY <2>1, <2>3, BoundsAssumption DEF LogNowait, Arrive, Records, Start
    <3>2. ToSet(queue') = ToSet(queue) \cup {arrived + 1}
      BY <3>1, AppendedSet
    <3>3. Ahead' = Ahead \cup {arrived + 1}
      BY <3>1, <3>2 DEF Ahead
    <3>4. \A r \in view.rows \cup disk.rows : r.rec < arrived + 1
      BY DEF ArrivedInv
    <3> QED
      BY <3>1, <3>3, <3>4 DEF OrderInv, InOrder
  <2>4. CASE WriterTake
    <3>1. /\ serve = "up" /\ job["flush"] = "idle" /\ queue # << >>
          /\ queue' = Tail(queue) /\ batch' = Append(batch, Head(queue))
          /\ job'["flush"] \in {"idle", "queued"}
          /\ UNCHANGED <<base, view, disk, todo>>
      BY <2>1, <2>4 DEF WriterTake, UseInv, Start
    <3>2. Head(queue) \in Records /\ ToSet(queue) = {Head(queue)} \cup ToSet(Tail(queue))
      BY <3>1, TailSet
    <3>3. ToSet(batch') = ToSet(batch) \cup {Head(queue)}
      BY <3>1, <3>2, AppendedSet
    <3>4. Ahead' = Ahead
      BY <3>1, <3>2, <3>3 DEF Ahead
    <3> QED
      BY <3>1, <3>4 DEF OrderInv, InOrder
  <2>5. CASE WriterTimeout
    <3>1. /\ serve = "up" /\ job["flush"] = "idle" /\ job'["flush"] = "queued"
          /\ UNCHANGED <<base, queue, batch, view, disk, todo>>
      BY <2>1, <2>5 DEF WriterTimeout, UseInv, Start
    <3> QED
      BY <3>1 DEF OrderInv, InOrder, Ahead
  <2>6. CASE WriterResume
    <3>1. /\ serve = "up" /\ job["flush"] = "done" /\ job'["flush"] = "idle" /\ batch' = << >>
          /\ UNCHANGED <<base, queue, view, disk, todo>>
      BY <2>1, <2>6 DEF WriterResume, AfterFlush, Start
    <3> QED
      BY <3>1 DEF OrderInv, InOrder, Ahead
  <2>7. CASE FlushStart("flush")
    <3>1. /\ serve = "up" /\ job["flush"] = "queued" /\ job'["flush"] = "running"
          /\ todo'["flush"] = batch
          /\ UNCHANGED <<base, queue, batch, view, disk>>
      BY <2>1, <2>7 DEF FlushStart, Start
    <3>2. Ahead' = Ahead
      BY <3>1 DEF Ahead
    <3> QED
      BY <3>1, <3>2 DEF OrderInv, InOrder, QueueInv
  <2>8. CASE FlushInsert("flush")
    <3> DEFINE n   == Head(todo["flush"])
               new == [id |-> view.seq + 1, rec |-> n]
    <3>1. /\ serve = "up" /\ job["flush"] = "running" /\ job' = job
          /\ todo["flush"] # << >> /\ todo'["flush"] = Tail(todo["flush"])
          /\ view' = Insert(view, n) /\ disk' \in {disk, view'}
          /\ UNCHANGED <<base, queue, batch>>
      BY <2>1, <2>8 DEF FlushInsert, Start
    <3>2. /\ n \in Records /\ Tail(todo["flush"]) \in Seq(Records)
          /\ ToSet(todo["flush"]) = {n} \cup ToSet(Tail(todo["flush"]))
      BY <3>1, TailSet
    <3>3. /\ Increasing(todo'["flush"]) /\ \A m \in ToSet(todo'["flush"]) : n < m
      BY <3>1, IncreasingTail DEF OrderInv
    <3>4. n \in ToSet(batch) /\ n \in Ahead
      BY <3>1, <3>2 DEF OrderInv, Ahead
    <3>5. Ahead' \subseteq Ahead /\ \A m \in Ahead' : n < m
      BY <3>1, <3>2, <3>3, <3>4 DEF Ahead, QueueInv
    <3>6. view'.rows = view.rows \cup {new} /\ new.rec = n /\ new.id = view.seq + 1
      BY <3>1 DEF Insert
    <3>7. \A r \in view.rows : r.rec < n /\ r.id < view.seq + 1
      BY <3>1, <3>4 DEF OrderInv
    <3> HIDE DEF n, new
    <3>8. InOrder(view)'
      BY <3>1, <3>6, <3>7 DEF OrderInv, InOrder
    <3>9. InOrder(disk)'
      BY <3>1, <3>8 DEF OrderInv, InOrder
    <3>10. \A r \in view'.rows \cup disk'.rows, m \in Ahead' : r.rec < m
      BY <3>1, <3>5, <3>6 DEF OrderInv
    <3>11. ToSet(todo'["flush"]) \subseteq ToSet(batch')
      BY <3>1, <3>2 DEF OrderInv
    <3> QED
      BY <3>3, <3>8, <3>9, <3>10, <3>11 DEF OrderInv
  <2>9. CASE FlushCommit("flush") \/ FlushError("flush")
    <3>1. /\ serve = "up" /\ job'["flush"] = "done"
          /\ UNCHANGED <<base, queue>>
          /\ view' \in {view, disk} /\ disk' \in {view, disk}
      BY <2>1, <2>9
      DEF FlushCommit, FlushError, Commit, Rollback, UseInv, Start
    <3>2. Ahead' \subseteq Ahead
      BY <3>1 DEF Ahead
    <3> QED
      BY <3>1, <3>2 DEF OrderInv, InOrder
  <2>10. CASE PurgeStep
    <3>1. /\ serve = "up" /\ job'["flush"] = job["flush"]
          /\ UNCHANGED <<base, queue, batch, todo>>
          /\ view'.rows \subseteq view.rows \/ view' = disk
          /\ disk' \in {view, disk}
      BY <2>1, <2>10
      DEF PurgeStep, PurgeDelete, PurgeCommit, PurgeError, Commit, Rollback, UseInv, Start,
          Delete, TypeOK, Tables
    <3>2. Ahead' = Ahead
      BY <3>1 DEF Ahead
    <3> QED
      BY <3>1, <3>2 DEF OrderInv, InOrder
  <2>11. CASE LogOverflow \/ RetentionStep
    BY <1>1, <2>1, <2>11
    DEF LogOverflow, Arrive, RetentionStep, RetentionWake, RetentionResume, Start
  <2> QED
    BY <2>1, <2>2, <2>3, <2>4, <2>5, <2>6, <2>7, <2>8, <2>9, <2>10, <2>11 DEF UseNext
<1>3. CASE serve' # "up"
  BY <1>3 DEF OrderInv
<1> QED
  BY <1>1, <1>2, <1>3 DEF vars, procVars, arrivals, writerVars, sqlVars

(* The invariant and what it rests on.                                     *)
LEMMA OrderAlways == Spec => [](TypeOK /\ UseInv /\ ArrivedInv /\ QueueInv /\ OrderInv)
<1>1. Init => TypeOK /\ UseInv /\ ArrivedInv /\ QueueInv /\ OrderInv
  BY TypeInit, UseInit, ArrivedInit, QueueInit, OrderInit
<1>2. TypeOK /\ UseInv /\ ArrivedInv /\ QueueInv /\ OrderInv /\ [Next]_vars
         => TypeOK' /\ UseInv' /\ ArrivedInv' /\ QueueInv' /\ OrderInv'
  BY TypeNext, UseInvNext, ArrivedNext, QueueNext, OrderNext
<1> QED
  BY <1>1, <1>2, PTL DEF Spec

(* While the log is in use, records keep the order of their arrival from   *)
(* the queue over the batch to the ids of the table, whatever is rolled    *)
(* back or committed half-way by the other job (query_log.py:189-195,      *)
(* 211-213, 235-236).                                                      *)
THEOREM ArrivalOrderKept == Spec => []PipelineOrder
<1>1. UseInv /\ QueueInv /\ OrderInv => PipelineOrder
  <2> SUFFICES ASSUME UseInv, QueueInv, OrderInv, Running PROVE PipelineOrder
    BY DEF PipelineOrder
  <2>1. Unwritten \cup ToSet(queue) \subseteq Ahead
    BY DEF Unwritten, Ahead, UseInv, Running
  <2> QED
    BY <2>1 DEF PipelineOrder, QueueInv, OrderInv, InOrder, Running
<1> QED
  BY <1>1, OrderAlways, PTL

(* Records are never taken back.                                           *)
LEMMA ArrivedGrows == TypeOK /\ [Next]_vars => arrived' >= arrived
BY DEF TypeOK, vars, Next, Start, Crash, Forget, Stop, StopSkipped, ServeStep, ServeReturns,
       ProcessExit, arrivals, LogNowait, LogOverflow, Arrive, WriterStep, WriterTake,
       WriterTimeout, WriterResume, WriterCancelled, Drained, WriterFinished, RetentionStep,
       RetentionWake, RetentionResume, FlushStep, FlushStart, FlushInsert, FlushCommit,
       FlushError, FlushAssertion, PurgeStep, PurgeDelete, PurgeCommit, PurgeError, CloseStep,
       CloseConnection, CloseDone

(* Whatever the step of a process that serves: what is ahead of the table  *)
(* was so before, or has just arrived; a row of either table was in one of *)
(* them, or its record was ahead of them; and a commit is one of the whole *)
(* open transaction.                                                       *)
LEMMA LogGrows ==
    ASSUME TypeOK, UseInv, OrderInv, Next, serve' = "up", ~Start
    PROVE  /\ serve = "up" /\ base' = base
           /\ Ahead' \subseteq Ahead \cup {arrived + 1}
           /\ \A r \in view'.rows \cup disk'.rows :
                 r \in view.rows \cup disk.rows \/ r.rec \in Ahead
           /\ disk' \in {disk, view'}
<1> DEFINE Goal == /\ base' = base
                   /\ Ahead' \subseteq Ahead \cup {arrived + 1}
                   /\ \A r \in view'.rows \cup disk'.rows :
                         r \in view.rows \cup disk.rows \/ r.rec \in Ahead
                   /\ disk' \in {disk, view'}
<1>1. UseNext /\ serve = "up"
  BY UseStep
<1>2. /\ queue \in Seq(Records) /\ batch \in Seq(Records)
      /\ todo \in [FlushJobs -> Seq(Records)]
      /\ job \in [Jobs -> {"idle", "queued", "running", "done", "raised"}]
      /\ "flush" \in Jobs /\ "purge" \in Jobs /\ "flush" \in FlushJobs
      /\ view \in Tables
  BY DEF TypeOK, Sequences, Jobs, FlushJobs
<1> USE <1>2 DEF procVars, arrivals, writerVars, purgeVars, sqlVars, Set
<1>3. CASE LogNowait
  <2>1. /\ arrived + 1 \in Records /\ queue' = Append(queue, arrived + 1)
        /\ UNCHANGED <<base, batch, view, disk, todo, job>>
    BY <1>3, BoundsAssumption DEF LogNowait, Arrive, Records, TypeOK
  <2>2. ToSet(queue') = ToSet(queue) \cup {arrived + 1}
    BY <2>1, AppendedSet
  <2>3. Goal
    BY <2>1, <2>2 DEF Ahead
  <2> QED
    BY <1>1, <2>3
<1>4. CASE WriterTake
  <2>1. /\ job["flush"] = "idle" /\ queue # << >>
        /\ queue' = Tail(queue) /\ batch' = Append(batch, Head(queue))
        /\ job'["flush"] \in {"idle", "queued"}
        /\ UNCHANGED <<base, view, disk, todo>>
    BY <1>1, <1>4 DEF WriterTake, UseInv
  <2>2. Head(queue) \in Records /\ ToSet(queue) = {Head(queue)} \cup ToSet(Tail(queue))
    BY <2>1, TailSet
  <2>3. ToSet(batch') = ToSet(batch) \cup {Head(queue)}
    BY <2>1, <2>2, AppendedSet
  <2>4. Goal
    BY <2>1, <2>2, <2>3 DEF Ahead
  <2> QED
    BY <1>1, <2>4
<1>5. CASE FlushInsert("flush")
  <2>1. /\ job["flush"] = "running" /\ job' = job
        /\ todo["flush"] # << >> /\ todo'["flush"] = Tail(todo["flush"])
        /\ view' = Insert(view, Head(todo["flush"])) /\ disk' \in {disk, view'}
        /\ UNCHANGED <<base, queue, batch>>
    BY <1>5 DEF FlushInsert
  <2>2. ToSet(todo["flush"]) = {Head(todo["flush"])} \cup ToSet(Tail(todo["flush"]))
    BY <2>1, TailSet
  <2>3. view'.rows = view.rows \cup {[id |-> view.seq + 1, rec |-> Head(todo["flush"])]}
    BY <2>1 DEF Insert
  <2>4. Goal
    BY <2>1, <2>2, <2>3 DEF Ahead
  <2> QED
    BY <1>1, <2>4
<1>6. CASE WriterTimeout \/ WriterResume \/ FlushStart("flush")
  <2>1. Goal
    BY <1>1, <1>6, EmptySet DEF WriterTimeout, WriterResume, AfterFlush, FlushStart, UseInv, Ahead
  <2> QED
    BY <1>1, <2>1
<1>7. CASE FlushCommit("flush") \/ FlushError("flush")
  <2>1. /\ job'["flush"] = "done"
        /\ UNCHANGED <<base, queue>>
        /\ view' \in {view, disk} /\ disk' \in {disk, view'}
    BY <1>1, <1>7 DEF FlushCommit, FlushError, Commit, Rollback, UseInv
  <2>2. Goal
    BY <2>1 DEF Ahead
  <2> QED
    BY <1>1, <2>2
<1>8. CASE PurgeStep
  <2>1. /\ job'["flush"] = job["flush"]
        /\ UNCHANGED <<base, queue, batch, todo>>
        /\ view'.rows \subseteq view.rows \/ view' = disk
        /\ disk' \in {disk, view'}
    BY <1>1, <1>8
    DEF PurgeStep, PurgeDelete, PurgeCommit, PurgeError, Commit, Rollback, UseInv,
        Delete, Tables
  <2>2. Goal
    BY <2>1 DEF Ahead
  <2> QED
    BY <1>1, <2>2
<1>9. CASE LogOverflow \/ RetentionStep
  <2>1. job'["flush"] = job["flush"] /\ UNCHANGED <<base, queue, batch, todo, view, disk>>
    BY <1>9 DEF LogOverflow, Arrive, RetentionStep, RetentionWake, RetentionResume
  <2>2. Goal
    BY <2>1 DEF Ahead
  <2> QED
    BY <1>1, <2>2
<1> QED
  BY <1>1, <1>3, <1>4, <1>5, <1>6, <1>7, <1>8, <1>9 DEF UseNext

------------------------------------------------------------------------------
(* The counters and the table.                                             *)

(* What the running flush has inserted and not counted yet.                *)
Inserted == IF job["flush"] = "running" THEN Len(batch) - Len(todo["flush"]) ELSE 0

(* The open transaction, of the flush and of the purge, is counted too:    *)
(* `deleted` is what the purge has deleted and the loop not yet added up.  *)
CountInv ==
    /\ serve = "up" =>
          /\ job["flush"] # "idle" => batch # << >>
          /\ job["purge"] # "raised" /\ (retention = "sleep" => job["purge"] = "idle")
          /\ job["purge"] \in {"idle", "queued"} => deleted = 0
          /\ inTxn => job["flush"] = "running" \/ job["purge"] = "running"
          /\ base = 0 /\ warned = {} =>
                Cardinality(view.rows) + purged + deleted = written + Inserted
    /\ serve = "exited" => deleted = 0

(* Before the first start there are no rows and nothing is counted.        *)
LEMMA CountInit == Init => CountInv
<1> SUFFICES ASSUME Init PROVE CountInv
  OBVIOUS
<1>1. job["flush"] = "idle" /\ job["purge"] = "idle" /\ Cardinality(view.rows) = 0
  BY FS_EmptySet DEF Init, Jobs, FlushJobs, EmptyTable
<1> QED
  BY <1>1 DEF Init, CountInv, Inserted

(* A row that is inserted has a new id, so it is one more; the rows that a *)
(* purge deletes are counted when it does; a failed flush leaves a warning.*)
LEMMA CountNext ==
    ASSUME "purge" \notin FailingJobs, TypeOK, UseInv, ArrivedInv, CountInv, [Next]_vars
    PROVE  CountInv'
<1>0. /\ batch \in Seq(Records) /\ queue \in Seq(Records) /\ todo \in [FlushJobs -> Seq(Records)]
      /\ Len(batch) \in Nat /\ Len(todo["flush"]) \in Nat /\ Len(<< >>) = 0
      /\ job \in [Jobs -> {"idle", "queued", "running", "done", "raised"}]
      /\ arrived \in Nat /\ written \in Nat /\ deleted \in Nat /\ purged \in Nat
      /\ "flush" \in Jobs /\ "purge" \in Jobs /\ "flush" \in FlushJobs
  BY LenProperties, EmptySeq, BoundsAssumption DEF TypeOK, Sequences, Jobs, FlushJobs
<1>a. /\ IsFiniteSet(view.rows) /\ Cardinality(view.rows) \in Nat
      /\ \A r \in view.rows : r.id \in 1..view.seq
      /\ view.seq \in Nat
  <2>1. view \in Tables
    BY DEF TypeOK
  <2>2. IsFiniteSet(view.rows) /\ view.seq \in Nat /\ \A r \in view.rows : r.id \in 1..view.seq
    BY <2>1 DEF Tables
  <2> QED
    BY <2>2, FS_CardinalityType
<1>1. CASE UNCHANGED <<serve, base, batch, retention, warned, written, deleted, purged, inTxn, view,
                       job["flush"], job["purge"], todo["flush"]>>
  BY <1>1 DEF CountInv, Inserted
<1>2. CASE Next /\ serve' = "up"
  <2>1. UseNext /\ (serve = "exited" \/ serve = "up") /\ (serve = "exited" <=> Start)
    BY <1>2, UseStep
  <2> USE <1>0, <1>a, <1>2 DEF procVars, arrivals, writerVars, purgeVars, sqlVars, tallies, Set
  <2>2. CASE Start
    <3>1. /\ serve = "exited" /\ base' = arrived /\ view' = disk /\ inTxn' = FALSE
          /\ written' = 0 /\ purged' = 0 /\ deleted' = 0
          /\ job'["flush"] = "idle" /\ job'["purge"] = "idle"
      BY <2>2 DEF Start, UseInv, CountInv
    <3>2. ASSUME base' = 0 PROVE disk.rows = {}
      <4>1. disk.rows \subseteq [id : Nat, rec : Records]
        BY DEF TypeOK, Tables
      <4>2. \A r \in disk.rows : r.rec <= 0 /\ r.rec \in Records
        BY <3>1, <3>2, <4>1 DEF ArrivedInv
      <4>3. \A n \in Records : ~(n <= 0)
        BY BoundsAssumption DEF Records
      <4> QED
        BY <4>2, <4>3
    <3>3. base' = 0 => Cardinality(view'.rows) = 0
      BY <3>1, <3>2, FS_EmptySet
    <3> QED
      BY <1>2, <3>1, <3>3 DEF CountInv, Inserted
  <2>3. CASE LogNowait \/ LogOverflow
    BY <1>1, <2>1, <2>3 DEF LogNowait, LogOverflow, Arrive, Start
  <2>4. CASE WriterTake
    <3>1. /\ serve = "up" /\ job["flush"] = "idle" /\ job'["flush"] \in {"idle", "queued"}
          /\ job'["purge"] = job["purge"] /\ queue # << >> /\ batch' = Append(batch, Head(queue))
          /\ UNCHANGED <<base, retention, warned, written, deleted, purged, inTxn, view, todo>>
      BY <2>1, <2>4 DEF WriterTake, UseInv, Start
    <3>2. batch' # << >>
      BY <3>1, TailSet, AppendProperties
    <3> QED
      BY <1>2, <3>1, <3>2 DEF CountInv, Inserted
  <2>5. CASE WriterTimeout
    <3>1. /\ serve = "up" /\ job["flush"] = "idle" /\ job'["flush"] = "queued"
          /\ job'["purge"] = job["purge"] /\ batch # << >>
          /\ UNCHANGED <<base, batch, retention, warned, written, deleted, purged, inTxn, view, todo>>
      BY <2>1, <2>5 DEF WriterTimeout, Begun, UseInv, Start
    <3> QED
      BY <1>2, <3>1 DEF CountInv, Inserted
  <2>6. CASE WriterResume
    <3>1. /\ serve = "up" /\ job["flush"] = "done" /\ job'["flush"] = "idle"
          /\ job'["purge"] = job["purge"]
          /\ UNCHANGED <<base, retention, warned, written, deleted, purged, inTxn, view, todo>>
      BY <2>1, <2>6 DEF WriterResume, Start
    <3> QED
      BY <1>2, <3>1 DEF CountInv, Inserted
  <2>7. CASE RetentionWake
    <3>1. /\ serve = "up" /\ job'["flush"] = job["flush"] /\ job'["purge"] = "queued"
          /\ retention = "sleep" /\ retention' = "purge"
          /\ UNCHANGED <<base, batch, warned, written, deleted, purged, inTxn, view, todo>>
      BY <2>1, <2>7 DEF RetentionWake, Start
    <3> QED
      BY <1>2, <3>1 DEF CountInv, Inserted
  <2>8. CASE RetentionResume
    <3>1. /\ serve = "up" /\ job'["flush"] = job["flush"]
          /\ job["purge"] \in {"done", "raised"} /\ job'["purge"] = "idle"
          /\ deleted' = 0 /\ (job["purge"] = "done" => purged' = purged + deleted)
          /\ UNCHANGED <<base, batch, warned, written, inTxn, view, todo>>
      BY <2>1, <2>8 DEF RetentionResume, Start
    <3> QED
      BY <1>2, <3>1 DEF CountInv, Inserted
  <2>9. CASE FlushStart("flush")
    <3>1. /\ serve = "up" /\ job["flush"] = "queued" /\ job'["flush"] = "running"
          /\ job'["purge"] = job["purge"] /\ todo'["flush"] = batch
          /\ UNCHANGED <<base, batch, retention, warned, written, deleted, purged, view>>
      BY <2>1, <2>9 DEF FlushStart, Start
    <3>2. Inserted = 0 /\ Inserted' = 0
      BY <3>1 DEF Inserted
    <3> QED
      BY <1>2, <3>1, <3>2 DEF CountInv
  <2>10. CASE FlushInsert("flush")
    <3> DEFINE new == [id |-> view.seq + 1, rec |-> Head(todo["flush"])]
    <3>1. /\ serve = "up" /\ job["flush"] = "running" /\ job' = job
          /\ todo["flush"] # << >> /\ todo'["flush"] = Tail(todo["flush"])
          /\ view'.rows = view.rows \cup {new}
          /\ UNCHANGED <<base, batch, retention, warned, written, deleted, purged, inTxn>>
      BY <2>1, <2>10 DEF FlushInsert, Insert, Start
    <3>2. new.id = view.seq + 1
      OBVIOUS
    <3>3. new \notin view.rows
      BY <3>2
    <3> HIDE DEF new
    <3>4. Cardinality(view'.rows) = Cardinality(view.rows) + 1
      BY <3>1, <3>3, FS_AddElement
    <3>5. Len(todo'["flush"]) = Len(todo["flush"]) - 1
      BY <3>1, TailSet
    <3>6. Inserted' = Inserted + 1 /\ Inserted \in Int
      BY <3>1, <3>5 DEF Inserted
    <3>7. base' = 0 /\ warned' = {}
             => Cardinality(view'.rows) + purged' + deleted' = written' + Inserted'
      <4>1. base = 0 /\ warned = {} => Cardinality(view.rows) + purged + deleted = written + Inserted
        BY <3>1 DEF CountInv
      <4>2. UNCHANGED <<base, warned, written, deleted, purged>>
        BY <3>1
      <4> QED
        BY <3>4, <3>6, <4>1, <4>2
    <3> QED
      BY <1>2, <3>1, <3>7 DEF CountInv
  <2>11. CASE FlushCommit("flush")
    <3>1. /\ serve = "up" /\ job["flush"] = "running" /\ job'["flush"] = "done"
          /\ job'["purge"] = job["purge"] /\ todo["flush"] = << >> /\ inTxn' = FALSE
          /\ written' = written + Len(batch)
          /\ UNCHANGED <<base, batch, retention, warned, deleted, purged, view>>
      BY <2>1, <2>11 DEF FlushCommit, Commit, Counted, Start
    <3>2. Inserted = Len(batch) /\ Inserted' = 0
      BY <3>1 DEF Inserted
    <3> QED
      BY <1>2, <3>1, <3>2 DEF CountInv
  <2>12. CASE FlushError("flush")
    <3>1. /\ serve = "up" /\ job["flush"] # "idle" /\ job'["flush"] = "done"
          /\ job'["purge"] = job["purge"] /\ inTxn' = FALSE
          /\ warned' = warned \cup ToSet(batch)
          /\ UNCHANGED <<base, batch, retention, deleted>>
      BY <2>1, <2>12 DEF FlushError, Rollback, UseInv, Start
    <3>2. Head(batch) \in ToSet(batch)
      BY <3>1, TailSet DEF CountInv
    <3>3. warned' # {}
      BY <3>1, <3>2
    <3> QED
      BY <1>2, <3>1, <3>3 DEF CountInv
  <2>13. CASE PurgeDelete
    <3>1. /\ serve = "up" /\ job'["flush"] = job["flush"]
          /\ job["purge"] = "queued" /\ job'["purge"] = "running"
          /\ view'.rows \subseteq view.rows
          /\ deleted' = Cardinality(view.rows \ view'.rows)
          /\ UNCHANGED <<base, batch, retention, warned, written, purged, todo>>
      BY <2>1, <2>13 DEF PurgeDelete, Delete, TypeOK, Tables, Start
    <3>2. view.rows \cap view'.rows = view'.rows
      BY <3>1
    <3>3. deleted' = Cardinality(view.rows) - Cardinality(view'.rows)
      <4>1. Cardinality(view.rows \ view'.rows)
               = Cardinality(view.rows) - Cardinality(view.rows \cap view'.rows)
        BY FS_Difference
      <4> QED
        BY <3>1, <3>2, <4>1
    <3>4. Cardinality(view'.rows) \in Nat
      BY <3>1, FS_Subset, FS_CardinalityType
    <3>5. Inserted' = Inserted
      BY <3>1 DEF Inserted
    <3>6. base' = 0 /\ warned' = {}
             => Cardinality(view'.rows) + purged' + deleted' = written' + Inserted'
      BY <3>1, <3>3, <3>4, <3>5 DEF CountInv
    <3> QED
      BY <1>2, <3>1, <3>6 DEF CountInv
  <2>14. CASE PurgeCommit
    <3>1. /\ serve = "up" /\ job'["flush"] = job["flush"]
          /\ job["purge"] = "running" /\ job'["purge"] = "done" /\ inTxn' = FALSE
          /\ UNCHANGED <<base, batch, retention, warned, written, deleted, purged, view, todo>>
      BY <2>1, <2>14 DEF PurgeCommit, Commit, Start
    <3> QED
      BY <1>2, <3>1 DEF CountInv, Inserted
  <2>15. CASE PurgeError
    BY <2>1, <2>15 DEF PurgeError, UseInv, Start
  <2> QED
    BY <2>1, <2>2, <2>3, <2>4, <2>5, <2>6, <2>7, <2>8, <2>9, <2>10, <2>11, <2>12, <2>13, <2>14,
       <2>15
    DEF UseNext, RetentionStep, PurgeStep
<1>3. CASE Next /\ serve' = "exited" /\ serve # "exited"
  <2>1. Forget
    BY <1>3, ExitForgets
  <2> QED
    BY <1>3, <2>1 DEF Forget, CountInv
<1>4. CASE Next /\ serve' = "exited" /\ serve = "exited"
  BY <1>4, ExitedRests DEF CountInv
<1>5. CASE serve' \notin {"up", "exited"}
  BY <1>5 DEF CountInv
<1> QED
  BY <1>1, <1>2, <1>3, <1>4, <1>5 DEF vars, procVars, writerVars, purgeVars, sqlVars, tallies

(* Unless a purge fails, `written` less `purged` is the number of rows in  *)
(* the file between two jobs, until a flush fails (query_log.py:213, 227,  *)
(* 235-237).                                                               *)
THEOREM CountersAgreeWithTable ==
    ASSUME "purge" \notin FailingJobs
    PROVE  Spec => []CountersMatchTable
<1>1. Spec => []TypeOK
  BY TypeCorrect
<1>2. Init => UseInv /\ ArrivedInv /\ CountInv /\ DurableInv
  BY UseInit, ArrivedInit, CountInit, DurableInit
<1>3. TypeOK /\ TypeOK' /\ UseInv /\ ArrivedInv /\ CountInv /\ DurableInv /\ [Next]_vars
         => UseInv' /\ ArrivedInv' /\ CountInv' /\ DurableInv'
  BY UseInvNext, ArrivedNext, CountNext, DurableStep
<1>4. TypeOK /\ CountInv /\ DurableInv => CountersMatchTable
  <2> SUFFICES ASSUME TypeOK, CountInv, DurableInv, Running, base = 0, warned = {},
                      job["flush"] = "idle", job["purge"] = "idle"
               PROVE  Cardinality(disk.rows) = written - purged
    BY DEF CountersMatchTable
  <2>1. /\ view = disk /\ deleted = 0 /\ Inserted = 0
        /\ Cardinality(view.rows) + purged + deleted = written + Inserted
    BY DEF CountInv, DurableInv, Running, Inserted
  <2>2. IsFiniteSet(view.rows) /\ written \in Nat /\ purged \in Nat
    BY DEF TypeOK, Tables
  <2>3. Cardinality(view.rows) \in Nat
    BY <2>2, FS_CardinalityType
  <2> QED
    BY <2>1, <2>2, <2>3
<1> QED
  BY <1>1, <1>2, <1>3, <1>4, PTL DEF Spec

------------------------------------------------------------------------------
(* The rows of one record.                                                 *)

(* Increasing sequences, one before the other, make one.                   *)
LEMMA IncreasingJoin ==
    ASSUME NEW s \in Seq(Records), NEW t \in Seq(Records), Increasing(s), Increasing(t),
           \A m \in ToSet(s), n \in ToSet(t) : m < n
    PROVE  Increasing(s \o t)
<1>1. /\ Len(s) \in Nat /\ Len(t) \in Nat
      /\ DOMAIN s = 1..Len(s) /\ DOMAIN t = 1..Len(t)
      /\ DOMAIN (s \o t) = 1..(Len(s) + Len(t))
      /\ \A i \in 1..(Len(s) + Len(t)) :
            (s \o t)[i] = IF i <= Len(s) THEN s[i] ELSE t[i - Len(s)]
  BY ConcatProperties, LenProperties
<1>2. \A i \in 1..Len(s), k \in 1..Len(t) : s[i] < t[k]
  BY <1>1 DEF ToSet
<1> SUFFICES ASSUME NEW i \in 1..(Len(s) + Len(t)), NEW k \in 1..(Len(s) + Len(t)), i < k
             PROVE  (s \o t)[i] < (s \o t)[k]
  BY <1>1 DEF Increasing
<1>3. CASE k <= Len(s)
  BY <1>1, <1>3 DEF Increasing
<1>4. CASE i > Len(s)
  <2>1. /\ i - Len(s) \in 1..Len(t) /\ k - Len(s) \in 1..Len(t)
        /\ i - Len(s) < k - Len(s)
    BY <1>1, <1>4
  <2>2. t[i - Len(s)] < t[k - Len(s)]
    BY <1>1, <2>1 DEF Increasing
  <2> QED
    BY <1>1, <1>4, <2>2
<1>5. CASE i <= Len(s) /\ k > Len(s)
  <2>1. i \in 1..Len(s) /\ k - Len(s) \in 1..Len(t)
    BY <1>1, <1>5
  <2>2. s[i] < t[k - Len(s)]
    BY <1>2, <2>1
  <2> QED
    BY <1>1, <1>5, <2>2
<1> QED
  BY <1>1, <1>3, <1>4, <1>5

(* What came to this process is in one place and in order, also when the   *)
(* handler has joined the queue to the batch; a flush job holds part of    *)
(* the batch.                                                              *)
PlacedInv ==
    /\ Increasing(batch) /\ Increasing(queue)
    /\ \A m \in ToSet(batch), n \in ToSet(queue) : m < n
    /\ \A n \in ToSet(batch) \cup ToSet(queue) : n > base
    /\ \A j \in FlushJobs : job[j] = "running" =>
          Increasing(todo[j]) /\ ToSet(todo[j]) \subseteq ToSet(batch)

(* Before the first start nothing is held.                                 *)
LEMMA PlacedInit == Init => PlacedInv
BY EmptySet, IncreasingEmpty DEF Init, PlacedInv, Jobs, FlushJobs

(* Only the handler reorders anything: it puts the queue behind the batch, *)
(* while the thread may still insert the batch as it was.                  *)
LEMMA PlacedNext ==
    ASSUME TypeOK, UseInv, ArrivedInv, JobsInv, PlacedInv, [Next]_vars
    PROVE  PlacedInv'
<1>0. /\ queue \in Seq(Records) /\ batch \in Seq(Records) /\ todo \in [FlushJobs -> Seq(Records)]
      /\ job \in [Jobs -> {"idle", "queued", "running", "done", "raised"}]
      /\ arrived \in Nat /\ base \in Nat /\ base <= arrived
      /\ ToSet(<< >>) = {} /\ Increasing(<< >>)
      /\ ToSet(queue) \subseteq Records /\ ToSet(batch) \subseteq Records
      /\ \A n \in Records : n \in Nat
      /\ Jobs = {"flush", "final", "purge", "close"} /\ FlushJobs = {"flush", "final"}
  BY BoundsAssumption, EmptySet, IncreasingEmpty, SetOfSeq
  DEF TypeOK, Sequences, Records, Jobs, FlushJobs
<1> USE <1>0 DEF procVars, arrivals, writerVars, purgeVars, sqlVars, tallies, Set
<1>1. CASE Start
  BY <1>1 DEF Start, UseInv, PlacedInv
<1>2. CASE Forget
  BY <1>2 DEF Forget, PlacedInv
<1>3. CASE Stop \/ StopSkipped \/ ServeReturns
  <2>1. /\ UNCHANGED <<queue, batch, base, todo>>
        /\ \A j \in FlushJobs : job'[j] = "running" => job[j] = "running"
    BY <1>3 DEF Stop, StopSkipped, ServeReturns, Withdrawn
  <2> QED
    BY <2>1 DEF PlacedInv
<1>4. CASE LogNowait
  <2>1. /\ arrived + 1 \in Records /\ queue' = Append(queue, arrived + 1)
        /\ UNCHANGED <<base, batch, job, todo>>
    BY <1>4, BoundsAssumption DEF LogNowait, Arrive, Records
  <2>2. ToSet(queue') = ToSet(queue) \cup {arrived + 1}
    BY <2>1, AppendedSet
  <2>3. \A n \in ToSet(queue) \cup ToSet(batch) : n < arrived + 1
    BY DEF ArrivedInv
  <2>4. Increasing(queue')
    BY <2>1, <2>3, IncreasingAppend DEF PlacedInv
  <2> QED
    BY <2>1, <2>2, <2>3, <2>4 DEF PlacedInv
<1>5. CASE WriterTake
  <2>1. /\ queue # << >> /\ queue' = Tail(queue) /\ batch' = Append(batch, Head(queue))
        /\ UNCHANGED <<base, todo>>
        /\ \A j \in FlushJobs : job'[j] # "running"
    BY <1>5 DEF WriterTake, JobsInv
  <2>2. Head(queue) \in Records /\ ToSet(queue) = {Head(queue)} \cup ToSet(Tail(queue))
    BY <2>1, TailSet
  <2>3. ToSet(batch') = ToSet(batch) \cup {Head(queue)}
    BY <2>1, <2>2, AppendedSet
  <2>4. Increasing(queue') /\ \A n \in ToSet(queue') : Head(queue) < n
    BY <2>1, IncreasingTail DEF PlacedInv
  <2>5. Increasing(batch')
    BY <2>1, <2>2, IncreasingAppend DEF PlacedInv
  <2> QED
    BY <2>1, <2>2, <2>3, <2>4, <2>5 DEF PlacedInv
<1>6. CASE WriterTimeout
  <2>1. /\ UNCHANGED <<queue, batch, base, todo>>
        /\ \A j \in FlushJobs : job'[j] # "running"
    BY <1>6 DEF WriterTimeout, JobsInv
  <2> QED
    BY <2>1 DEF PlacedInv
<1>7. CASE WriterResume
  <2>1. /\ batch' = << >> /\ UNCHANGED <<queue, base, todo>>
        /\ \A j \in FlushJobs : job'[j] # "running"
    BY <1>7 DEF WriterResume, AfterFlush, JobsInv
  <2> QED
    BY <2>1 DEF PlacedInv
<1>8. CASE WriterCancelled
  <2>1. /\ batch' = batch \o queue /\ queue' = << >> /\ UNCHANGED <<base, todo>>
        /\ \A j \in FlushJobs : job'[j] = "running" => job[j] = "running"
    BY <1>8 DEF WriterCancelled, Drained
  <2>2. ToSet(batch \o queue) = ToSet(batch) \cup ToSet(queue)
    BY JoinedSet
  <2>3. Increasing(batch \o queue)
    BY IncreasingJoin DEF PlacedInv
  <2> QED
    BY <2>1, <2>2, <2>3 DEF PlacedInv
<1>9. CASE UNCHANGED <<queue, batch, base, todo, job["flush"], job["final"]>>
  BY <1>9 DEF PlacedInv
<1>10. ASSUME NEW j \in FlushJobs, FlushStart(j) PROVE PlacedInv'
  <2>1. /\ UNCHANGED <<queue, batch, base>>
        /\ todo' = [todo EXCEPT ![j] = batch]
        /\ job' = [job EXCEPT ![j] = "running"]
    BY <1>10 DEF FlushStart
  <2> QED
    BY <2>1 DEF PlacedInv
<1>11. ASSUME NEW j \in FlushJobs, FlushInsert(j) PROVE PlacedInv'
  <2>1. /\ UNCHANGED <<queue, batch, base, job>>
        /\ job[j] = "running" /\ todo[j] # << >> /\ todo[j] \in Seq(Records)
        /\ todo' = [todo EXCEPT ![j] = Tail(todo[j])]
    BY <1>11 DEF FlushInsert
  <2>2. Increasing(Tail(todo[j])) /\ ToSet(Tail(todo[j])) \subseteq ToSet(batch)
    BY <2>1, IncreasingTail, TailSet DEF PlacedInv
  <2> QED
    BY <2>1, <2>2 DEF PlacedInv
<1>12. ASSUME NEW j \in FlushJobs, FlushCommit(j) \/ FlushError(j) \/ FlushAssertion(j)
       PROVE  PlacedInv'
  <2>1. /\ UNCHANGED <<queue, batch, base>>
        /\ job'[j] # "running"
        /\ \A k \in FlushJobs : k # j => job'[k] = job[k] /\ todo'[k] = todo[k]
    BY <1>12 DEF FlushCommit, FlushError, FlushAssertion
  <2> QED
    BY <2>1 DEF PlacedInv
<1>13. CASE LogOverflow \/ WriterFinished \/ RetentionStep
  BY <1>9, <1>13
  DEF LogOverflow, Arrive, WriterFinished, RetentionStep, RetentionWake, RetentionResume
<1>14. CASE PurgeStep \/ CloseStep
  BY <1>9, <1>14
  DEF PurgeStep, PurgeDelete, PurgeCommit, PurgeError, CloseStep, CloseConnection, CloseDone
<1>15. CASE UNCHANGED vars
  BY <1>9, <1>15 DEF vars
<1> QED
  BY <1>1, <1>2, <1>3, <1>4, <1>5, <1>6, <1>7, <1>8, <1>10, <1>11, <1>12, <1>13, <1>14, <1>15
  DEF Next, Crash, ProcessExit, WriterStep, ServeStep, FlushStep

(* The rows of record n in a table, and whether n is yet to come.          *)
Times(t, n) == Cardinality({r \in t.rows : r.rec = n})
OneIf(n, S) == IF n \in S THEN 1 ELSE 0

(* The rows of a record can be counted.                                    *)
LEMMA TimesType ==
    ASSUME NEW t \in Tables, NEW n
    PROVE  IsFiniteSet({r \in t.rows : r.rec = n}) /\ Times(t, n) \in Nat
<1>1. IsFiniteSet({r \in t.rows : r.rec = n})
  BY FS_Subset DEF Tables
<1> QED
  BY <1>1, FS_CardinalityType DEF Times

(* A table with fewer rows has no record more often.                       *)
LEMMA TimesFewer ==
    ASSUME NEW t \in Tables, NEW u, u.rows \subseteq t.rows, NEW n
    PROVE  Times(u, n) <= Times(t, n)
<1>1. IsFiniteSet({r \in t.rows : r.rec = n})
  BY TimesType
<1>2. {r \in u.rows : r.rec = n} \subseteq {r \in t.rows : r.rec = n}
  OBVIOUS
<1> QED
  BY <1>1, <1>2, FS_Subset DEF Times

(* An insert adds one row of its record, under an id not yet used.         *)
LEMMA TimesInsert ==
    ASSUME NEW t \in Tables, NEW n, NEW m
    PROVE  Times(Insert(t, n), m) = Times(t, m) + OneIf(m, {n})
<1> DEFINE new  == [id |-> t.seq + 1, rec |-> n]
           rows == {r \in t.rows : r.rec = m}
<1>1. IsFiniteSet(rows) /\ Cardinality(rows) \in Nat
  BY TimesType DEF Times
<1>2. Insert(t, n).rows = t.rows \cup {new}
  BY DEF Insert
<1>3. new \notin rows /\ new.rec = n
  <2>1. t.seq \in Nat /\ \A r \in t.rows : r.id \in 1..t.seq
    BY DEF Tables
  <2> QED
    BY <2>1
<1> HIDE DEF new
<1>4. CASE m = n
  <2>1. {r \in Insert(t, n).rows : r.rec = m} = rows \cup {new}
    BY <1>2, <1>3, <1>4
  <2>2. Cardinality(rows \cup {new}) = Cardinality(rows) + 1
    BY <1>1, <1>3, FS_AddElement
  <2> QED
    BY <1>4, <2>1, <2>2 DEF Times, OneIf
<1>5. CASE m # n
  <2>1. {r \in Insert(t, n).rows : r.rec = m} = rows
    BY <1>2, <1>3, <1>5
  <2>2. Times(Insert(t, n), m) = Cardinality(rows) /\ Times(t, m) = Cardinality(rows)
    BY <2>1 DEF Times
  <2>3. OneIf(m, {n}) = 0
    BY <1>5 DEF OneIf
  <2> QED
    BY <1>1, <2>2, <2>3
<1> QED
  BY <1>4, <1>5

(* A record that is in no row.                                             *)
LEMMA TimesNone ==
    ASSUME NEW t, NEW n, \A r \in t.rows : r.rec # n
    PROVE  Times(t, n) = 0
<1>1. {r \in t.rows : r.rec = n} = {}
  OBVIOUS
<1> QED
  BY <1>1, FS_EmptySet DEF Times

(* What a flush job is still to insert.                                    *)
Due(j) ==
    IF job[j] = "running" THEN ToSet(todo[j])
    ELSE IF j = "final" /\ job[j] = "queued" THEN ToSet(batch) ELSE {}

(* As long as the writer is in its loop, a record of this process has no   *)
(* row or is no longer ahead of the table.                                 *)
Once(t) ==
    writer \in {"get", "flush"} =>
        \A n \in Records : n > base => Times(t, n) + OneIf(n, Ahead) <= 1

(* Two rows, or as many fewer as there are jobs that have still to insert  *)
(* the record.                                                             *)
Twice(t) ==
    \A n \in Records : Times(t, n) + OneIf(n, Due("flush")) + OneIf(n, Due("final")) <= 2

RowsInv == Once(view) /\ Once(disk) /\ Twice(view) /\ Twice(disk)

(* A new file has no rows.                                                 *)
LEMMA RowsInit == Init => RowsInv
<1> SUFFICES ASSUME Init PROVE RowsInv
  OBVIOUS
<1>1. /\ view = EmptyTable /\ disk = EmptyTable /\ ToSet(<< >>) = {}
      /\ job["flush"] = "idle" /\ job["final"] = "idle" /\ queue = << >> /\ batch = << >>
  BY EmptySet DEF Init, Jobs, FlushJobs
<1>2. \A n : Times(EmptyTable, n) = 0
  BY TimesNone DEF EmptyTable
<1>3. Ahead = {} /\ Due("flush") = {} /\ Due("final") = {}
  BY <1>1 DEF Ahead, Due
<1> QED
  BY <1>1, <1>2, <1>3 DEF RowsInv, Once, Twice, OneIf

(* The table t has no record more often than the view or the file.         *)
NoMore(t) ==
    (\A n \in Records : Times(t, n) <= Times(view, n))
        \/ (\A n \in Records : Times(t, n) <= Times(disk, n))

(* Steps that insert nothing and put nothing ahead.                        *)
LEMMA NothingInserted ==
    ASSUME TypeOK, TypeOK', RowsInv, base' = base,
           writer' \in {"get", "flush"} => writer \in {"get", "flush"} /\ Ahead' \subseteq Ahead,
           \A j \in FlushJobs : Due(j)' \subseteq Due(j),
           NoMore(view'), NoMore(disk')
    PROVE  RowsInv'
<1>1. /\ view \in Tables /\ disk \in Tables /\ view' \in Tables /\ disk' \in Tables
      /\ "flush" \in FlushJobs /\ "final" \in FlushJobs
  BY DEF TypeOK, FlushJobs
<1>2. /\ \A n : Times(view, n) \in Nat /\ Times(disk, n) \in Nat
      /\ \A n : Times(view', n) \in Nat /\ Times(disk', n) \in Nat
  BY <1>1, TimesType
<1>3. \A n : /\ OneIf(n, Ahead) \in {0, 1}
             /\ OneIf(n, Due("flush")) \in {0, 1} /\ OneIf(n, Due("final")) \in {0, 1}
  BY DEF OneIf
<1>4. \A n : /\ OneIf(n, Due("flush")') \in {0, 1} /\ OneIf(n, Due("final")') \in {0, 1}
             /\ OneIf(n, Due("flush")') <= OneIf(n, Due("flush"))
             /\ OneIf(n, Due("final")') <= OneIf(n, Due("final"))
  BY <1>1 DEF OneIf
<1>5. ASSUME NEW t \in {view', disk'}
      PROVE  \/ \A n \in Records : Times(t, n) <= Times(view, n)
             \/ \A n \in Records : Times(t, n) <= Times(disk, n)
  BY DEF NoMore
<1>6. ASSUME NEW t \in {view', disk'}, NEW n \in Records
      PROVE  Times(t, n) + OneIf(n, Due("flush")') + OneIf(n, Due("final")') <= 2
  BY <1>2, <1>3, <1>4, <1>5 DEF RowsInv, Twice
<1>7. ASSUME NEW t \in {view', disk'}, NEW n \in Records, n > base,
             writer' \in {"get", "flush"}
      PROVE  Times(t, n) + OneIf(n, Ahead') <= 1
  <2>1. OneIf(n, Ahead') \in {0, 1} /\ OneIf(n, Ahead') <= OneIf(n, Ahead)
    BY <1>7 DEF OneIf
  <2> QED
    BY <1>2, <1>3, <1>5, <1>7, <2>1 DEF RowsInv, Once
<1> QED
  BY <1>6, <1>7 DEF RowsInv, Once, Twice

(* An insert of a job takes the record off what is due and ahead, as the   *)
(* batch names it once.                                                    *)
LEMMA RowsInsert ==
    ASSUME TypeOK, TypeOK', JobsInv, PlacedInv, RowsInv, NEW j \in FlushJobs, FlushInsert(j)
    PROVE  RowsInv'
<1> DEFINE n    == Head(todo[j])
           rest == Tail(todo[j])
<1>1. /\ job[j] = "running" /\ todo[j] # << >> /\ todo' = [todo EXCEPT ![j] = rest]
      /\ view' = Insert(view, n) /\ disk' \in {disk, view'}
      /\ UNCHANGED <<base, queue, batch, writer, job>>
  BY DEF FlushInsert, procVars, arrivals, writerVars
<1>2. /\ todo \in [FlushJobs -> Seq(Records)] /\ view \in Tables /\ disk \in Tables
      /\ \A m \in Records : m \in Int
      /\ FlushJobs = {"flush", "final"}
      /\ ToSet(queue) \subseteq Records
  BY SetOfSeq, BoundsAssumption DEF TypeOK, Sequences, FlushJobs, Records
<1>3. n \in Records /\ rest \in Seq(Records) /\ ToSet(todo[j]) = {n} \cup ToSet(rest)
  BY <1>1, <1>2, TailSet
<1>4. n \notin ToSet(rest)
  <2>1. \A m \in ToSet(rest) : n < m
    BY <1>1, <1>2, IncreasingTail DEF PlacedInv
  <2> QED
    BY <1>2, <1>3, <2>1
<1>5. n \in ToSet(batch) /\ n \notin ToSet(queue) /\ n > base
  <2>1. n \in ToSet(batch)
    BY <1>1, <1>3 DEF PlacedInv
  <2> QED
    BY <1>2, <1>3, <2>1 DEF PlacedInv
<1>6. job' = job /\ todo'[j] = rest /\ \A k \in FlushJobs : k # j => todo'[k] = todo[k]
  BY <1>1, <1>2
<1> HIDE DEF n, rest
<1>7. \A m, S : OneIf(m, S) \in {0, 1}
  BY DEF OneIf
<1>8. /\ \A m : Times(view, m) \in Nat /\ Times(disk, m) \in Nat
      /\ \A m : Times(view', m) = Times(view, m) + OneIf(m, {n})
  <2>1. \A m : Times(Insert(view, n), m) = Times(view, m) + OneIf(m, {n})
    BY <1>2, TimesInsert
  <2> QED
    BY <1>1, <1>2, <2>1, TimesType
<1>9. \A m : OneIf(m, ToSet(rest)) + OneIf(m, {n}) = OneIf(m, ToSet(todo[j]))
  BY <1>3, <1>4 DEF OneIf
<1>10. Twice(view)' /\ Twice(disk)'
  <2>1. \A m \in Records : /\ Times(view, m) + OneIf(m, Due("flush")) + OneIf(m, Due("final")) <= 2
                           /\ Times(disk, m) + OneIf(m, Due("flush")) + OneIf(m, Due("final")) <= 2
    BY DEF RowsInv, Twice
  <2>2. ASSUME NEW m \in Records
        PROVE  /\ Times(view', m) + OneIf(m, Due("flush")') + OneIf(m, Due("final")') <= 2
               /\ Times(disk, m) + OneIf(m, Due("flush")') + OneIf(m, Due("final")') <= 2
    <3>1. CASE j = "flush"
      <4>1. /\ Due("flush") = ToSet(todo[j]) /\ Due("flush")' = ToSet(rest)
            /\ Due("final")' = Due("final")
        BY <1>1, <1>2, <1>6, <3>1 DEF Due
      <4> QED
        BY <1>7, <1>8, <1>9, <2>1, <4>1
    <3>2. CASE j = "final"
      <4>1. /\ Due("final") = ToSet(todo[j]) /\ Due("final")' = ToSet(rest)
            /\ Due("flush")' = Due("flush")
        BY <1>1, <1>2, <1>6, <3>2 DEF Due
      <4> QED
        BY <1>7, <1>8, <1>9, <2>1, <4>1
    <3> QED
      BY <1>2, <3>1, <3>2
  <2> QED
    BY <1>1, <2>2 DEF Twice
<1>11. Once(view)' /\ Once(disk)'
  <2> SUFFICES ASSUME writer \in {"get", "flush"}
               PROVE  Once(view)' /\ Once(disk)'
    BY <1>1 DEF Once
  <2>1. j = "flush"
    BY <1>1, <1>2 DEF JobsInv
  <2>2. Ahead = ToSet(queue) \cup ToSet(todo[j]) /\ Ahead' = ToSet(queue) \cup ToSet(rest)
    BY <1>1, <1>2, <2>1 DEF Ahead
  <2>3. \A m : OneIf(m, Ahead') + OneIf(m, {n}) = OneIf(m, Ahead)
    BY <1>3, <1>4, <1>5, <2>2 DEF OneIf
  <2>4. ASSUME NEW m \in Records, m > base
        PROVE  /\ Times(view', m) + OneIf(m, Ahead') <= 1
               /\ Times(disk, m) + OneIf(m, Ahead') <= 1
    <3>1. Times(view, m) + OneIf(m, Ahead) <= 1 /\ Times(disk, m) + OneIf(m, Ahead) <= 1
      BY <2>4 DEF RowsInv, Once
    <3> QED
      BY <1>7, <1>8, <2>3, <3>1
  <2> QED
    BY <1>1, <2>4 DEF Once
<1> QED
  BY <1>10, <1>11 DEF RowsInv

(* A flush that starts, or is submitted by the handler, makes due what has *)
(* no row yet, or one row from the flush that the handler repeats.         *)
LEMMA RowsSubmitted ==
    ASSUME TypeOK, JobsInv, PlacedInv, RowsInv,
           writer \in {"get", "flush"}, UNCHANGED <<base, view, disk>>,
           writer' \in {"get", "flush"} => Ahead' \subseteq Ahead,
           \/ /\ job["flush"] # "running" /\ Due("flush")' \subseteq ToSet(batch) \cap Ahead
              /\ Due("final")' = {}
           \/ /\ Due("flush")' \subseteq Due("flush")
              /\ Due("final")' \subseteq ToSet(batch) \cup ToSet(queue)
    PROVE  RowsInv'
<1>1. view \in Tables /\ disk \in Tables
  BY DEF TypeOK
<1>2. /\ \A m : Times(view, m) \in Nat /\ Times(disk, m) \in Nat
      /\ \A m, S : OneIf(m, S) \in {0, 1}
  BY <1>1, TimesType DEF OneIf
<1>3. Due("flush") \subseteq Ahead /\ Due("flush") \subseteq ToSet(batch)
  BY DEF Due, Ahead, PlacedInv, FlushJobs
<1>4. Due("final") = {}
  BY DEF Due, JobsInv
<1>5. \A m \in ToSet(batch) \cup ToSet(queue) : m > base
  BY DEF PlacedInv
<1>6. Once(view)' /\ Once(disk)'
  <2>1. ASSUME writer' \in {"get", "flush"}
        PROVE  \A m : OneIf(m, Ahead') <= OneIf(m, Ahead)
    BY <2>1 DEF OneIf
  <2> QED
    BY <1>2, <2>1 DEF RowsInv, Once
<1>7. ASSUME NEW t \in {view, disk}, NEW m \in Records
      PROVE  Times(t, m) + OneIf(m, Due("flush")') + OneIf(m, Due("final")') <= 2
  <2>1. Times(t, m) + OneIf(m, Due("flush")) + OneIf(m, Due("final")) <= 2
    BY DEF RowsInv, Twice
  <2>2. m > base => Times(t, m) + OneIf(m, Ahead) <= 1
    BY DEF RowsInv, Once
  <2>3. CASE m \in ToSet(batch) \cup ToSet(queue)
    <3>1. Times(t, m) + OneIf(m, Ahead) <= 1
      BY <1>5, <2>2, <2>3
    <3>2. OneIf(m, Due("flush")') <= OneIf(m, Ahead)
      BY <1>3 DEF OneIf
    <3> QED
      BY <1>2, <3>1, <3>2
  <2>4. CASE m \notin ToSet(batch) \cup ToSet(queue)
    <3>1. OneIf(m, Due("flush")') = 0 /\ OneIf(m, Due("final")') = 0
      BY <1>3, <2>4 DEF OneIf
    <3> QED
      BY <1>2, <2>1, <3>1
  <2> QED
    BY <2>3, <2>4
<1> QED
  BY <1>6, <1>7 DEF RowsInv, Twice

(* Every step keeps a record to one row while the writer is in its loop    *)
(* and to two rows whatever happens after.                                 *)
LEMMA RowsNext ==
    ASSUME TypeOK, TypeOK', UseInv, ArrivedInv, JobsInv, PlacedInv, RowsInv, [Next]_vars
    PROVE  RowsInv'
<1>0. /\ job \in [Jobs -> {"idle", "queued", "running", "done", "raised"}]
      /\ todo \in [FlushJobs -> Seq(Records)] /\ view \in Tables /\ disk \in Tables
      /\ queue \in Seq(Records) /\ batch \in Seq(Records)
      /\ Jobs = {"flush", "final", "purge", "close"} /\ FlushJobs = {"flush", "final"}
      /\ ToSet(<< >>) = {}
  BY EmptySet DEF TypeOK, Sequences, Jobs, FlushJobs
<1>a. \A n : Times(view, n) \in Nat /\ Times(disk, n) \in Nat
  BY <1>0, TimesType
<1>b. \A t : t = view \/ t = disk => NoMore(t)
  BY <1>a DEF NoMore
<1> USE <1>0 DEF procVars, arrivals, writerVars, purgeVars, sqlVars, tallies, Set
<1>1. CASE Start
  <2>1. /\ base' = arrived /\ view' = disk /\ disk' = disk /\ job' = job /\ todo' = todo
        /\ batch' = << >> /\ queue' = << >>
        /\ job["flush"] = "idle" /\ job["final"] = "idle"
    BY <1>1 DEF Start, UseInv
  <2>2. Ahead' = {} /\ Due("flush")' = {} /\ Due("final")' = {}
    BY <2>1 DEF Ahead, Due
  <2>3. \A n \in Records : n > arrived => Times(disk, n) = 0
    <3>1. \A r \in disk.rows : r.rec <= arrived /\ r.rec \in Int
      BY BoundsAssumption DEF ArrivedInv, Tables, Records
    <3>2. arrived \in Int /\ \A n \in Records : n \in Int
      BY BoundsAssumption DEF TypeOK, Records
    <3>3. ASSUME NEW n \in Records, n > arrived PROVE Times(disk, n) = 0
      <4>1. \A r \in disk.rows : r.rec # n
        BY <3>1, <3>2, <3>3
      <4> QED
        BY <4>1, TimesNone
    <3> QED
      BY <3>3
  <2>4. Twice(disk)'
    <3>1. \A n \in Records : Times(disk, n) + OneIf(n, Due("flush")) + OneIf(n, Due("final")) <= 2
      BY DEF RowsInv, Twice
    <3>2. \A n, S : OneIf(n, S) \in {0, 1}
      BY DEF OneIf
    <3>3. \A n : OneIf(n, {}) = 0
      BY DEF OneIf
    <3>4. ASSUME NEW n \in Records
          PROVE  Times(disk, n) + OneIf(n, {}) + OneIf(n, {}) <= 2
      <4>1. /\ Times(disk, n) \in Nat /\ OneIf(n, {}) = 0
            /\ OneIf(n, Due("flush")) \in {0, 1} /\ OneIf(n, Due("final")) \in {0, 1}
        BY <1>a, <3>2, <3>3
      <4> QED
        BY <3>1, <4>1
    <3> QED
      BY <2>1, <2>2, <3>4 DEF Twice
  <2>5. Once(disk)'
    BY <2>1, <2>2, <2>3 DEF Once, OneIf
  <2> QED
    BY <2>1, <2>4, <2>5 DEF RowsInv, Once, Twice
<1>2. CASE Forget
  <2>1. /\ base' = base /\ view' = disk /\ disk' = disk
        /\ writer' = "done" /\ job'["flush"] = "idle" /\ job'["final"] = "idle"
    BY <1>2 DEF Forget
  <2>2. Due("flush")' = {} /\ Due("final")' = {}
    BY <2>1 DEF Due
  <2> QED
    BY <1>b, <2>1, <2>2, NothingInserted
<1>3. CASE Stop \/ StopSkipped \/ ServeReturns
  <2>1. /\ UNCHANGED <<base, view, disk, queue, batch, todo>>
        /\ \A j \in FlushJobs : job'[j] = job[j] \/ (job[j] = "queued" /\ job'[j] = "idle")
        /\ writer' \in {"get", "flush"} => writer \in {"get", "flush"}
    BY <1>3 DEF Stop, StopSkipped, ServeReturns, Withdrawn
  <2>2. Ahead' = Ahead /\ Due("flush")' \subseteq Due("flush") /\ Due("final")' \subseteq Due("final")
    BY <2>1 DEF Ahead, Due
  <2> QED
    BY <1>b, <2>1, <2>2, NothingInserted
<1>4. CASE LogNowait
  <2>1. /\ writer \in {"get", "flush"} /\ queue' = Append(queue, arrived + 1)
        /\ arrived + 1 \in Records
        /\ UNCHANGED <<base, view, disk, batch, job, todo, writer>>
    BY <1>4, BoundsAssumption DEF LogNowait, Arrive, Records, TypeOK
  <2>2. ToSet(queue') = ToSet(queue) \cup {arrived + 1}
    BY <2>1, AppendedSet
  <2>3. /\ Ahead' = Ahead \cup {arrived + 1}
        /\ Due("flush")' = Due("flush") /\ Due("final")' = Due("final")
    BY <2>1, <2>2 DEF Ahead, Due
  <2>4. Times(view, arrived + 1) = 0 /\ Times(disk, arrived + 1) = 0
    <3>1. \A r \in view.rows \cup disk.rows : r.rec # arrived + 1
      <4>1. \A r \in view.rows \cup disk.rows : r.rec <= arrived
        BY DEF ArrivedInv
      <4>2. arrived \in Int
        BY BoundsAssumption DEF TypeOK
      <4> QED
        BY <4>1, <4>2
    <3> QED
      BY <3>1, TimesNone
  <2>5. Once(view)' /\ Once(disk)'
    <3>1. \A n : n # arrived + 1 => OneIf(n, Ahead') = OneIf(n, Ahead)
      BY <2>3 DEF OneIf
    <3>2. OneIf(arrived + 1, Ahead') <= 1
      BY DEF OneIf
    <3>3. ASSUME NEW t \in {view, disk}, NEW n \in Records, n > base
          PROVE  Times(t, n) + OneIf(n, Ahead') <= 1
      <4>1. CASE n = arrived + 1
        BY <2>4, <3>2, <4>1 DEF OneIf
      <4>2. CASE n # arrived + 1
        BY <2>1, <3>1, <3>3, <4>2 DEF RowsInv, Once
      <4> QED
        BY <4>1, <4>2
    <3> QED
      BY <2>1, <3>3 DEF Once
  <2> QED
    BY <2>1, <2>3, <2>5 DEF RowsInv, Twice
<1>5. CASE UNCHANGED <<base, view, disk, queue, batch, todo, writer, job["flush"], job["final"]>>
  <2>1. Ahead' = Ahead /\ Due("flush")' = Due("flush") /\ Due("final")' = Due("final")
    BY <1>5 DEF Ahead, Due
  <2> QED
    BY <1>5, <2>1 DEF RowsInv, Once, Twice
<1>6. CASE WriterTake
  <2>1. /\ UNCHANGED <<base, view, disk, todo>> /\ writer = "get"
        /\ job["flush"] = "idle" /\ job'["flush"] \in {"idle", "queued"}
        /\ job'["final"] = "idle"
        /\ queue # << >> /\ queue' = Tail(queue) /\ batch' = Append(batch, Head(queue))
    BY <1>6 DEF WriterTake, JobsInv
  <2>2. Head(queue) \in Records /\ ToSet(queue) = {Head(queue)} \cup ToSet(Tail(queue))
    BY <2>1, TailSet
  <2>3. ToSet(batch') = ToSet(batch) \cup {Head(queue)}
    BY <2>1, <2>2, AppendedSet
  <2>4. Ahead' = Ahead /\ Due("flush")' = {} /\ Due("final")' = {}
    BY <2>1, <2>2, <2>3 DEF Ahead, Due
  <2> QED
    BY <1>b, <2>1, <2>4, NothingInserted
<1>7. CASE WriterTimeout
  <2>1. /\ UNCHANGED <<base, view, disk, todo, queue, batch>> /\ writer = "get"
        /\ job["flush"] = "idle" /\ job'["flush"] = "queued" /\ job'["final"] = "idle"
    BY <1>7 DEF WriterTimeout, JobsInv
  <2>2. Ahead' = Ahead /\ Due("flush")' = {} /\ Due("final")' = {}
    BY <2>1 DEF Ahead, Due
  <2> QED
    BY <1>b, <2>1, <2>2, NothingInserted
<1>8. CASE WriterResume
  <2>1. /\ UNCHANGED <<base, view, disk, todo, queue>> /\ writer = "flush" /\ batch' = << >>
        /\ job["flush"] = "done" /\ job'["flush"] = "idle" /\ job'["final"] = "idle"
    BY <1>8 DEF WriterResume, AfterFlush, JobsInv
  <2>2. Ahead' = Ahead /\ Due("flush")' = {} /\ Due("final")' = {}
    BY <2>1 DEF Ahead, Due
  <2> QED
    BY <1>b, <2>1, <2>2, NothingInserted
<1>9. CASE WriterCancelled
  <2>1. /\ UNCHANGED <<base, view, disk, todo>> /\ batch' = batch \o queue
        /\ writer \in {"get", "flush"} /\ writer' \notin {"get", "flush"}
        /\ job'["flush"] = job["flush"] /\ job["final"] = "idle"
        /\ job'["final"] \in {"idle", "queued"}
    BY <1>9 DEF WriterCancelled, Drained, JobsInv
  <2>2. ToSet(batch') = ToSet(batch) \cup ToSet(queue)
    BY <2>1, JoinedSet
  <2>3. Due("flush")' = Due("flush") /\ Due("final")' \subseteq ToSet(batch) \cup ToSet(queue)
    BY <2>1, <2>2 DEF Due
  <2> QED
    BY <2>1, <2>3, RowsSubmitted
<1>10. CASE WriterFinished
  <2>1. /\ UNCHANGED <<base, view, disk, todo, queue, batch, job>> /\ writer' = "done"
    BY <1>10 DEF WriterFinished
  <2>2. Due("flush")' = Due("flush") /\ Due("final")' = Due("final")
    BY <2>1 DEF Due
  <2> QED
    BY <1>b, <2>1, <2>2, NothingInserted
<1>11. CASE FlushStart("flush")
  <2>1. /\ UNCHANGED <<base, view, disk, queue, batch, writer>> /\ job["flush"] = "queued"
        /\ job'["flush"] = "running" /\ todo'["flush"] = batch
        /\ writer = "flush" /\ job'["final"] = "idle"
    BY <1>11 DEF FlushStart, JobsInv
  <2>2. /\ Ahead' = Ahead /\ ToSet(batch) \subseteq Ahead
        /\ Due("flush")' = ToSet(batch) /\ Due("final")' = {}
    BY <2>1 DEF Ahead, Due
  <2> QED
    BY <2>1, <2>2, RowsSubmitted
<1>12. CASE FlushStart("final")
  <2>1. /\ UNCHANGED <<base, view, disk, batch, writer>> /\ job["final"] = "queued"
        /\ job'["final"] = "running" /\ todo'["final"] = batch
        /\ writer \notin {"get", "flush"}
        /\ job'["flush"] = job["flush"] /\ todo'["flush"] = todo["flush"]
    BY <1>12 DEF FlushStart, JobsInv
  <2>2. Due("flush")' = Due("flush") /\ Due("final")' = Due("final")
    BY <2>1 DEF Due
  <2> QED
    BY <1>b, <2>1, <2>2, NothingInserted
<1>13. ASSUME NEW j \in FlushJobs, FlushInsert(j) PROVE RowsInv'
  BY <1>13, RowsInsert
<1>14. ASSUME NEW j \in FlushJobs, FlushCommit(j) \/ FlushError(j) \/ FlushAssertion(j)
       PROVE  RowsInv'
  <2>1. /\ UNCHANGED <<base, queue, batch, writer>>
        /\ view' \in {view, disk} /\ disk' \in {view, disk}
    BY <1>14 DEF FlushCommit, FlushError, FlushAssertion, Commit, Rollback
  <2>2. /\ job'[j] = "done" \/ (job[j] = "queued" /\ job'[j] = "raised")
        /\ \A k \in FlushJobs : k # j => job'[k] = job[k] /\ todo'[k] = todo[k]
    BY <1>14 DEF FlushCommit, FlushError, FlushAssertion
  <2>3. Ahead' \subseteq Ahead /\ Due("flush")' \subseteq Due("flush") /\ Due("final")' \subseteq Due("final")
    <3>1. CASE j = "flush"
      BY <2>1, <2>2, <3>1 DEF Ahead, Due
    <3>2. CASE j = "final"
      BY <2>1, <2>2, <3>2 DEF Ahead, Due
    <3> QED
      BY <3>1, <3>2
  <2> QED
    BY <1>b, <2>1, <2>3, NothingInserted
<1>15. CASE PurgeStep \/ CloseStep
  <2>1. /\ UNCHANGED <<base, queue, batch, writer, todo, job["flush"], job["final"]>>
    BY <1>15
    DEF PurgeStep, PurgeDelete, PurgeCommit, PurgeError, CloseStep, CloseConnection, CloseDone
  <2>2. Ahead' = Ahead /\ Due("flush")' = Due("flush") /\ Due("final")' = Due("final")
    BY <2>1 DEF Ahead, Due
  <2>3. /\ view'.rows \subseteq view.rows \/ view' = disk
        /\ disk' \in {view, disk}
    BY <1>15
    DEF PurgeStep, PurgeDelete, PurgeCommit, PurgeError, CloseStep, CloseConnection, CloseDone,
        Commit, Rollback, Delete, Tables
  <2>4. NoMore(view')
    <3>1. CASE view'.rows \subseteq view.rows
      BY <3>1, TimesFewer DEF NoMore
    <3> QED
      BY <1>b, <2>3, <3>1
  <2> QED
    BY <1>b, <2>1, <2>2, <2>3, <2>4, NothingInserted
<1>16. CASE LogOverflow \/ RetentionStep \/ UNCHANGED vars
  BY <1>5, <1>16 DEF LogOverflow, Arrive, RetentionStep, RetentionWake, RetentionResume, vars
<1> QED
  BY <1>1, <1>2, <1>3, <1>4, <1>6, <1>7, <1>8, <1>9, <1>10, <1>11, <1>12, <1>13, <1>14,
     <1>15, <1>16
  DEF Next, Crash, ProcessExit, WriterStep, ServeStep, FlushStep

(* A record has one row, or two if Ctrl-C came during its flush: whatever  *)
(* fails, is withdrawn, cut short or committed by another job, and in the  *)
(* file that later processes find (query_log.py:194, 198, 202-205).        *)
THEOREM NeverAThirdRow == Spec => []TwoRowsAtMost
<1>1. Spec => []TypeOK
  BY TypeCorrect
<1>2. Init => UseInv /\ ArrivedInv /\ JobsInv /\ PlacedInv /\ RowsInv
  BY UseInit, ArrivedInit, JobsInit, PlacedInit, RowsInit
<1>3. TypeOK /\ TypeOK' /\ UseInv /\ ArrivedInv /\ JobsInv /\ PlacedInv /\ RowsInv /\ [Next]_vars
         => UseInv' /\ ArrivedInv' /\ JobsInv' /\ PlacedInv' /\ RowsInv'
  BY UseInvNext, ArrivedNext, JobsNext, PlacedNext, RowsNext
<1>4. TypeOK /\ RowsInv => TwoRowsAtMost
  <2> SUFFICES ASSUME TypeOK, RowsInv, NEW n \in Records
               PROVE  Cardinality(RowsOf(n)) <= IF Running /\ n > base THEN 1 ELSE 2
    BY DEF TwoRowsAtMost
  <2>1. Cardinality(RowsOf(n)) = Times(disk, n) /\ Times(disk, n) \in Nat
    BY TimesType DEF RowsOf, Times, TypeOK
  <2>2. \A S : OneIf(n, S) \in {0, 1}
    BY DEF OneIf
  <2>3. Times(disk, n) <= 2
    BY <2>1, <2>2 DEF RowsInv, Twice
  <2>4. Running /\ n > base => Times(disk, n) <= 1
    BY <2>1, <2>2 DEF RowsInv, Once, Running
  <2> QED
    BY <2>1, <2>3, <2>4
<1> QED
  BY <1>1, <1>2, <1>3, <1>4, PTL DEF Spec

------------------------------------------------------------------------------
(* The end of the service: what is awaited.                                *)

(* After the process has served, the close is on its way, or stop() was    *)
(* skipped; a writer that is not cancelled any more is the one of a        *)
(* skipped stop(), or has something that the assertion of _flush ends.     *)
WaitInv ==
    /\ writer = "flush" /\ cancel = "none" => job["flush"] # "idle"
    /\ writer = "final" => job["final"] # "idle"
    /\ retention = "purge" => job["purge"] # "idle"
    /\ cancel = "missed" => MayMiss
    /\ serve \in {"stopping", "leaving"} =>
          \/ job["close"] = "queued" /\ conn = "open" /\ serve = "stopping"
          \/ job["close"] = "running" /\ conn = "closed" /\ serve = "stopping"
          \/ job["close"] = "done" /\ conn = "none"
          \/ job["close"] = "idle" /\ conn = "open" /\ serve = "leaving" /\ MayFailStop
    /\ serve = "leaving" /\ cancel = "none" /\ writer \in {"get", "flush"} =>
          /\ MayMiss
          /\ conn = "none" /\ writer = "get" => batch # << >>
          /\ conn = "none" /\ writer = "flush" => job["flush"] \in {"queued", "raised"}

(* A process that serves has not come to its end.                          *)
LEMMA WaitInit == Init => WaitInv
BY DEF Init, WaitInv

(* A cancellation withdraws a job only from a writer that is then          *)
(* cancelled, and after the close a flush that starts is one that raises.  *)
LEMMA WaitNext == TypeOK /\ UseInv /\ JobsInv /\ WaitInv /\ [Next]_vars => WaitInv'
<1> SUFFICES ASSUME TypeOK, UseInv, JobsInv, WaitInv, [Next]_vars PROVE WaitInv'
  OBVIOUS
<1>0. /\ job \in [Jobs -> {"idle", "queued", "running", "done", "raised"}]
      /\ writer \in {"get", "flush", "final", "done"}
      /\ serve \in {"up", "stopping", "leaving", "exited"}
      /\ cancel \in {"none", "due", "missed"}
      /\ conn \in {"open", "closed", "none"}
      /\ Jobs = {"flush", "final", "purge", "close"}
      /\ queue \in Seq(Records) /\ batch \in Seq(Records)
  BY DEF TypeOK, Jobs, FlushJobs, Sequences
<1> USE <1>0 DEF WaitInv, procVars, arrivals, writerVars, purgeVars, sqlVars, tallies, Set, FlushJobs
<1>1. CASE Start
  BY <1>1 DEF Start, UseInv
<1>2. CASE Forget
  BY <1>2 DEF Forget
<1>3. CASE Stop \/ StopSkipped
  BY <1>3 DEF Stop, StopSkipped, Withdrawn, Cancellation, UseInv
<1>4. CASE LogNowait \/ LogOverflow
  BY <1>4 DEF LogNowait, LogOverflow, Arrive
<1>5. CASE WriterTake
  <2>1. batch' # << >>
    BY <1>5, HeadTailProperties, AppendProperties DEF WriterTake
  <2> QED
    BY <1>5, <2>1 DEF WriterTake, UseInv
<1>6. CASE WriterTimeout \/ WriterResume
  BY <1>6 DEF WriterTimeout, WriterResume, UseInv
<1>7. CASE WriterCancelled
  BY <1>7 DEF WriterCancelled, Drained
<1>8. CASE WriterFinished
  BY <1>8 DEF WriterFinished
<1>9. CASE RetentionStep
  BY <1>9 DEF RetentionStep, RetentionWake, RetentionResume
<1>10. CASE ServeReturns
  BY <1>10 DEF ServeReturns, Withdrawn, Cancellation
<1>11. ASSUME NEW j \in FlushJobs, FlushStep(j) PROVE WaitInv'
  <2>1. /\ job[j] \in {"queued", "running"} /\ UNCHANGED <<serve, writer, cancel, batch, retention, conn>>
        /\ job[j] = "queued" /\ conn = "none" => job' = [job EXCEPT ![j] = "raised"]
    BY <1>11
    DEF FlushStep, FlushStart, FlushInsert, FlushCommit, FlushError, FlushAssertion, Commit, Rollback
  <2>2. PICK s \in {"running", "done", "raised"} : job' = [job EXCEPT ![j] = s]
    BY <1>11, <2>1 DEF FlushStep, FlushStart, FlushInsert, FlushCommit, FlushError, FlushAssertion
  <2> QED
    BY <2>1, <2>2
<1>12. CASE PurgeStep
  BY <1>12 DEF PurgeStep, PurgeDelete, PurgeCommit, PurgeError, Commit, Rollback
<1>13. CASE CloseStep
  BY <1>13 DEF CloseStep, CloseConnection, CloseDone, UseInv
<1>14. CASE UNCHANGED vars
  BY <1>14 DEF vars
<1> QED
  BY <1>1, <1>2, <1>3, <1>4, <1>5, <1>6, <1>7, <1>8, <1>9, <1>10, <1>11, <1>12, <1>13, <1>14
  DEF Next, Crash, ProcessExit, WriterStep, ServeStep

(* Nobody awaits a job that was withdrawn, and the writer is left without  *)
(* an end only by a skipped stop() together with a missed cancellation     *)
(* (query_log.py:143-149, 189-191, 194, 198, 200-209, 226).                *)
THEOREM NoVainWait == Spec => []NobodyWaitsInVain
<1>1. Init => TypeOK /\ UseInv /\ JobsInv /\ WaitInv
  BY TypeInit, UseInit, JobsInit, WaitInit
<1>2. TypeOK /\ UseInv /\ JobsInv /\ WaitInv /\ [Next]_vars
         => TypeOK' /\ UseInv' /\ JobsInv' /\ WaitInv'
  BY TypeNext, UseInvNext, JobsNext, WaitNext
<1>3. WaitInv => NobodyWaitsInVain
  BY DEF WaitInv, NobodyWaitsInVain, Stranded
<1> QED
  BY <1>1, <1>2, <1>3, PTL DEF Spec

==============================================================================
