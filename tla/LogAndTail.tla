------------------------------ MODULE LogAndTail ------------------------------
(***************************************************************************)
(* The forwarder and `sentinel-dns tail`, two processes that share nothing *)
(* but the file: the table that QueryLog commits is the table that         *)
(* TailFollow reads.  Together they are the conjunction of the two         *)
(* specifications, in which each process steps when it likes.              *)
(***************************************************************************)
EXTENDS TailFollow

CONSTANTS MaxRecords, MaxStarts, QueueMax, BatchSize, FailingJobs,
          MayStop, MayFailStop, MayMiss, MayCrash   \* see QueryLog

VARIABLES starts, serve, base, arrived, queue, dropped, writer, batch, cancel,
          retention, job, todo, conn, inTxn, view, warned, written, deleted,
          purged                                    \* see QueryLog

Log == INSTANCE QueryLogProofs WITH disk <- table, cutoff <- limit

(* What QueryLog assumes of its parameters.                                *)
LogAssumptions ==
    /\ MaxRecords \in Nat /\ MaxStarts \in Nat
    /\ QueueMax \in Nat \ {0} /\ BatchSize \in Nat \ {0}
    /\ FailingJobs \subseteq {"flush", "final", "purge"}
    /\ {MayStop, MayFailStop, MayMiss, MayCrash} \subseteq BOOLEAN

System == Log!Spec /\ TailSpec

(* While the log is in use, tail prints the queries of this process in the *)
(* order in which the forwarder handed them to log_nowait, although they   *)
(* came through a queue, a batch, a transaction that another job may       *)
(* commit half-way or roll back, and a poll (query_log.py:151-153,         *)
(* 189-195, 211-213, 235-236; tail_cmd.py:148-152, 162-168).               *)
PrintedAsArrived ==
    Log!Running =>
        \A i, j \in DOMAIN printed :
            i < j /\ printed[i].rec > base => printed[i].rec < printed[j].rec

==============================================================================
