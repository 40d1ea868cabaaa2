----------------------------- MODULE WriterTiming -----------------------------
(***************************************************************************)
(* How long the writer coroutine of the query log keeps a record before it *)
(* hands the batch to a flush (_run_writer_loop, query_log.py:183-199).    *)
(* Module QueryLog has its steps without time; this module has the clock   *)
(* and nothing else: every wait for the next record starts a new timeout   *)
(* of FlushInterval ticks, and a record ends the wait.                     *)
(***************************************************************************)
EXTENDS Integers

CONSTANTS BatchSize,      \* batch_size
          FlushInterval   \* flush_interval_s, in ticks of the clock

ASSUME SizeAssumption     == BatchSize \in Nat \ {0}
ASSUME IntervalAssumption == FlushInterval \in Nat \ {0}

VARIABLES size,  \* len(batch)
          age,   \* ticks since the first record of the batch was taken
          wait   \* ticks since the present wait for a record began

vars == <<size, age, wait>>

TypeOK == size \in 0..(BatchSize - 1) /\ age \in Nat /\ wait \in 0..FlushInterval

Init == size = 0 /\ age = 0 /\ wait = 0

(* Time passes only while the loop has nothing to do: a timeout that is    *)
(* due is taken before the next tick.                                      *)
Tick ==
    /\ wait < FlushInterval
    /\ wait' = wait + 1
    /\ age' = IF size = 0 THEN 0 ELSE age + 1
    /\ UNCHANGED size

(* A record is taken and the batch is not full: the wait starts anew.      *)
Take ==
    /\ size + 1 < BatchSize
    /\ size' = size + 1
    /\ wait' = 0
    /\ UNCHANGED age

(* A record fills the batch, which is flushed.                             *)
TakeLast ==
    /\ size + 1 >= BatchSize
    /\ size' = 0 /\ age' = 0 /\ wait' = 0

(* Mutant of Timeout: `batch = []` is missing.                             *)
TimeoutKeepingBatch ==
    /\ wait = FlushInterval
    /\ wait' = 0
    /\ UNCHANGED <<size, age>>

(* TimeoutError: what there is of a batch is flushed.                      *)
Timeout ==
    /\ wait = FlushInterval
    /\ size' = 0 /\ age' = 0 /\ wait' = 0

Next == Tick \/ Take \/ TakeLast \/ Timeout

Spec == Init /\ [][Next]_vars

------------------------------------------------------------------------------
(* A record waits for its flush at most one interval for every further     *)
(* record that the batch has room for, since each of them can restart the  *)
(* timer just before it fires (query_log.py:189-199).                      *)
AgeBound == age <= (BatchSize - 1) * FlushInterval

(* The strengthening that is inductive: every record but the first has     *)
(* cost at most one interval, and the present wait counts on top.          *)
AgeBySize ==
    IF size = 0 THEN age = 0 ELSE age <= (size - 1) * FlushInterval + wait

IInv == TypeOK /\ AgeBySize

==============================================================================
