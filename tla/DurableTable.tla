----------------------------- MODULE DurableTable -----------------------------
(***************************************************************************)
(* What the query log's file promises to whoever reads it, such as         *)
(* `sentinel-dns tail --follow`, which asks for ids above the last one it  *)
(* has seen (sentinel_dns/tail_cmd.py): rows are added under ids that were *)
(* never used before, and only the retention period takes rows away.       *)
(***************************************************************************)
EXTENDS Naturals

VARIABLES table,  \* [rows : set of [id, rec], seq : the last id ever used]
          limit   \* records up to this one are past the retention period

vars == <<table, limit>>

Init == table = [rows |-> {}, seq |-> 0] /\ limit = 0

Appended == table'.rows \ table.rows
Expired  == table.rows \ table'.rows

(* Mutant of Publish: the last id ever used is not remembered.             *)
PublishForgetting ==
    /\ \A r \in Appended : r.id \in 1..table'.seq
    /\ \A r, s \in Appended : r.id = s.id => r = s
    /\ \A r \in Expired : r.rec <= limit
    /\ UNCHANGED limit

(* One commit: of a flush, of a purge, or of both at once.                 *)
Publish ==
    /\ table'.seq >= table.seq
    /\ \A r \in Appended : r.id \in (table.seq + 1)..table'.seq
    /\ \A r, s \in Appended : r.id = s.id => r = s
    /\ \A r \in Expired : r.rec <= limit
    /\ UNCHANGED limit

Age == limit' >= limit /\ UNCHANGED table

Next == Publish \/ Age

Spec == Init /\ [][Next]_vars

==============================================================================
