--------------------------- MODULE MCDecisionCache ---------------------------
(***************************************************************************)
(* DecisionCache with two history variables that state the promise of the  *)
(* cache to its caller without a word about lists: `lastPut` remembers     *)
(* every put, `since[n]` the other names used since n was last used.       *)
(***************************************************************************)
EXTENDS DecisionCache

VARIABLES lastPut, since

mcVars == <<vars, lastPut, since>>

MCInit ==
    /\ Init
    /\ lastPut = [n \in Names |-> None]
    /\ since = [n \in Names |-> {}]

Used(n) ==
    since' = [m \in Names |-> IF m = n THEN {} ELSE since[m] \cup {n}]

MCNext ==
    \E n \in Names :
        \/ GetHit(n) /\ Used(n) /\ UNCHANGED lastPut
        \/ GetMiss(n) /\ UNCHANGED <<lastPut, since>>
        \/ \E d \in Decisions :
              Put(n, d) /\ Used(n) /\ lastPut' = [lastPut EXCEPT ![n] = d]

MCSpec == MCInit /\ [][MCNext]_mcVars

Live(n) == lastPut[n] # None /\ Cardinality(since[n]) < Capacity

(* A name is cached exactly when it was put and fewer than Capacity other  *)
(* names were used since: no name that is still among the Capacity last    *)
(* ones is ever evicted, and none outlives its turn (cache.py:57, 63,      *)
(* 66-67).                                                                 *)
KeepsExactlyTheRecent == Cached(cache) = {n \in Names : Live(n)}

(* A hit returns the decision of the last put for that very name, whatever *)
(* was evicted, refreshed or put again in between (cache.py:52-68).        *)
HitReturnsLastPut ==
    [][\A n \in Names : GetHit(n) => answer' = lastPut[n]]_mcVars

==============================================================================
