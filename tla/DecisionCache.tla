---------------------------- MODULE DecisionCache ----------------------------
(***************************************************************************)
(* DecisionCache of sentinel_dns/cache.py: a bounded map from a query name *)
(* to the decision taken for it, which evicts the least recently used      *)
(* name.  The inline tier calls get, and put after a miss; the class does  *)
(* not depend on that order, so neither does this module.                  *)
(***************************************************************************)
EXTENDS LruDict

CONSTANTS Names,     \* query names
          Decisions, \* what a classification can say
          None,      \* Python's None, what get returns on a miss
          Capacity,  \* _capacity
          MaxGets    \* bound: calls of get that a behaviour counts

ASSUME CapacityAssumption == Capacity \in Nat \ {0}   \* cache.py:45-46
ASSUME NoneAssumption     == None \notin Decisions
ASSUME MaxGetsAssumption  == MaxGets \in Nat

VARIABLES cache,   \* _cache
          hits,    \* _hits
          misses,  \* _misses
          answer   \* what the last get returned

vars == <<cache, hits, misses, answer>>

TypeOK ==
    /\ cache.order \in Seq(Names)
    /\ cache.val \in [Cached(cache) -> Decisions]
    /\ Cached(cache) \subseteq Names
    /\ cache = [order |-> cache.order, val |-> cache.val]
    /\ hits \in Nat /\ misses \in Nat
    /\ answer \in Decisions \cup {None}

Init ==
    /\ cache = EmptyDict
    /\ hits = 0 /\ misses = 0
    /\ answer = None

GetHit(n) ==
    /\ hits + misses < MaxGets
    /\ n \in Cached(cache)
    /\ cache' = AfterGet(cache, n)
    /\ answer' = cache.val[n]
    /\ hits' = hits + 1
    /\ UNCHANGED misses

(* Mutant of GetMiss: the miss is cached, as dict.setdefault would.        *)
GetMissCachingNone(n) ==
    /\ hits + misses < MaxGets
    /\ n \notin Cached(cache)
    /\ cache' = AfterPut(cache, n, None, Capacity)
    /\ answer' = None
    /\ misses' = misses + 1
    /\ UNCHANGED hits

GetMiss(n) ==
    /\ hits + misses < MaxGets
    /\ n \notin Cached(cache)
    /\ cache' = AfterGet(cache, n)
    /\ answer' = None
    /\ misses' = misses + 1
    /\ UNCHANGED hits

Put(n, d) ==
    /\ cache' = AfterPut(cache, n, d, Capacity)
    /\ UNCHANGED <<hits, misses, answer>>

Next ==
    \E n \in Names :
        \/ GetHit(n)
        \/ GetMiss(n)
        \/ \E d \in Decisions : Put(n, d)

Spec == Init /\ [][Next]_vars

------------------------------------------------------------------------------
(* The recency list and the map describe the same keys, each of them once, *)
(* and there are never more than Capacity of them: the ordering that       *)
(* move_to_end and popitem maintain never drifts from the map get reads    *)
(* (cache.py:52-68).                                                       *)
Distinct(s) == \A i, j \in DOMAIN s : s[i] = s[j] => i = j

OrderMatchesEntries ==
    /\ Distinct(cache.order)
    /\ Cached(cache) = {cache.order[i] : i \in DOMAIN cache.order}
    /\ Len(cache.order) <= Capacity

------------------------------------------------------------------------------
(* The least-recently-used cache of module LruPolicy, which knows nothing  *)
(* of lists: only which name was used before which.                        *)
OlderPairs ==
    {<<cache.order[p[1]], cache.order[p[2]]>> :
        p \in {q \in (DOMAIN cache.order) \X (DOMAIN cache.order) : q[1] < q[2]}}

Policy == INSTANCE LruPolicy WITH entries <- cache.val, older <- OlderPairs

(* Every get and every put does to the set of cached names, to their       *)
(* decisions and to their order of use what a least-recently-used cache of *)
(* Capacity names does (cache.py:11, 52-68).                               *)
ImplementsLru == Policy!Spec

==============================================================================
