------------------------------- MODULE LruDict -------------------------------
(***************************************************************************)
(* The data structure of DecisionCache (sentinel_dns/cache.py) as pure     *)
(* operators: an OrderedDict from query names to decisions together with   *)
(* the two methods that use it.  A dictionary is a record: `order` lists   *)
(* its keys from the least to the most recently used, `val` maps every     *)
(* key to its decision.  DecisionCache gives the operators a state         *)
(* machine; Forwarder calls them from the inline tier.                     *)
(***************************************************************************)
EXTENDS Naturals, Sequences, SequencesExt

EmptyDict == [order |-> << >>, val |-> << >>]

Cached(c) == DOMAIN c.val

PositionOf(c, n) == CHOOSE i \in DOMAIN c.order : c.order[i] = n

(* OrderedDict.move_to_end(n) for a key n of the dictionary.               *)
MoveToEnd(c, n) ==
    [c EXCEPT !.order = Append(RemoveAt(@, PositionOf(c, n)), n)]

(* Mutant of PopOldest: popitem() without last=False takes the newest key. *)
PopNewest(c) ==
    [order |-> Front(c.order),
     val   |-> [k \in Cached(c) \ {Last(c.order)} |-> c.val[k]]]

(* OrderedDict.popitem(last=False) for a dictionary that has a key.        *)
PopOldest(c) ==
    [order |-> Tail(c.order),
     val   |-> [k \in Cached(c) \ {Head(c.order)} |-> c.val[k]]]

(* c[n] = d: a key that is there keeps its place, a new one goes last.     *)
SetItem(c, n, d) ==
    [order |-> IF n \in Cached(c) THEN c.order ELSE Append(c.order, n),
     val   |-> [k \in Cached(c) \cup {n} |-> IF k = n THEN d ELSE c.val[k]]]

(* Mutant of AfterGet: first in, first out.                                *)
AfterGetFifo(c, n) == c

(* The dictionary after get(n).                                            *)
AfterGet(c, n) == IF n \in Cached(c) THEN MoveToEnd(c, n) ELSE c

(* Mutants of AfterPut: a key that is there keeps its old value; nothing   *)
(* is ever evicted.                                                        *)
AfterPutKeepingValue(c, n, d, capacity) ==
    CASE n \in Cached(c)                -> MoveToEnd(c, n)
      [] n \notin Cached(c)
           /\ Len(c.order) >= capacity  -> SetItem(PopOldest(c), n, d)
      [] OTHER                          -> SetItem(c, n, d)
AfterPutUnbounded(c, n, d, capacity) ==
    IF n \in Cached(c) THEN SetItem(MoveToEnd(c, n), n, d) ELSE SetItem(c, n, d)

(* The dictionary after put(n, d).                                         *)
AfterPut(c, n, d, capacity) ==
    CASE n \in Cached(c)                -> SetItem(MoveToEnd(c, n), n, d)
      [] n \notin Cached(c)
           /\ Len(c.order) >= capacity  -> SetItem(PopOldest(c), n, d)
      [] OTHER                          -> SetItem(c, n, d)

==============================================================================
