------------------------------ MODULE LruPolicy ------------------------------
(***************************************************************************)
(* What a least-recently-used cache promises, without saying how: it holds *)
(* at most Capacity names, remembers which of two cached names was used    *)
(* first, and makes room by giving up the name every other one was used    *)
(* after.                                                                  *)
(***************************************************************************)
EXTENDS Naturals, FiniteSets

CONSTANTS Names, Decisions, None, Capacity

VARIABLES entries,  \* a function from the cached names to their decisions
          older,    \* <<m, n>> : m was last used before n
          answer    \* the answer of the last lookup

vars == <<entries, older, answer>>

Init == entries = << >> /\ older = {} /\ answer = None

(* `before` with n as the latest of `names`.                               *)
Latest(before, names, n) ==
    {p \in before : n \notin {p[1], p[2]} /\ p[1] \in names /\ p[2] \in names}
        \cup {<<m, n>> : m \in names \ {n}}

Oldest(n) == \A m \in DOMAIN entries \ {n} : <<n, m>> \in older

Lookup(n) ==
    /\ answer' = IF n \in DOMAIN entries THEN entries[n] ELSE None
    /\ older'  = IF n \in DOMAIN entries THEN Latest(older, DOMAIN entries, n) ELSE older
    /\ UNCHANGED entries

Store(n, d, kept) ==
    /\ entries' = [m \in kept \cup {n} |-> IF m = n THEN d ELSE entries[m]]
    /\ older' = Latest(older, kept \cup {n}, n)
    /\ UNCHANGED answer

StoreWithRoom(n, d) ==
    /\ n \in DOMAIN entries \/ Cardinality(DOMAIN entries) < Capacity
    /\ Store(n, d, DOMAIN entries)

StoreEvicting(n, d) ==
    /\ n \notin DOMAIN entries
    /\ Cardinality(DOMAIN entries) = Capacity
    /\ \E victim \in DOMAIN entries :
          Oldest(victim) /\ Store(n, d, DOMAIN entries \ {victim})

Next ==
    \E n \in Names :
        \/ Lookup(n)
        \/ \E d \in Decisions : StoreWithRoom(n, d) \/ StoreEvicting(n, d)

Spec == Init /\ [][Next]_vars

==============================================================================
