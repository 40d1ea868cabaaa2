----------------------------- MODULE MCTailFollow -----------------------------
(***************************************************************************)
(* The tables of a small file for TailFollow: ids up to MaxId, of which    *)
(* any may be missing, for records up to MaxRec.                           *)
(***************************************************************************)
EXTENDS TailFollow

CONSTANTS MaxId, MaxRec

SmallTables ==
    UNION {{[rows |-> {[id |-> i, rec |-> f[i]] : i \in ids}, seq |-> n] :
               f \in [ids -> 1..MaxRec], n \in {m \in 0..MaxId : \A i \in ids : i <= m}} :
           ids \in SUBSET (1..MaxId)}

SmallLimits == 0..MaxRec

SmallCounts == -1..2

==============================================================================
