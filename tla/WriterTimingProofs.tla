-------------------------- MODULE WriterTimingProofs --------------------------
(***************************************************************************)
(* The age bound of WriterTiming for every batch size and interval.        *)
(***************************************************************************)
EXTENDS WriterTiming, TLAPS

(* Adding one record adds one interval to what a batch may cost.           *)
LEMMA OneMoreInterval ==
    ASSUME NEW n \in Nat, NEW i \in Nat
    PROVE  /\ n * i \in Nat
           /\ (n + 1) * i = n * i + i
OBVIOUS

(* More records cost at least as many intervals.                           *)
LEMMA ProductMonotonic ==
    ASSUME NEW m \in Nat, NEW n \in Nat, NEW i \in Nat, m <= n
    PROVE  m * i <= n * i
<1>1. (n - m) * i >= 0
  OBVIOUS
<1>2. n * i = m * i + (n - m) * i
  OBVIOUS
<1> QED
  BY <1>1, <1>2

(* Every step of the writer keeps the age within the intervals that the    *)
(* records taken so far account for (query_log.py:187-199).                *)
LEMMA AgeBySizeInductive == IInv /\ [Next]_vars => IInv'
<1> SUFFICES ASSUME IInv, [Next]_vars PROVE IInv'
  OBVIOUS
<1> USE SizeAssumption, IntervalAssumption DEF IInv, TypeOK, AgeBySize
<1>1. CASE Tick
  <2>1. size = 0 \/ (size - 1) * FlushInterval \in Nat
    BY OneMoreInterval
  <2> QED
    BY <1>1, <2>1 DEF Tick
<1>2. CASE Take
  <2>1. CASE size = 0
    BY <1>2, <2>1 DEF Take
  <2>2. CASE size # 0
    <3>1. /\ (size - 1) * FlushInterval \in Nat
          /\ size * FlushInterval = (size - 1) * FlushInterval + FlushInterval
      BY <2>2, OneMoreInterval
    <3>2. age <= size * FlushInterval
      BY <2>2, <3>1
    <3> QED
      BY <1>2, <2>2, <3>1, <3>2 DEF Take
  <2> QED
    BY <2>1, <2>2
<1>3. CASE TakeLast
  BY <1>3 DEF TakeLast
<1>4. CASE Timeout
  BY <1>4 DEF Timeout
<1>5. CASE UNCHANGED vars
  BY <1>5 DEF vars
<1> QED
  BY <1>1, <1>2, <1>3, <1>4, <1>5 DEF Next

(* What the inductive invariant says of the batch of any size.             *)
LEMMA AgeBoundFollows == IInv => AgeBound
<1> SUFFICES ASSUME IInv PROVE AgeBound
  OBVIOUS
<1> USE SizeAssumption, IntervalAssumption DEF IInv, TypeOK, AgeBySize, AgeBound
<1>1. CASE size = 0
  BY <1>1, OneMoreInterval
<1>2. CASE size # 0
  <2>1. /\ (size - 1) * FlushInterval \in Nat
        /\ size * FlushInterval = (size - 1) * FlushInterval + FlushInterval
    BY <1>2, OneMoreInterval
  <2>2. size * FlushInterval <= (BatchSize - 1) * FlushInterval
    BY ProductMonotonic
  <2>3. (BatchSize - 1) * FlushInterval \in Nat
    BY OneMoreInterval
  <2> QED
    BY <1>2, <2>1, <2>2, <2>3
<1> QED
  BY <1>1, <1>2

(* The first record of a batch has waited at most one interval for each    *)
(* record that came after it, and the present wait (query_log.py:189-199). *)
THEOREM AgePerRecord == Spec => []AgeBySize
<1>1. Init => IInv
  BY SizeAssumption, IntervalAssumption DEF Init, IInv, TypeOK, AgeBySize
<1>2. IInv => AgeBySize
  BY DEF IInv
<1> QED
  BY <1>1, <1>2, AgeBySizeInductive, PTL DEF Spec

(* No record waits longer for its flush than one interval for each further *)
(* record of a full batch (query_log.py:189-199).                          *)
THEOREM AgeIsBounded == Spec => []AgeBound
<1>1. Init => IInv
  BY SizeAssumption, IntervalAssumption DEF Init, IInv, TypeOK, AgeBySize
<1> QED
  BY <1>1, AgeBySizeInductive, AgeBoundFollows, PTL DEF Spec

==============================================================================
