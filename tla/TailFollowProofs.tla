--------------------------- MODULE TailFollowProofs ---------------------------
(***************************************************************************)
(* What `sentinel-dns tail` prints, for every file that grows as module    *)
(* DurableTable promises, every filter and every --count.                  *)
(***************************************************************************)
EXTENDS LogAndTail, SequenceFacts

(* What tail has shown of the rows that were there at its first query.     *)
Old == {r \in Shown : r.id <= first}

(* They are at most as many as asked for, and one at least if the filters  *)
(* select any, so that no poll starts below them.                          *)
StartInv ==
    count > 0 =>
        /\ IsFiniteSet(Old) /\ Cardinality(Old) <= count
        /\ tail \notin {"start", "interrupted"} =>
              \A r \in Selected : r.id <= first => Old # {}

(* The inductive invariant: the properties and what they rest on.          *)
IInv == TypeOK /\ IdsAhead /\ PrintedInOrder /\ NothingSkipped /\ StartInv

(* A row that is not older than one of the latest n is one of them.        *)
LEMMA LatestIsUpward ==
    ASSUME NEW rows \in SUBSET Rows, IsFiniteSet(rows), NEW n \in Int,
           NEW s \in Latest(rows, n), NEW r \in rows, s.id <= r.id
    PROVE  r \in Latest(rows, n)
<1> DEFINE After(x) == {y \in rows : y.id > x.id}
<1>1. After(r) \subseteq After(s)
  <2>1. \A y \in rows : y.id \in Nat
    BY DEF Rows
  <2>2. s \in rows
    BY DEF Latest
  <2> QED
    BY <2>1, <2>2
<1>2. IsFiniteSet(After(s)) /\ IsFiniteSet(After(r))
  BY FS_Subset
<1>3. Cardinality(After(r)) <= Cardinality(After(s))
  BY <1>1, <1>2, FS_Subset
<1>4. Cardinality(After(r)) \in Nat /\ Cardinality(After(s)) \in Nat
  BY <1>2, FS_CardinalityType
<1>5. n < 0 \/ Cardinality(After(s)) < n
  BY DEF Latest
<1>6. n < 0 \/ Cardinality(After(r)) < n
  BY <1>3, <1>4, <1>5
<1> QED
  BY <1>6 DEF Latest

(* Of n or more rows n are the latest, of fewer all, and of any at least   *)
(* one is: the number of rows above each is another one for every row, and *)
(* one of the rows has none above it.                                      *)
LEMMA LatestCounts ==
    ASSUME NEW rows \in SUBSET Rows, IsFiniteSet(rows),
           \A r, s \in rows : r.id = s.id => r = s,
           NEW n \in Nat \ {0}
    PROVE  /\ IsFiniteSet(Latest(rows, n)) /\ Cardinality(Latest(rows, n)) <= n
           /\ rows # {} => Latest(rows, n) # {}
<1> DEFINE After(x) == {y \in rows : y.id > x.id}
           above(x) == Cardinality(After(x))
           all      == Cardinality(rows)
           f        == [x \in rows |-> above(x) + 1]
           latest   == Latest(rows, n)
           g        == [x \in latest |-> above(x) + 1]
<1>1. \A x \in rows : x.id \in Nat
  BY DEF Rows
<1>2. all \in Nat
  BY FS_CardinalityType
<1>3. \A x : IsFiniteSet(After(x)) /\ above(x) \in Nat
  <2> TAKE x
  <2>1. IsFiniteSet(After(x))
    BY FS_Subset
  <2> QED
    BY <2>1, FS_CardinalityType
<1>4. ASSUME NEW x \in rows PROVE above(x) < all
  <2>1. After(x) \subseteq rows /\ x \notin After(x)
    BY <1>1
  <2>2. above(x) <= all /\ (all = above(x) => rows = After(x))
    BY <2>1, FS_Subset
  <2> HIDE DEF After
  <2>3. above(x) \in Nat /\ all # above(x)
    BY <1>3, <2>1, <2>2
  <2> HIDE DEF above, all
  <2> QED
    BY <1>2, <2>2, <2>3
<1>5. ASSUME NEW x \in rows, NEW y \in rows, x.id < y.id
      PROVE  above(y) < above(x)
  <2>1. After(y) \subseteq After(x) /\ y \in After(x) /\ y \notin After(y)
    BY <1>1, <1>5
  <2>2. IsFiniteSet(After(x)) /\ IsFiniteSet(After(y))
    BY <1>3
  <2> HIDE DEF After
  <2>3. above(y) <= above(x) /\ (above(x) = above(y) => After(x) = After(y))
    BY <2>1, <2>2, FS_Subset
  <2>4. above(x) # above(y) /\ above(x) \in Nat /\ above(y) \in Nat
    BY <1>3, <2>1, <2>3
  <2> HIDE DEF above
  <2> QED
    BY <2>3, <2>4
<1>6. ASSUME NEW x \in rows, NEW y \in rows, x # y
      PROVE  above(x) + 1 # above(y) + 1
  <2>1. x.id < y.id \/ y.id < x.id
    BY <1>1, <1>6
  <2>2. above(x) < above(y) \/ above(y) < above(x)
    BY <1>5, <2>1
  <2>3. above(x) \in Nat /\ above(y) \in Nat
    BY <1>3
  <2> HIDE DEF above
  <2> QED
    BY <2>2, <2>3
<1>7. latest \subseteq rows /\ \A x \in rows : x \in latest <=> above(x) < n
  BY DEF Latest
<1> HIDE DEF After, above, latest
<1>8. IsFiniteSet(latest) /\ Cardinality(latest) <= n
  <2>1. \A x \in latest : above(x) + 1 \in 1..n
    BY <1>3, <1>7
  <2>2. g \in Injection(latest, 1..n)
    BY <1>6, <1>7, <2>1 DEF Injection, IsInjective
  <2>3. IsFiniteSet(1..n) /\ Cardinality(1..n) = n
    BY FS_Interval
  <2> QED
    BY <2>2, <2>3, FS_Injection
<1>9. ASSUME rows # {} PROVE latest # {}
  <2>1. all # 0
    BY <1>9, FS_EmptySet
  <2>2. IsFiniteSet(1..all) /\ Cardinality(1..all) = all
    BY <1>2, <2>1, FS_Interval
  <2>3. \A x \in rows : above(x) + 1 \in 1..all
    BY <1>2, <1>3, <1>4
  <2>4. f \in Injection(rows, 1..all)
    BY <1>6, <2>3 DEF Injection, IsInjective
  <2>5. f \in Surjection(rows, 1..all)
    BY <2>2, <2>4, FS_Injection
  <2>6. 1 \in 1..all
    BY <1>2, <2>1
  <2>7. PICK x \in rows : f[x] = 1
    BY <2>5, <2>6 DEF Surjection
  <2>8. above(x) = 0
    BY <1>3, <2>7
  <2> QED
    BY <1>7, <2>8
<1> QED
  BY <1>8, <1>9 DEF latest

(* What does not touch the rows shown keeps StartInv.                      *)
LEMMA StartKept ==
    ASSUME StartInv, Shown' = Shown, UNCHANGED <<count, first>>,
           tail' \notin {"start", "interrupted"} => tail \notin {"start", "interrupted"},
           \A r \in Selected' : r.id <= first => r \in Selected
    PROVE  StartInv'
<1>1. Old' = Old
  BY DEF Old
<1> QED
  BY <1>1 DEF StartInv

(* The invariant holds when tail starts (tail_cmd.py:140-149).             *)
LEMMA InvInit == Init => IInv
<1> SUFFICES ASSUME Init PROVE IInv
  OBVIOUS
<1>1. table = [rows |-> {}, seq |-> 0] /\ printed = << >>
  BY DEF Init, TailInit, Durable!Init
<1>2. IsFiniteSet(table.rows)
  BY <1>1, FS_EmptySet
<1>3. DOMAIN printed = {} /\ ToSet(printed) = {} /\ printed \in Seq(Rows)
  BY <1>1 DEF ToSet
<1>4. StartInv
  <2>1. Old = {} /\ tail = "start" /\ count \in Int
    BY <1>1, <1>3, ArgsAssumption DEF Init, TailInit, Old, Shown
  <2> QED
    BY <2>1, FS_EmptySet DEF StartInv
<1> QED
  BY <1>1, <1>2, <1>3, <1>4
  DEF Init, TailInit, IInv, TypeOK, IdsAhead, PrintedInOrder, NothingSkipped, Shown, Selected, Rows

(* A commit may come at any moment: a new row has an id above the fence,   *)
(* so nothing shown or passed over changes.                                *)
LEMMA InvPublish ==
    ASSUME IInv, UNCHANGED tailVars, Durable!Publish,
           table' \in [rows : SUBSET Rows, seq : Nat], IsFiniteSet(table'.rows)
    PROVE  IInv'
<1> USE DEF IInv, TypeOK, tailVars
<1>1. table'.seq >= table.seq
  BY DEF Durable!Publish
<1>2. \A r \in table'.rows :
         r \notin table.rows => r.id \in (table.seq + 1)..table'.seq
  BY DEF Durable!Publish, Durable!Appended
<1>3. \A r, s \in table'.rows :
         r \notin table.rows /\ s \notin table.rows /\ r.id = s.id => r = s
  BY DEF Durable!Publish, Durable!Appended
<1>4. TypeOK'
  BY <1>1
<1>5. \A r \in table'.rows : r.id \in 1..table'.seq
  BY <1>1, <1>2 DEF IdsAhead
<1>6. \A r, s \in table'.rows : r.id = s.id => r = s
  <2> SUFFICES ASSUME NEW r \in table'.rows, NEW s \in table'.rows, r.id = s.id
               PROVE  r = s
    OBVIOUS
  <2>1. CASE r \in table.rows /\ s \in table.rows
    BY <2>1 DEF IdsAhead
  <2>2. CASE r \notin table.rows /\ s \notin table.rows
    BY <2>2, <1>3
  <2>3. CASE r \in table.rows /\ s \notin table.rows
    <3>1. r.id <= table.seq /\ r.id \in Int
      BY <2>3 DEF IdsAhead
    <3>2. s.id >= table.seq + 1
      BY <2>3, <1>2
    <3> QED
      BY <3>1, <3>2
  <2>4. CASE r \notin table.rows /\ s \in table.rows
    <3>1. s.id <= table.seq /\ s.id \in Int
      BY <2>4 DEF IdsAhead
    <3>2. r.id >= table.seq + 1
      BY <2>4, <1>2
    <3> QED
      BY <3>1, <3>2
  <2> QED
    BY <2>1, <2>2, <2>3, <2>4
<1>7. IdsAhead'
  BY <1>5, <1>6 DEF IdsAhead
<1>8. PrintedInOrder'
  BY DEF PrintedInOrder
<1>9. NothingSkipped'
  <2> SUFFICES ASSUME tail # "interrupted",
                      NEW r \in Selected', NEW s \in Shown,
                      s.id <= r.id, r.id <= fence
               PROVE  r \in Shown
    BY DEF NothingSkipped, Shown
  <2>1. r \in table'.rows /\ r.rec \in Matching
    BY DEF Selected
  <2>2. r \in table.rows
    <3>1. r.id \in Nat /\ fence \in Nat /\ fence <= table.seq
      BY <2>1 DEF Rows
    <3> QED
      BY <2>1, <3>1, <1>2
  <2> QED
    BY <2>1, <2>2 DEF NothingSkipped, Selected
<1>10. StartInv'
  <2>1. \A r \in Selected' : r.id <= first => r \in Selected
    <3> SUFFICES ASSUME NEW r \in Selected', r.id <= first PROVE r \in Selected
      OBVIOUS
    <3>1. r \in table'.rows /\ r.rec \in Matching /\ r.id \in Nat
      BY DEF Selected, Rows
    <3>2. first \in Nat /\ fence \in Nat /\ first <= table.seq /\ table.seq \in Nat
      OBVIOUS
    <3>3. r \in table.rows
      BY <3>1, <3>2, <1>2
    <3> QED
      BY <3>1, <3>3 DEF Selected
  <2>2. Shown' = Shown
    BY DEF Shown
  <2> QED
    BY <2>1, <2>2, StartKept
<1> QED
  BY <1>4, <1>7, <1>8, <1>9, <1>10

(* Nothing changes but the retention limit.                                *)
LEMMA InvSame == IInv /\ UNCHANGED <<table, tailVars>> => IInv'
<1> SUFFICES ASSUME IInv, UNCHANGED <<table, tailVars>> PROVE IInv'
  OBVIOUS
<1>1. Shown' = Shown /\ Selected' = Selected
  BY DEF tailVars, Shown, Selected
<1>2. StartInv'
  BY <1>1, StartKept DEF tailVars, IInv
<1> QED
  BY <1>1, <1>2 DEF tailVars, IInv, TypeOK, IdsAhead, PrintedInOrder, NothingSkipped

(* The first query shows the latest rows, so that all rows above one shown *)
(* are shown too (tail_cmd.py:143-149).                                    *)
LEMMA InvInitialQuery == IInv /\ InitialQuery => IInv'
<1> SUFFICES ASSUME IInv, InitialQuery PROVE IInv'
  OBVIOUS
<1> USE DEF IInv, TypeOK, InitialQuery
<1>1. Selected \in SUBSET Rows /\ IsFiniteSet(Selected) /\ Selected \subseteq table.rows
  BY FS_Subset DEF Selected
<1>2. fetched' \subseteq Selected
  BY DEF Latest
<1>3. TypeOK'
  BY <1>1, <1>2
<1>4. IdsAhead'
  BY <1>1, <1>2 DEF IdsAhead
<1>5. PrintedInOrder'
  BY DEF PrintedInOrder
<1>6. Shown' = Latest(Selected, count) /\ count \in Int
  BY ArgsAssumption DEF Shown, ToSet, IdsAhead
<1>7. NothingSkipped'
  BY <1>1, <1>6, LatestIsUpward DEF NothingSkipped, Selected
<1>8. StartInv'
  <2> SUFFICES ASSUME count > 0
               PROVE  /\ IsFiniteSet(Old') /\ Cardinality(Old') <= count
                      /\ \A r \in Selected' : Old' # {}
    BY DEF StartInv
  <2>1. Selected' = Selected
    BY DEF Selected
  <2>2. /\ count \in Nat \ {0}
        /\ \A r, s \in Selected : r.id = s.id => r = s
    BY <1>1, <1>6 DEF IdsAhead
  <2>3. /\ IsFiniteSet(Latest(Selected, count)) /\ Cardinality(Latest(Selected, count)) <= count
        /\ Selected # {} => Latest(Selected, count) # {}
    BY <1>1, <2>2, LatestCounts
  <2>4. Old' = Latest(Selected, count)
    <3>1. \A r \in Latest(Selected, count) : r.id <= table.seq
      BY <1>1 DEF Latest, IdsAhead
    <3> QED
      BY <1>6, <3>1 DEF Old
  <2> QED
    BY <2>1, <2>3, <2>4
<1> QED
  BY <1>3, <1>4, <1>5, <1>7, <1>8

(* Printing the rows in the order of their ids keeps those still to come   *)
(* above those printed (tail_cmd.py:150-168).                              *)
LEMMA InvPrintRow == IInv /\ PrintRow => IInv'
<1> SUFFICES ASSUME IInv, PrintRow PROVE IInv'
  OBVIOUS
<1> USE DEF IInv, TypeOK
<1>1. PICK r \in fetched : /\ \A s \in fetched : r.id <= s.id
                           /\ printed' = Append(printed, r)
                           /\ fetched' = fetched \ {r}
                           /\ lastId' = IF tail = "initial" /\ r.id < lastId THEN lastId ELSE r.id
  BY DEF PrintRow
<1>2. UNCHANGED <<table, limit, count, tail, first, fence>> /\ tail \in {"initial", "follow"}
  BY DEF PrintRow
<1>3. r \in Rows /\ r.id \in Nat /\ lastId < r.id /\ r.id <= fence
  BY <1>1 DEF IdsAhead, Rows
<1>4. lastId' = r.id
  BY <1>1, <1>3
<1>5. Len(printed) \in Nat /\ DOMAIN printed = 1..Len(printed)
  BY LenProperties
<1>6. /\ printed' \in Seq(Rows)
      /\ DOMAIN printed' = 1..(Len(printed) + 1)
      /\ \A i \in 1..Len(printed) : printed'[i] = printed[i]
      /\ printed'[Len(printed) + 1] = r
  BY <1>1, <1>3, <1>5, AppendProperties, LenProperties
<1>7. TypeOK'
  BY <1>1, <1>2, <1>3, <1>4, <1>6
<1>8. \A i \in DOMAIN printed : printed[i].id \in Nat /\ printed[i].id <= lastId
  <2>1. \A i \in DOMAIN printed : printed[i] \in Rows
    BY <1>5, ElementOfSeq
  <2>2. \A x \in Rows : x.id \in Nat
    BY DEF Rows
  <2> QED
    BY <2>1, <2>2 DEF IdsAhead
<1>9. \A i \in DOMAIN printed' : printed'[i].id <= lastId'
  BY <1>3, <1>4, <1>5, <1>6, <1>8
<1>10. \A s \in fetched' : lastId' < s.id /\ s.id <= fence
  BY <1>1, <1>3, <1>4 DEF IdsAhead, Rows
<1>11. IdsAhead'
  BY <1>1, <1>2, <1>3, <1>4, <1>9, <1>10 DEF IdsAhead
<1>12. PrintedInOrder'
  BY <1>3, <1>5, <1>6, <1>8 DEF PrintedInOrder
<1>13. Shown' = Shown
  BY <1>1, <1>3, AppendedSet DEF Shown
<1>14. NothingSkipped'
  BY <1>2, <1>13 DEF NothingSkipped, Selected
<1>15. StartInv'
  BY <1>2, <1>13, StartKept DEF Selected
<1> QED
  BY <1>7, <1>11, <1>12, <1>14, <1>15

(* A poll finds exactly the selected rows that came after the previous     *)
(* query (tail_cmd.py:162-165).                                            *)
LEMMA InvPoll == IInv /\ Poll => IInv'
<1> SUFFICES ASSUME IInv, Poll PROVE IInv'
  OBVIOUS
<1> USE DEF IInv, TypeOK, Poll
<1>1. fetched' \subseteq table.rows /\ \A r \in table.rows : r.id \in Nat
  BY DEF Selected, Rows
<1>2. TypeOK'
  BY <1>1
<1>3. IdsAhead'
  BY <1>1 DEF IdsAhead
<1>4. PrintedInOrder'
  BY DEF PrintedInOrder
<1>5. NothingSkipped'
  <2> SUFFICES ASSUME NEW r \in Selected, NEW s \in Shown', s.id <= r.id, r \notin fetched'
               PROVE  r \in ToSet(printed)
    BY DEF NothingSkipped, Shown, Selected
  <2>1. r.id \in Nat /\ r.id <= lastId /\ r.id <= fence
    BY <1>1 DEF IdsAhead, Selected
  <2>2. s \in ToSet(printed)
    BY <1>1, <2>1 DEF Shown
  <2> QED
    BY <2>1, <2>2 DEF NothingSkipped, Shown
<1>6. StartInv'
  <2> SUFFICES ASSUME count > 0
               PROVE  /\ Old' = Old
                      /\ \A r \in Selected' : r.id <= first => Old # {}
    BY DEF StartInv
  <2>1. Selected' = Selected /\ first <= fence /\ first \in Nat /\ fence \in Nat
    BY DEF Selected
  <2>2. \A r \in Selected : r.id <= first => Old # {}
    BY DEF StartInv
  <2>3. ASSUME NEW r \in fetched', r.id <= first PROVE r \in ToSet(printed)
    <3>1. r \in Selected /\ r.id \in Nat /\ lastId < r.id /\ r.id <= fence
      BY <1>1, <2>1, <2>3 DEF Selected
    <3>2. PICK s \in Shown : s.id <= first
      BY <2>2, <2>3, <3>1 DEF Old
    <3>3. s \in ToSet(printed) /\ s.id <= lastId /\ s.id \in Nat
      <4>1. s \in ToSet(printed)
        BY <3>2 DEF Shown
      <4>2. PICK i \in DOMAIN printed : printed[i] = s
        BY <4>1 DEF ToSet
      <4>3. s \in Rows
        BY <4>2, ElementOfSeq, LenProperties
      <4> QED
        BY <4>1, <4>2, <4>3 DEF IdsAhead, Rows
    <3>4. s.id <= r.id
      BY <3>1, <3>3
    <3> QED
      BY <3>1, <3>3, <3>4 DEF NothingSkipped, Shown
  <2>4. Old' = Old
    BY <2>3 DEF Old, Shown
  <2> QED
    BY <2>1, <2>2, <2>4
<1> QED
  BY <1>2, <1>3, <1>4, <1>5, <1>6

(* Every step of tail keeps the invariant.                                 *)
LEMMA InvTailStep == IInv /\ TailStep => IInv'
<1> SUFFICES ASSUME IInv, TailStep PROVE IInv'
  OBVIOUS
<1>1. CASE InitialDone
  <2>1. StartInv'
    BY <1>1, StartKept DEF IInv, InitialDone, Shown, Selected
  <2> QED
    BY <1>1, <2>1, ArgsAssumption
    DEF IInv, TypeOK, InitialDone, IdsAhead, PrintedInOrder, NothingSkipped, Shown, Selected
<1>2. CASE Interrupt
  <2>1. StartInv'
    <3> SUFFICES ASSUME count > 0 PROVE IsFiniteSet(Old') /\ Cardinality(Old') <= count
      BY <1>2 DEF StartInv, Interrupt
    <3>1. Old' \subseteq Old
      BY <1>2 DEF Interrupt, Old, Shown
    <3>2. IsFiniteSet(Old) /\ Cardinality(Old) <= count
      BY DEF IInv, StartInv
    <3>3. IsFiniteSet(Old') /\ Cardinality(Old') <= Cardinality(Old)
      BY <3>1, <3>2, FS_Subset
    <3>4. Cardinality(Old') \in Nat /\ Cardinality(Old) \in Nat /\ count \in Int
      BY <3>2, <3>3, FS_CardinalityType, ArgsAssumption DEF IInv, TypeOK
    <3> QED
      BY <3>2, <3>3, <3>4
  <2> QED
    BY <1>2, <2>1
    DEF IInv, TypeOK, Interrupt, IdsAhead, PrintedInOrder, NothingSkipped, Shown, Selected
<1> QED
  BY <1>1, <1>2, InvInitialQuery, InvPrintRow, InvPoll DEF TailStep

(* Every step of tail and of its file keeps the invariant.                 *)
LEMMA InvNext == IInv /\ [Next]_vars => IInv'
<1> SUFFICES ASSUME IInv, [Next]_vars PROVE IInv'
  OBVIOUS
<1>1. CASE TableStep
  <2>1. CASE table' \in Tables /\ Durable!Publish
    <3>1. table' \in [rows : SUBSET Rows, seq : Nat] /\ IsFiniteSet(table'.rows)
      BY <2>1, TablesAssumption
    <3>2. UNCHANGED tailVars
      BY <1>1 DEF TableStep
    <3> QED
      BY <2>1, <3>1, <3>2, InvPublish
  <2>2. CASE Durable!Age
    BY <1>1, <2>2, InvSame DEF TableStep, Durable!Age
  <2> QED
    BY <1>1, <2>1, <2>2 DEF TableStep
<1>2. CASE UNCHANGED vars
  BY <1>2, InvSame DEF vars
<1> QED
  BY <1>1, <1>2, InvTailStep DEF Next

(* The state of tail keeps its types on every such file.                   *)
THEOREM TypeCorrect == Spec => []TypeOK
<1>1. IInv => TypeOK
  BY DEF IInv
<1> QED
  BY InvInit, InvNext, <1>1, PTL DEF Spec

(* What tail has still to print is above all it has printed, and nothing   *)
(* of either is above the ids its latest query could see                   *)
(* (tail_cmd.py:143-168).                                                  *)
THEOREM TailIdsAhead == Spec => []IdsAhead
<1>1. IInv => IdsAhead
  BY DEF IInv
<1> QED
  BY InvInit, InvNext, <1>1, PTL DEF Spec

(* tail never prints a row twice, nor after a later one.                   *)
THEOREM TailPrintsInOrder == Spec => []PrintedInOrder
<1>1. IInv => PrintedInOrder
  BY DEF IInv
<1> QED
  BY InvInit, InvNext, <1>1, PTL DEF Spec

(* tail never passes over a row that its filters select.                   *)
THEOREM TailSkipsNothing == Spec => []NothingSkipped
<1>1. IInv => NothingSkipped
  BY DEF IInv
<1> QED
  BY InvInit, InvNext, <1>1, PTL DEF Spec

(* tail never shows more of the rows that were there at its first query    *)
(* than it was asked for, unless it was asked for none.                    *)
THEOREM TailKeepsToCount == Spec => []NoMoreThanAsked
<1>1. IInv => NoMoreThanAsked
  BY DEF IInv, StartInv, NoMoreThanAsked, Old
<1> QED
  BY InvInit, InvNext, <1>1, PTL DEF Spec

------------------------------------------------------------------------------
(* The file that the forwarder writes.                                     *)

(* The forwarder commits tables of the type that tail reads.               *)
LEMMA LogTableType ==
    ASSUME LogAssumptions, NEW t \in Log!Tables
    PROVE  t \in [rows : SUBSET Rows, seq : Nat] /\ IsFiniteSet(t.rows)
<1>1. Log!Records \subseteq Nat
  BY DEF LogAssumptions, Log!Records
<1>2. [id : Nat, rec : Log!Records] \subseteq Rows
  BY <1>1 DEF Rows
<1>3. t \in [rows : SUBSET [id : Nat, rec : Log!Records], seq : Nat] /\ Log!IsFiniteSet(t.rows)
  BY DEF Log!Tables
<1>4. IsFiniteSet(t.rows)
  BY <1>3 DEF IsFiniteSet, Log!IsFiniteSet
<1> QED
  BY <1>2, <1>3, <1>4

(* When the two processes start, the invariant holds.                      *)
LEMMA SystemInit == Log!Init /\ TailInit => IInv
<1> SUFFICES ASSUME Log!Init, TailInit PROVE Init
  BY InvInit
<1> QED
  BY DEF Log!Init, Log!EmptyTable, Init, Durable!Init

(* A step of either process, or of both at once, keeps the invariant, if   *)
(* the forwarder keeps the promise of DurableTable.                        *)
LEMMA SystemStep ==
    ASSUME LogAssumptions, IInv, Log!TypeOK',
           [Log!Durable!Next]_(Log!Durable!vars), [TailStep]_tailVars
    PROVE  IInv'
<1>1. CASE TailStep
  BY <1>1, InvTailStep
<1>2. CASE UNCHANGED tailVars
  <2>1. [Durable!Next]_<<table, limit>>
    BY DEF Log!Durable!Next, Log!Durable!vars, Log!Durable!Publish, Log!Durable!Age,
           Log!Durable!Appended, Log!Durable!Expired,
           Durable!Next, Durable!Publish, Durable!Age, Durable!Appended, Durable!Expired
  <2>2. table' \in [rows : SUBSET Rows, seq : Nat] /\ IsFiniteSet(table'.rows)
    <3>1. table' \in Log!Tables
      BY DEF Log!TypeOK
    <3> QED
      BY <3>1, LogTableType
  <2>3. CASE Durable!Publish
    BY <1>2, <2>2, <2>3, InvPublish
  <2>4. CASE UNCHANGED table
    BY <1>2, <2>4, InvSame
  <2> QED
    BY <2>1, <2>3, <2>4 DEF Durable!Next, Durable!Age
<1> QED
  BY <1>1, <1>2

(* The invariant of tail holds on the file of the forwarder.               *)
LEMMA SystemInv == ASSUME LogAssumptions PROVE System => []IInv
<1>1. Log!Spec => []Log!TypeOK
  BY Log!TypeCorrect DEF LogAssumptions
<1>2. Log!Spec => Log!ImplementsDurableTable
  BY Log!FileIsDurable DEF LogAssumptions
<1>3. Log!ImplementsDurableTable => [][Log!Durable!Next]_(Log!Durable!vars)
  BY PTL DEF Log!ImplementsDurableTable, Log!Durable!Spec
<1>4. Log!Spec => Log!Init
  BY PTL DEF Log!Spec
<1>5. /\ IInv /\ Log!TypeOK'
      /\ [Log!Durable!Next]_(Log!Durable!vars) /\ [TailStep]_tailVars
      => IInv'
  BY SystemStep
<1> QED
  BY <1>1, <1>2, <1>3, <1>4, <1>5, SystemInit, PTL DEF System, TailSpec

(* On the file that the forwarder writes, whatever becomes of its flushes, *)
(* its purges, its shutdown and itself, tail prints no row twice, none     *)
(* after a later one, passes over none that its filters select and goes    *)
(* back no further than asked                                              *)
(* (query_log.py:143-237; tail_cmd.py:140-168).                            *)
THEOREM TailIsRightOnTheLog ==
    ASSUME LogAssumptions
    PROVE  System => [](PrintedInOrder /\ NothingSkipped /\ NoMoreThanAsked)
<1>1. IInv => PrintedInOrder /\ NothingSkipped /\ NoMoreThanAsked
  BY DEF IInv, StartInv, NoMoreThanAsked, Old
<1> QED
  BY <1>1, SystemInv, PTL

------------------------------------------------------------------------------
(* The order of what tail prints of it.                                    *)

(* All rows that tail has printed, will print or could fetch now.          *)
Seen == Shown \cup table.rows

(* The rows of this process that tail has seen are in the order of their   *)
(* arrival, and before all that is still on its way to the file.           *)
SeenInv ==
    /\ \A p \in Seen : p.rec <= arrived
    /\ serve = "up" =>
          \A p \in Seen : p.rec > base =>
              /\ \A q \in Seen \cup view.rows : p.id < q.id => p.rec < q.rec
              /\ \A n \in Log!Ahead : p.rec < n

(* tail sees no row that is not in the file, nor one above its last id.    *)
LEMMA SeenGrows ==
    ASSUME IInv, [TailStep]_tailVars
    PROVE  /\ Seen' \subseteq Seen \cup table'.rows
           /\ \A p \in Seen : p \in Rows /\ p.id <= table.seq
<1> USE DEF IInv, TypeOK
<1>1. Shown' \subseteq Seen
  <2>1. CASE InitialQuery \/ Poll
    <3>1. fetched' \subseteq table.rows /\ printed' = printed
      BY <2>1 DEF InitialQuery, Poll, Latest, Selected
    <3> QED
      BY <3>1 DEF Shown, Seen
  <2>2. CASE PrintRow
    <3>1. PICK r \in fetched : printed' = Append(printed, r) /\ fetched' = fetched \ {r}
      BY <2>2 DEF PrintRow
    <3>2. ToSet(printed') = ToSet(printed) \cup {r}
      BY <3>1, AppendedSet
    <3> QED
      BY <3>1, <3>2 DEF Shown, Seen
  <2>3. CASE InitialDone \/ Interrupt \/ UNCHANGED tailVars
    <3>1. fetched' \subseteq fetched /\ printed' = printed
      BY <2>3 DEF InitialDone, Interrupt, tailVars
    <3> QED
      BY <3>1 DEF Shown, Seen
  <2> QED
    BY <2>1, <2>2, <2>3 DEF TailStep
<1>2. \A p \in ToSet(printed) : p \in Rows /\ p.id <= lastId
  <2>1. \A i \in DOMAIN printed : printed[i] \in Rows
    BY ElementOfSeq, LenProperties
  <2> QED
    BY <2>1 DEF ToSet, IdsAhead
<1>3. \A p \in Rows : p.id \in Nat
  BY DEF Rows
<1>4. lastId <= fence /\ fence <= table.seq /\ fence \in Nat /\ table.seq \in Nat
  BY DEF IdsAhead
<1>5. \A p \in fetched \cup table.rows : p \in Rows /\ p.id <= table.seq
  BY <1>3, <1>4 DEF IdsAhead
<1> QED
  BY <1>1, <1>2, <1>3, <1>4, <1>5 DEF Seen, Shown

(* When the two processes start, tail has seen nothing.                    *)
LEMMA SeenInit == Log!Init /\ TailInit => SeenInv
<1> SUFFICES ASSUME Log!Init, TailInit PROVE SeenInv
  OBVIOUS
<1>1. Seen = {}
  BY DEF Log!Init, Log!EmptyTable, TailInit, Seen, Shown, ToSet
<1> QED
  BY <1>1 DEF SeenInv

(* A row that tail has not seen yet comes by a commit, hence under an id   *)
(* above all that tail has seen, and from the rows in the table or from    *)
(* what was on its way; at a start all that tail has seen is of an earlier *)
(* process.                                                                *)
LEMMA SeenStep ==
    ASSUME LogAssumptions, IInv, SeenInv,
           Log!TypeOK, Log!UseInv, Log!ArrivedInv, Log!OrderInv,
           Log!ArrivedInv', Log!OrderInv', Log!TypeOK',
           [Log!Next]_(Log!vars), [Log!Durable!Next]_(Log!Durable!vars),
           [TailStep]_tailVars
    PROVE  SeenInv'
<1>1. /\ Seen' \subseteq Seen \cup table'.rows
      /\ \A p \in Seen : p \in Rows /\ p.id <= table.seq
  BY SeenGrows
<1>2. \A p \in table'.rows : p \in Rows
  <2>1. table' \in Log!Tables
    BY DEF Log!TypeOK
  <2> QED
    BY <2>1, LogTableType
<1>3. \A p \in Seen \cup table'.rows : p.rec \in Nat /\ p.id \in Nat
  BY <1>1, <1>2 DEF Rows
<1>4. arrived' >= arrived /\ arrived \in Nat /\ arrived' \in Nat
  <2>1. arrived' >= arrived
    BY Log!ArrivedGrows DEF LogAssumptions
  <2> QED
    BY <2>1 DEF Log!TypeOK, LogAssumptions
<1>5. \A p \in Seen' : p.rec <= arrived'
  <2>1. \A p \in table'.rows : p.rec <= arrived'
    BY DEF Log!ArrivedInv
  <2>2. \A p \in Seen : p.rec <= arrived'
    BY <1>3, <1>4 DEF SeenInv
  <2> QED
    BY <1>1, <2>1, <2>2
<1>6. \A p \in table'.rows \ Seen, q \in Seen : q.id < p.id
  <2>1. table.seq \in Nat /\ table'.seq \in Nat
    BY DEF IInv, TypeOK, Log!TypeOK, Log!Tables
  <2>2. \A p \in table'.rows \ table.rows : p.id \in (table.seq + 1)..table'.seq
    BY DEF Log!Durable!Next, Log!Durable!vars, Log!Durable!Publish, Log!Durable!Age,
           Log!Durable!Appended
  <2>3. \A p \in table'.rows \ table.rows : p.id > table.seq
    BY <2>1, <2>2
  <2> QED
    BY <1>1, <1>3, <2>1, <2>3 DEF Seen
<1>7. ASSUME serve' = "up", NEW p \in Seen', p.rec > base'
      PROVE  /\ \A q \in Seen' \cup view'.rows : p.id < q.id => p.rec < q.rec
             /\ \A n \in Log!Ahead' : p.rec < n
  <2>1. CASE Log!Start
    <3>1. base' = arrived /\ table' = table
      BY <2>1 DEF Log!Start
    <3>2. p \in Seen
      BY <1>1, <3>1 DEF Seen
    <3> QED
      BY <1>3, <1>4, <1>7, <3>1, <3>2 DEF SeenInv
  <2>2. CASE ~Log!Start
    <3>1. /\ serve = "up" /\ base' = base
          /\ Log!Ahead' \subseteq Log!Ahead \cup {arrived + 1}
          /\ \A r \in view'.rows \cup table'.rows :
                r \in view.rows \cup table.rows \/ r.rec \in Log!Ahead
          /\ table' \in {table, view'}
      <4>1. CASE UNCHANGED Log!vars
        <5>1. UNCHANGED <<serve, base, queue, job, todo, batch, view, table>>
          BY <4>1 DEF Log!vars, Log!procVars, Log!arrivals, Log!writerVars, Log!sqlVars
        <5>2. Log!Ahead' = Log!Ahead
          BY <5>1 DEF Log!Ahead
        <5> QED
          BY <1>7, <5>1, <5>2
      <4>2. CASE Log!Next
        BY <1>7, <2>2, <4>2, Log!LogGrows DEF LogAssumptions
      <4> QED
        BY <4>1, <4>2
    <3>2. \A q \in Seen' \cup view'.rows : q \in Seen \cup view.rows \/ q.rec \in Log!Ahead
      BY <1>1, <3>1 DEF Seen
    <3>3. CASE p \in Seen
      BY <1>3, <1>4, <1>7, <3>1, <3>2, <3>3 DEF SeenInv
    <3>4. CASE p \notin Seen
      <4>1. p \in table'.rows /\ table' = view'
        BY <1>1, <3>1, <3>4 DEF Seen
      <4>2. /\ \A q \in view'.rows : p.id < q.id => p.rec < q.rec
            /\ \A n \in Log!Ahead' : p.rec < n
        BY <1>7, <4>1 DEF Log!OrderInv, Log!InOrder
      <4>3. \A q \in Seen : q.id < p.id
        BY <1>6, <3>4, <4>1
      <4>4. \A q \in Seen' \cup view'.rows : q \in view'.rows \/ q \in Seen
        BY <1>1, <4>1
      <4>5. ASSUME NEW q \in Seen' \cup view'.rows, p.id < q.id PROVE q \in view'.rows
        <5>1. p.id \in Nat
          BY <1>3, <4>1
        <5> QED
          BY <1>3, <4>3, <4>4, <4>5, <5>1
      <4> QED
        BY <4>2, <4>5
    <3> QED
      BY <3>3, <3>4
  <2> QED
    BY <2>1, <2>2
<1> QED
  BY <1>5, <1>7 DEF SeenInv

(* What tail prints of a process in use is in the order of arrival.        *)
THEOREM TailPrintsAsArrived ==
    ASSUME LogAssumptions
    PROVE  System => []PrintedAsArrived
<1>1. Log!Spec => [](Log!TypeOK /\ Log!UseInv /\ Log!ArrivedInv /\ Log!QueueInv /\ Log!OrderInv)
  BY Log!OrderAlways DEF LogAssumptions
<1>2. Log!Spec => Log!ImplementsDurableTable
  BY Log!FileIsDurable DEF LogAssumptions
<1>3. Log!ImplementsDurableTable => [][Log!Durable!Next]_(Log!Durable!vars)
  BY PTL DEF Log!ImplementsDurableTable, Log!Durable!Spec
<1>4. Log!Spec => Log!Init /\ [][Log!Next]_(Log!vars)
  BY PTL DEF Log!Spec
<1>5. /\ IInv /\ SeenInv
      /\ Log!TypeOK /\ Log!UseInv /\ Log!ArrivedInv /\ Log!OrderInv
      /\ Log!TypeOK' /\ Log!ArrivedInv' /\ Log!OrderInv'
      /\ [Log!Next]_(Log!vars) /\ [Log!Durable!Next]_(Log!Durable!vars)
      /\ [TailStep]_tailVars
      => SeenInv'
  BY SeenStep
<1>6. System => []SeenInv
  BY <1>1, <1>2, <1>3, <1>4, <1>5, SeenInit, SystemInv, PTL DEF System, TailSpec
<1>7. IInv /\ SeenInv => PrintedAsArrived
  <2> SUFFICES ASSUME IInv, SeenInv, serve = "up",
                      NEW i \in DOMAIN printed, NEW j \in DOMAIN printed,
                      i < j, printed[i].rec > base
               PROVE  printed[i].rec < printed[j].rec
    BY DEF PrintedAsArrived, Log!Running
  <2>1. printed[i] \in Seen /\ printed[j] \in Seen
    BY DEF Seen, Shown, ToSet
  <2>2. printed[i].id < printed[j].id
    BY DEF IInv, PrintedInOrder
  <2> QED
    BY <2>1, <2>2 DEF SeenInv
<1> QED
  BY <1>6, <1>7, SystemInv, PTL

==============================================================================
