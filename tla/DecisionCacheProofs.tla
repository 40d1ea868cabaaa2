------------------------- MODULE DecisionCacheProofs -------------------------
(***************************************************************************)
(* Theorems about DecisionCache, for every set of names and decisions and  *)
(* every capacity: the list of keys and the map stay in step, together     *)
(* they are a least-recently-used cache, and what its callers may rely on  *)
(* is what the history variables of MCDecisionCache say.                   *)
(***************************************************************************)
EXTENDS MCDecisionCache, SequenceFacts

(* A list of keys, the keys on it, and which of them come before which.    *)
Chain(s)  == s \in Seq(Names) /\ Distinct(s)
Keys(s)   == {s[i] : i \in DOMAIN s}
Before(s) ==
    {<<s[p[1]], s[p[2]]>> : p \in {q \in (DOMAIN s) \X (DOMAIN s) : q[1] < q[2]}}

(* A pair is in Before exactly when its keys are on the list in that order.*)
LEMMA BeforeMember ==
    ASSUME NEW s, NEW q
    PROVE  q \in Before(s) <=> \E i, j \in DOMAIN s : i < j /\ q = <<s[i], s[j]>>
<1>1. ASSUME NEW i \in DOMAIN s, NEW j \in DOMAIN s, i < j
      PROVE  <<s[i], s[j]>> \in Before(s)
  <2>1. /\ <<i, j>> \in {p \in (DOMAIN s) \X (DOMAIN s) : p[1] < p[2]}
        /\ <<i, j>>[1] = i /\ <<i, j>>[2] = j
    BY <1>1
  <2> QED
    BY <2>1 DEF Before
<1>2. ASSUME q \in Before(s)
      PROVE  \E i, j \in DOMAIN s : i < j /\ q = <<s[i], s[j]>>
  <2>1. PICK p \in (DOMAIN s) \X (DOMAIN s) : p[1] < p[2] /\ q = <<s[p[1]], s[p[2]]>>
    BY <1>2 DEF Before
  <2> QED
    BY <2>1
<1> QED
  BY <1>1, <1>2

(* Without one key the others keep their order.                            *)
LEMMA WithoutOrder ==
    ASSUME NEW s, Chain(s), NEW p \in DOMAIN s, NEW r \in Seq(Names), Without(r, s, p)
    PROVE  /\ Chain(r)
           /\ Keys(r) = Keys(s) \ {s[p]}
           /\ \A q : q \in Before(r) <=> q \in Before(s) /\ s[p] \notin {q[1], q[2]}
<1>1. /\ DOMAIN s = 1..Len(s) /\ DOMAIN r = 1..Len(r) /\ p \in 1..Len(s)
      /\ Len(s) \in Nat /\ Len(r) = Len(s) - 1
  BY DEF Chain, Without
<1>2. \A i, j \in 1..Len(s) : s[i] = s[j] => i = j
  BY <1>1 DEF Chain, Distinct
<1>3. \A i \in 1..Len(r) :
          \E k \in 1..Len(s) : k # p /\ r[i] = s[k] /\ k = IF i < p THEN i ELSE i + 1
  BY <1>1 DEF Without
<1>4. \A k \in 1..Len(s) :
          k # p => \E i \in 1..Len(r) : r[i] = s[k] /\ i = IF k < p THEN k ELSE k - 1
  <2> SUFFICES ASSUME NEW k \in 1..Len(s), k # p
               PROVE  \E i \in 1..Len(r) : r[i] = s[k] /\ i = IF k < p THEN k ELSE k - 1
    OBVIOUS
  <2>1. CASE k < p
    BY <1>1, <2>1 DEF Without
  <2>2. CASE k > p
    <3>1. k - 1 \in 1..Len(r) /\ ~(k - 1 < p) /\ (k - 1) + 1 = k
      BY <1>1, <2>2
    <3>2. r[k - 1] = s[k]
      BY <3>1 DEF Without
    <3> QED
      BY <2>2, <3>1, <3>2
  <2> QED
    BY <1>1, <2>1, <2>2
<1>5. Distinct(r)
  BY <1>1, <1>2, <1>3 DEF Distinct
<1>6. Keys(r) = Keys(s) \ {s[p]}
  <2>1. \A x \in Keys(r) : x \in Keys(s) /\ x # s[p]
    BY <1>1, <1>2, <1>3 DEF Keys
  <2>2. \A x \in Keys(s) : x # s[p] => x \in Keys(r)
    BY <1>1, <1>4 DEF Keys
  <2> QED
    BY <2>1, <2>2
<1>7. ASSUME NEW q, q \in Before(r)
      PROVE  q \in Before(s) /\ s[p] \notin {q[1], q[2]}
  <2>1. PICK i, j \in 1..Len(r) : i < j /\ q = <<r[i], r[j]>>
    BY <1>1, <1>7, BeforeMember
  <2>2. PICK k \in 1..Len(s) : k # p /\ r[i] = s[k] /\ k = IF i < p THEN i ELSE i + 1
    BY <1>3
  <2>3. PICK l \in 1..Len(s) : l # p /\ r[j] = s[l] /\ l = IF j < p THEN j ELSE j + 1
    BY <1>3
  <2>4. k < l
    BY <1>1, <2>1, <2>2, <2>3
  <2>5. q = <<s[k], s[l]>> /\ s[k] # s[p] /\ s[l] # s[p]
    BY <1>1, <1>2, <2>1, <2>2, <2>3
  <2>6. q \in Before(s)
    BY <1>1, <2>4, <2>5, BeforeMember
  <2> QED
    BY <2>5, <2>6
<1>8. ASSUME NEW q, q \in Before(s), s[p] \notin {q[1], q[2]}
      PROVE  q \in Before(r)
  <2>1. PICK k, l \in 1..Len(s) : k < l /\ q = <<s[k], s[l]>>
    BY <1>1, <1>8, BeforeMember
  <2>2. k # p /\ l # p
    BY <1>8, <2>1
  <2>3. PICK i \in 1..Len(r) : r[i] = s[k] /\ i = IF k < p THEN k ELSE k - 1
    BY <1>4, <2>2
  <2>4. PICK j \in 1..Len(r) : r[j] = s[l] /\ j = IF l < p THEN l ELSE l - 1
    BY <1>4, <2>2
  <2>5. i < j
    BY <1>1, <2>1, <2>2, <2>3, <2>4
  <2> QED
    BY <1>1, <2>1, <2>3, <2>4, <2>5, BeforeMember
<1> QED
  BY <1>5, <1>6, <1>7, <1>8 DEF Chain

(* A key that is added at the end comes after every other one.             *)
LEMMA AppendOrder ==
    ASSUME NEW s, Chain(s), NEW n \in Names, n \notin Keys(s)
    PROVE  /\ Chain(Append(s, n))
           /\ Len(Append(s, n)) = Len(s) + 1
           /\ Keys(Append(s, n)) = Keys(s) \cup {n}
           /\ \A q : q \in Before(Append(s, n))
                        <=> q \in Before(s) \/ \E m \in Keys(s) : q = <<m, n>>
<1> DEFINE t == Append(s, n)
<1>1. /\ t \in Seq(Names) /\ Len(t) = Len(s) + 1
      /\ \A i \in 1..Len(s) : t[i] = s[i]
      /\ t[Len(s) + 1] = n
  BY AppendProperties DEF Chain
<1> HIDE DEF t
<1>2. DOMAIN s = 1..Len(s) /\ DOMAIN t = 1..(Len(s) + 1) /\ Len(s) \in Nat
  BY <1>1 DEF Chain
<1>3. \A i \in 1..Len(s) : s[i] # n
  BY <1>2 DEF Keys
<1>4. \A i, j \in 1..Len(s) : s[i] = s[j] => i = j
  BY <1>2 DEF Chain, Distinct
<1>5. Distinct(t)
  BY <1>1, <1>2, <1>3, <1>4 DEF Distinct
<1>6. Keys(t) = Keys(s) \cup {n}
  <2>1. \A x \in Keys(t) : x \in Keys(s) \cup {n}
    BY <1>1, <1>2 DEF Keys
  <2>2. \A x \in Keys(s) : x \in Keys(t)
    BY <1>1, <1>2 DEF Keys
  <2>3. n \in Keys(t)
    BY <1>1, <1>2 DEF Keys
  <2> QED
    BY <2>1, <2>2, <2>3
<1>7. ASSUME NEW q, q \in Before(t)
      PROVE  q \in Before(s) \/ \E m \in Keys(s) : q = <<m, n>>
  <2>1. PICK i, j \in 1..(Len(s) + 1) : i < j /\ q = <<t[i], t[j]>>
    BY <1>2, <1>7, BeforeMember
  <2>2. i \in 1..Len(s) /\ t[i] = s[i] /\ s[i] \in Keys(s)
    BY <1>1, <1>2, <2>1 DEF Keys
  <2>3. CASE j = Len(s) + 1
    BY <1>1, <2>1, <2>2, <2>3
  <2>4. CASE j # Len(s) + 1
    <3>1. j \in 1..Len(s) /\ t[j] = s[j]
      BY <1>1, <1>2, <2>1, <2>4
    <3> QED
      BY <1>2, <2>1, <2>2, <3>1, BeforeMember
  <2> QED
    BY <2>3, <2>4
<1>8. ASSUME NEW q, q \in Before(s)
      PROVE  q \in Before(t)
  <2>1. PICK i, j \in 1..Len(s) : i < j /\ q = <<s[i], s[j]>>
    BY <1>2, <1>8, BeforeMember
  <2>2. i \in 1..(Len(s) + 1) /\ j \in 1..(Len(s) + 1) /\ q = <<t[i], t[j]>>
    BY <1>1, <1>2, <2>1
  <2> QED
    BY <1>2, <2>1, <2>2, BeforeMember
<1>9. ASSUME NEW m \in Keys(s)
      PROVE  <<m, n>> \in Before(t)
  <2>1. PICK i \in 1..Len(s) : m = s[i]
    BY <1>2 DEF Keys
  <2>2. /\ i \in 1..(Len(s) + 1) /\ Len(s) + 1 \in 1..(Len(s) + 1) /\ i < Len(s) + 1
        /\ <<m, n>> = <<t[i], t[Len(s) + 1]>>
    BY <1>1, <1>2, <2>1
  <2> QED
    BY <1>2, <2>2, BeforeMember
<1>10. Chain(t) /\ Len(t) = Len(s) + 1
  BY <1>1, <1>5 DEF Chain
<1>11. \A q : q \in Before(t) <=> q \in Before(s) \/ \E m \in Keys(s) : q = <<m, n>>
  BY <1>7, <1>8, <1>9
<1> QED
  BY <1>6, <1>10, <1>11 DEF t

(* The keys of a list of distinct ones are as many as its length.          *)
LEMMA KeysCounted ==
    ASSUME NEW s, Chain(s)
    PROVE  IsFiniteSet(Keys(s)) /\ Cardinality(Keys(s)) = Len(s)
<1>1. DOMAIN s = 1..Len(s) /\ Len(s) \in Nat
  BY DEF Chain
<1>2. s \in Bijection(1..Len(s), Keys(s))
  <2>1. s \in [1..Len(s) -> Keys(s)]
    BY <1>1 DEF Chain, Keys
  <2>2. \A i, j \in 1..Len(s) : s[i] = s[j] => i = j
    BY <1>1 DEF Chain, Distinct
  <2>3. \A x \in Keys(s) : \E i \in 1..Len(s) : s[i] = x
    BY <1>1 DEF Keys
  <2> QED
    BY <2>1, <2>2, <2>3 DEF Bijection, Injection, Surjection, IsInjective
<1>3. ExistsBijection(1..Len(s), Keys(s))
  BY <1>2 DEF ExistsBijection
<1>4. IsFiniteSet(1..Len(s))
  BY <1>1, FS_Interval
<1> QED
  BY <1>1, <1>3, <1>4, FS_Bijection, FS_CountingElements

(* Only keys of the list are in a pair.                                    *)
LEMMA BeforeKeys ==
    ASSUME NEW s, NEW q \in Before(s)
    PROVE  q[1] \in Keys(s) /\ q[2] \in Keys(s)
<1>1. PICK i, j \in DOMAIN s : i < j /\ q = <<s[i], s[j]>>
  BY BeforeMember
<1> QED
  BY <1>1 DEF Keys

(* A list that loses the key n, if it has it, and then gets it at its end, *)
(* has the order that the policy gives to the use of n among these keys.   *)
LEMMA LatestOrder ==
    ASSUME NEW s, Chain(s), NEW r, Chain(r), NEW n \in Names,
           NEW names, names = Keys(r), n \notin Keys(r),
           \A q : q \in Before(r) <=> /\ q \in Before(s)
                                      /\ q[1] \in names /\ q[2] \in names
    PROVE  Before(Append(r, n)) = Policy!Latest(Before(s), names \cup {n}, n)
<1>1. \A q : q \in Before(Append(r, n))
                <=> q \in Before(r) \/ \E m \in Keys(r) : q = <<m, n>>
  BY AppendOrder
<1>2. \A q : q \in Policy!Latest(Before(s), names \cup {n}, n)
                <=> \/ /\ q \in Before(s) /\ n \notin {q[1], q[2]}
                       /\ q[1] \in names \cup {n} /\ q[2] \in names \cup {n}
                    \/ \E m \in (names \cup {n}) \ {n} : q = <<m, n>>
  BY DEF Policy!Latest
<1>3. ASSUME NEW q, q \in Before(Append(r, n))
      PROVE  q \in Policy!Latest(Before(s), names \cup {n}, n)
  <2>1. CASE q \in Before(r)
    <3>1. q \in Before(s) /\ q[1] \in names /\ q[2] \in names
      BY <2>1
    <3>2. n \notin {q[1], q[2]}
      BY <3>1
    <3> QED
      BY <1>2, <3>1, <3>2
  <2>2. CASE \E m \in Keys(r) : q = <<m, n>>
    <3>1. PICK m \in Keys(r) : q = <<m, n>>
      BY <2>2
    <3>2. m \in (names \cup {n}) \ {n}
      OBVIOUS
    <3> QED
      BY <1>2, <3>1, <3>2
  <2> QED
    BY <1>1, <1>3, <2>1, <2>2
<1>4. ASSUME NEW q, q \in Policy!Latest(Before(s), names \cup {n}, n)
      PROVE  q \in Before(Append(r, n))
  <2>1. CASE /\ q \in Before(s) /\ n \notin {q[1], q[2]}
             /\ q[1] \in names \cup {n} /\ q[2] \in names \cup {n}
    <3>1. q[1] \in names /\ q[2] \in names
      BY <2>1
    <3>2. q \in Before(r)
      BY <2>1, <3>1
    <3> QED
      BY <1>1, <3>2
  <2>2. CASE \E m \in (names \cup {n}) \ {n} : q = <<m, n>>
    <3>1. \E m \in Keys(r) : q = <<m, n>>
      BY <2>2
    <3> QED
      BY <1>1, <3>1
  <2> QED
    BY <1>2, <1>4, <2>1, <2>2
<1> QED
  BY <1>3, <1>4

------------------------------------------------------------------------------
(* The ordered dictionary.                                                 *)

DictOK(c) ==
    /\ c = [order |-> c.order, val |-> c.val]
    /\ Chain(c.order)
    /\ Cached(c) = Keys(c.order)
    /\ c.val \in [Cached(c) -> Decisions]

(* A dictionary whose list is replaced.                                    *)
LEMMA NewOrder ==
    ASSUME NEW o, NEW v, NEW w
    PROVE  [[order |-> o, val |-> v] EXCEPT !.order = w] = [order |-> w, val |-> v]
OBVIOUS

(* move_to_end: the same entries, n the latest of them.                    *)
LEMMA MovedToEnd ==
    ASSUME NEW c, DictOK(c), NEW n \in Cached(c)
    PROVE  /\ DictOK(MoveToEnd(c, n))
           /\ MoveToEnd(c, n).val = c.val
           /\ Len(MoveToEnd(c, n).order) = Len(c.order)
           /\ Before(MoveToEnd(c, n).order) = Policy!Latest(Before(c.order), Cached(c), n)
<1> DEFINE s == c.order
           p == PositionOf(c, n)
           r == RemoveAt(s, p)
<1>1. Chain(s) /\ s \in Seq(Names) /\ n \in Keys(s)
  BY DEF DictOK, Chain
<1>2. p \in DOMAIN s /\ s[p] = n
  BY <1>1 DEF PositionOf, Keys
<1>3. n \in Names
  BY <1>1, <1>2, ElementOfSeq
<1>4. /\ MoveToEnd(c, n).order = Append(r, n) /\ MoveToEnd(c, n).val = c.val
      /\ MoveToEnd(c, n) = [order |-> Append(r, n), val |-> c.val]
  <2> DEFINE w == Append(RemoveAt(c.order, PositionOf(c, n)), n)
  <2>1. MoveToEnd(c, n) = [c EXCEPT !.order = w]
    BY DEF MoveToEnd
  <2> HIDE DEF w
  <2>2. [c EXCEPT !.order = w] = [order |-> w, val |-> c.val]
    <3>1. c = [order |-> c.order, val |-> c.val]
      BY DEF DictOK
    <3>2. [[order |-> c.order, val |-> c.val] EXCEPT !.order = w] = [order |-> w, val |-> c.val]
      BY NewOrder
    <3> QED
      BY <3>1, <3>2, Zenon
  <2>3. MoveToEnd(c, n) = [order |-> w, val |-> c.val]
    BY <2>1, <2>2
  <2> QED
    BY <2>3 DEF w
<1> HIDE DEF p, r
<1>5. r \in Seq(Names) /\ Without(r, s, p)
  BY <1>1, <1>2, RemoveWithout DEF r
<1>6. /\ Chain(r) /\ Keys(r) = Keys(s) \ {n}
      /\ \A q : q \in Before(r) <=> q \in Before(s) /\ n \notin {q[1], q[2]}
  BY <1>1, <1>2, <1>5, WithoutOrder
<1>7. \A q : q \in Before(r) <=> q \in Before(s) /\ q[1] \in Keys(r) /\ q[2] \in Keys(r)
  BY <1>6, BeforeKeys
<1>8. /\ Chain(Append(r, n)) /\ Len(Append(r, n)) = Len(r) + 1
      /\ Keys(Append(r, n)) = Keys(r) \cup {n}
  BY <1>3, <1>6, AppendOrder
<1>9. Keys(r) \cup {n} = Keys(s)
  BY <1>1, <1>6
<1>10. Before(Append(r, n)) = Policy!Latest(Before(s), Keys(s), n)
  <2>1. Before(Append(r, n)) = Policy!Latest(Before(s), Keys(r) \cup {n}, n)
    BY <1>1, <1>3, <1>6, <1>7, LatestOrder
  <2> QED
    BY <1>9, <2>1
<1>11. Len(Append(r, n)) = Len(s)
  BY <1>1, <1>5, <1>8, LenProperties DEF Without
<1> QED
  BY <1>4, <1>8, <1>9, <1>10, <1>11 DEF DictOK, Cached

(* The decisions of c for `keys`, with d for n.                            *)
Overlay(keys, c, n, d) == [k \in keys |-> IF k = n THEN d ELSE c.val[k]]

(* d[n] = d for a key that is there: its value and nothing else.           *)
LEMMA SetThere ==
    ASSUME NEW c, DictOK(c), NEW n \in Cached(c), NEW d \in Decisions
    PROVE  /\ DictOK(SetItem(c, n, d))
           /\ SetItem(c, n, d).order = c.order
           /\ SetItem(c, n, d).val =
                  Overlay(Cached(c) \cup {n}, c, n, d)
<1>1. /\ SetItem(c, n, d).order = c.order
      /\ SetItem(c, n, d).val = Overlay(Cached(c) \cup {n}, c, n, d)
      /\ SetItem(c, n, d) = [order |-> SetItem(c, n, d).order, val |-> SetItem(c, n, d).val]
  BY DEF SetItem, Overlay
<1>2. Cached(SetItem(c, n, d)) = Cached(c)
  BY <1>1 DEF Cached, Overlay
<1>3. SetItem(c, n, d).val \in [Cached(c) -> Decisions]
  BY <1>1 DEF DictOK, Overlay
<1> QED
  BY <1>1, <1>2, <1>3 DEF DictOK

(* d[n] = d for a new key, which goes last.                                *)
LEMMA SetNew ==
    ASSUME NEW c, DictOK(c), NEW n \in Names, n \notin Cached(c), NEW d \in Decisions
    PROVE  /\ DictOK(SetItem(c, n, d))
           /\ SetItem(c, n, d).order = Append(c.order, n)
           /\ Len(SetItem(c, n, d).order) = Len(c.order) + 1
           /\ SetItem(c, n, d).val =
                  Overlay(Cached(c) \cup {n}, c, n, d)
<1>1. /\ SetItem(c, n, d).order = Append(c.order, n)
      /\ SetItem(c, n, d).val = Overlay(Cached(c) \cup {n}, c, n, d)
      /\ SetItem(c, n, d) = [order |-> SetItem(c, n, d).order, val |-> SetItem(c, n, d).val]
  BY DEF SetItem, Overlay
<1>2. Cached(SetItem(c, n, d)) = Cached(c) \cup {n}
  BY <1>1 DEF Cached, Overlay
<1>3. SetItem(c, n, d).val \in [Cached(c) \cup {n} -> Decisions]
  BY <1>1 DEF DictOK, Overlay
<1>4. /\ Chain(Append(c.order, n)) /\ Len(Append(c.order, n)) = Len(c.order) + 1
      /\ Keys(Append(c.order, n)) = Cached(c) \cup {n}
  BY AppendOrder DEF DictOK
<1> QED
  BY <1>1, <1>2, <1>3, <1>4 DEF DictOK

(* popitem(last=False) takes the key that comes before every other one.    *)
LEMMA Popped ==
    ASSUME NEW c, DictOK(c), c.order # << >>
    PROVE  LET h == Head(c.order)
           IN /\ DictOK(PopOldest(c))
              /\ h \in Cached(c)
              /\ Cached(PopOldest(c)) = Cached(c) \ {h}
              /\ Len(PopOldest(c).order) = Len(c.order) - 1
              /\ \A k \in Cached(c) \ {h} : PopOldest(c).val[k] = c.val[k]
              /\ \A q : q \in Before(PopOldest(c).order)
                           <=> q \in Before(c.order) /\ h \notin {q[1], q[2]}
              /\ \A m \in Cached(c) \ {h} : <<h, m>> \in Before(c.order)
<1> DEFINE s == c.order
           h == Head(s)
           r == Tail(s)
<1>1. Chain(s) /\ s \in Seq(Names) /\ s # << >> /\ Cached(c) = Keys(s)
  BY DEF DictOK, Chain
<1>2. /\ DOMAIN s = 1..Len(s) /\ 1 \in DOMAIN s /\ h = s[1]
  BY <1>1, EmptySeq, LenProperties
<1>3. /\ PopOldest(c).order = r
      /\ PopOldest(c).val = [k \in Cached(c) \ {h} |-> c.val[k]]
      /\ PopOldest(c) = [order |-> PopOldest(c).order, val |-> PopOldest(c).val]
  BY DEF PopOldest
<1> HIDE DEF h, r
<1>4. r \in Seq(Names) /\ Without(r, s, 1)
  BY <1>1, TailWithout DEF r
<1>5. /\ Chain(r) /\ Keys(r) = Keys(s) \ {h}
      /\ \A q : q \in Before(r) <=> q \in Before(s) /\ h \notin {q[1], q[2]}
  BY <1>1, <1>2, <1>4, WithoutOrder
<1>6. ASSUME NEW m \in Cached(c) \ {h}
      PROVE  <<h, m>> \in Before(s)
  <2>1. PICK i \in DOMAIN s : m = s[i]
    BY <1>1 DEF Keys
  <2>2. 1 < i
    BY <1>2, <2>1
  <2> QED
    BY <1>2, <2>1, <2>2, BeforeMember
<1>7. Cached(PopOldest(c)) = Cached(c) \ {h} /\ h \in Cached(c)
  BY <1>1, <1>2, <1>3 DEF Cached, Keys
<1>8. PopOldest(c).val \in [Cached(c) \ {h} -> Decisions]
  BY <1>3 DEF DictOK
<1>9. DictOK(PopOldest(c))
  BY <1>1, <1>3, <1>5, <1>7, <1>8 DEF DictOK
<1>10. Len(PopOldest(c).order) = Len(s) - 1
  BY <1>3, <1>4 DEF Without
<1> QED
  BY <1>3, <1>5, <1>6, <1>7, <1>9, <1>10 DEF h

(* What the policy says of a put of d under n that keeps the keys `kept`.  *)
Stored(e, c, n, d, kept) ==
    /\ DictOK(e)
    /\ Len(e.order) <= Capacity
    /\ e.val = Overlay(kept \cup {n}, c, n, d)
    /\ Before(e.order) = Policy!Latest(Before(c.order), kept \cup {n}, n)

(* put of a key that is there.                                             *)
LEMMA PutThere ==
    ASSUME NEW c, DictOK(c), Len(c.order) <= Capacity,
           NEW n \in Cached(c), NEW d \in Decisions
    PROVE  Stored(AfterPut(c, n, d, Capacity), c, n, d, Cached(c))
<1> DEFINE f == MoveToEnd(c, n)
           e == SetItem(f, n, d)
<1>1. AfterPut(c, n, d, Capacity) = e
  BY DEF AfterPut
<1>2. /\ DictOK(f) /\ f.val = c.val /\ Len(f.order) = Len(c.order)
      /\ Before(f.order) = Policy!Latest(Before(c.order), Cached(c), n)
  BY MovedToEnd
<1> HIDE DEF f
<1>3. Cached(f) = Cached(c) /\ Cached(c) \cup {n} = Cached(c)
  BY <1>2 DEF Cached
<1>4. /\ DictOK(e) /\ e.order = f.order
      /\ e.val = Overlay(Cached(f) \cup {n}, f, n, d)
  BY <1>2, <1>3, SetThere
<1> HIDE DEF e
<1>5. e.val = Overlay(Cached(c) \cup {n}, c, n, d)
  BY <1>2, <1>3, <1>4 DEF Overlay
<1>6. Before(e.order) = Policy!Latest(Before(c.order), Cached(c) \cup {n}, n)
  BY <1>2, <1>3, <1>4
<1> QED
  BY <1>1, <1>2, <1>4, <1>5, <1>6 DEF Stored

(* put of a new key while there is room.                                   *)
LEMMA PutNew ==
    ASSUME NEW c, DictOK(c), Len(c.order) < Capacity,
           NEW n \in Names, n \notin Cached(c), NEW d \in Decisions
    PROVE  Stored(AfterPut(c, n, d, Capacity), c, n, d, Cached(c))
<1> DEFINE e == SetItem(c, n, d)
<1>1. Chain(c.order) /\ Len(c.order) \in Nat /\ Capacity \in Nat
      /\ Cached(c) = Keys(c.order)
  BY CapacityAssumption, LenProperties DEF DictOK, Chain
<1>2. AfterPut(c, n, d, Capacity) = e
  <2>1. ~(Len(c.order) >= Capacity)
    BY <1>1
  <2> QED
    BY <2>1 DEF AfterPut
<1>3. /\ DictOK(e) /\ e.order = Append(c.order, n) /\ Len(e.order) = Len(c.order) + 1
      /\ e.val = Overlay(Cached(c) \cup {n}, c, n, d)
  BY SetNew
<1> HIDE DEF e
<1>4. \A q : q \in Before(c.order) <=> /\ q \in Before(c.order)
                                       /\ q[1] \in Cached(c) /\ q[2] \in Cached(c)
  BY <1>1, BeforeKeys
<1>5. Before(Append(c.order, n)) = Policy!Latest(Before(c.order), Cached(c) \cup {n}, n)
  BY <1>1, <1>4, LatestOrder
<1>6. Len(e.order) <= Capacity
  BY <1>1, <1>3
<1> QED
  BY <1>2, <1>3, <1>5, <1>6 DEF Stored

(* put of a new key into a full cache: the key that comes before every     *)
(* other one makes room.                                                   *)
LEMMA PutFull ==
    ASSUME NEW c, DictOK(c), Len(c.order) = Capacity,
           NEW n \in Names, n \notin Cached(c), NEW d \in Decisions
    PROVE  \E victim \in Cached(c) :
              /\ \A m \in Cached(c) \ {victim} : <<victim, m>> \in Before(c.order)
              /\ Stored(AfterPut(c, n, d, Capacity), c, n, d, Cached(c) \ {victim})
<1> DEFINE f == PopOldest(c)
           e == SetItem(f, n, d)
           h == Head(c.order)
<1>1. /\ Chain(c.order) /\ Len(c.order) \in Nat /\ Capacity \in Nat /\ Capacity # 0
      /\ Cached(c) = Keys(c.order)
  BY CapacityAssumption, LenProperties DEF DictOK, Chain
<1>2. AfterPut(c, n, d, Capacity) = e
  <2>1. Len(c.order) >= Capacity
    BY <1>1
  <2> QED
    BY <2>1 DEF AfterPut
<1>3. c.order # << >>
  BY <1>1, EmptySeq DEF Chain
<1>4. /\ DictOK(f) /\ h \in Cached(c) /\ Cached(f) = Cached(c) \ {h}
      /\ Len(f.order) = Len(c.order) - 1
      /\ \A k \in Cached(c) \ {h} : f.val[k] = c.val[k]
      /\ \A q : q \in Before(f.order) <=> q \in Before(c.order) /\ h \notin {q[1], q[2]}
      /\ \A m \in Cached(c) \ {h} : <<h, m>> \in Before(c.order)
  BY <1>3, Popped
<1> HIDE DEF f, h
<1>5. /\ DictOK(f) /\ n \notin Cached(f)
      /\ Chain(f.order) /\ Cached(f) = Keys(f.order)
  BY <1>4 DEF DictOK
<1>6. /\ DictOK(e) /\ e.order = Append(f.order, n) /\ Len(e.order) = Len(f.order) + 1
      /\ e.val = Overlay(Cached(f) \cup {n}, f, n, d)
  BY <1>5, SetNew
<1> HIDE DEF e
<1>7. e.val = Overlay((Cached(c) \ {h}) \cup {n}, c, n, d)
  BY <1>4, <1>6 DEF Overlay
<1>8. \A q : q \in Before(f.order) <=> /\ q \in Before(c.order)
                                       /\ q[1] \in Cached(f) /\ q[2] \in Cached(f)
  <2>1. \A q \in Before(c.order) : q[1] \in Cached(c) /\ q[2] \in Cached(c)
    BY <1>1, BeforeKeys
  <2> QED
    BY <1>4, <2>1
<1>9. Before(Append(f.order, n)) = Policy!Latest(Before(c.order), Cached(f) \cup {n}, n)
  BY <1>1, <1>5, <1>8, LatestOrder
<1>10. Len(e.order) <= Capacity
  BY <1>1, <1>4, <1>6
<1>11. Stored(e, c, n, d, Cached(c) \ {h})
  BY <1>4, <1>6, <1>7, <1>9, <1>10 DEF Stored
<1> QED
  BY <1>2, <1>4, <1>11

------------------------------------------------------------------------------
(* The cache of the program.                                               *)

(* The inductive invariant: the dictionary is well formed and never over   *)
(* its capacity, the counters are numbers, and get answers a decision.     *)
Inv ==
    /\ DictOK(cache)
    /\ Len(cache.order) <= Capacity
    /\ hits \in Nat /\ misses \in Nat
    /\ answer \in Decisions \cup {None}

(* An empty cache has it.                                                  *)
LEMMA InitInv == Init => Inv
<1> SUFFICES ASSUME Init PROVE Inv
  OBVIOUS
<1>1. cache.order = << >> /\ cache.val = << >> /\ cache = [order |-> << >>, val |-> << >>]
  BY DEF Init, EmptyDict
<1>2. Len(cache.order) = 0 /\ cache.order \in Seq(Names) /\ DOMAIN cache.order = {}
  BY <1>1, EmptySeq
<1>3. DictOK(cache)
  <2>1. Chain(cache.order) /\ Keys(cache.order) = {}
    BY <1>2 DEF Chain, Distinct, Keys
  <2>2. Cached(cache) = {} /\ cache.val \in [{} -> Decisions]
    BY <1>1 DEF Cached
  <2>3. cache = [order |-> cache.order, val |-> cache.val]
    BY <1>1
  <2> QED
    BY <2>1, <2>2, <2>3 DEF DictOK
<1>4. Len(cache.order) <= Capacity
  BY <1>2, CapacityAssumption
<1> QED
  BY <1>3, <1>4 DEF Init, Inv

(* A get does to the cache what the policy's lookup does.                  *)
LEMMA GetStep ==
    ASSUME Inv, NEW n \in Names, GetHit(n) \/ GetMiss(n)
    PROVE  Inv' /\ Policy!Lookup(n)
<1>1. CASE GetHit(n)
  <2>1. n \in Cached(cache) /\ cache' = MoveToEnd(cache, n)
    BY <1>1 DEF GetHit, AfterGet
  <2>2. /\ DictOK(MoveToEnd(cache, n)) /\ MoveToEnd(cache, n).val = cache.val
        /\ Len(MoveToEnd(cache, n).order) = Len(cache.order)
        /\ Before(MoveToEnd(cache, n).order) =
               Policy!Latest(Before(cache.order), Cached(cache), n)
    BY <2>1, MovedToEnd DEF Inv
  <2>3. DictOK(cache)' /\ cache'.val = cache.val /\ Len(cache'.order) <= Capacity
    BY <2>1, <2>2 DEF Inv, DictOK, Cached
  <2>4. answer' = cache.val[n] /\ cache.val[n] \in Decisions
    BY <1>1, <2>1 DEF GetHit, Inv, DictOK
  <2>5. hits' \in Nat /\ misses' \in Nat
    BY <1>1 DEF GetHit, Inv
  <2>6. Inv'
    BY <2>3, <2>4, <2>5 DEF Inv
  <2>7. Before(cache'.order) = Policy!Latest(Before(cache.order), Cached(cache), n)
    BY <2>1, <2>2
  <2>8. OlderPairs' = Before(cache'.order) /\ OlderPairs = Before(cache.order)
    BY DEF OlderPairs, Before
  <2>9. Policy!Lookup(n)
    BY <2>1, <2>3, <2>4, <2>7, <2>8 DEF Policy!Lookup, Cached
  <2> QED
    BY <2>6, <2>9
<1>2. CASE GetMiss(n)
  <2>1. n \notin Cached(cache) /\ cache' = cache /\ answer' = None
    BY <1>2 DEF GetMiss, AfterGet
  <2>2. hits' \in Nat /\ misses' \in Nat
    BY <1>2 DEF GetMiss, Inv
  <2>3. Inv'
    BY <2>1, <2>2 DEF Inv, DictOK, Cached
  <2>4. OlderPairs' = OlderPairs
    BY <2>1 DEF OlderPairs
  <2>5. Policy!Lookup(n)
    BY <2>1, <2>4 DEF Policy!Lookup, Cached
  <2> QED
    BY <2>3, <2>5
<1> QED
  BY <1>1, <1>2

(* A put does to the cache what one of the policy's stores does.           *)
LEMMA PutStep ==
    ASSUME Inv, NEW n \in Names, NEW d \in Decisions, Put(n, d)
    PROVE  Inv' /\ (Policy!StoreWithRoom(n, d) \/ Policy!StoreEvicting(n, d))
<1> DEFINE e == AfterPut(cache, n, d, Capacity)
<1>1. cache' = e /\ UNCHANGED <<hits, misses, answer>>
  BY DEF Put
<1> HIDE DEF e
<1>2. OlderPairs' = Before(cache'.order) /\ OlderPairs = Before(cache.order)
  BY DEF OlderPairs, Before
<1>3. /\ DictOK(cache) /\ Len(cache.order) \in Nat /\ Len(cache.order) <= Capacity
      /\ Capacity \in Nat /\ Cardinality(Cached(cache)) = Len(cache.order)
  BY CapacityAssumption, KeysCounted, LenProperties DEF Inv, DictOK, Chain
<1>4. ASSUME NEW kept, Stored(e, cache, n, d, kept)
      PROVE  Inv' /\ Policy!Store(n, d, kept)
  <2>1. /\ DictOK(cache') /\ Len(cache'.order) <= Capacity
        /\ cache'.val = Overlay(kept \cup {n}, cache, n, d)
        /\ Before(cache'.order) = Policy!Latest(Before(cache.order), kept \cup {n}, n)
    BY <1>1, <1>4 DEF Stored
  <2>2. DictOK(cache)'
    BY <2>1 DEF DictOK, Cached
  <2>3. Inv'
    BY <1>1, <2>1, <2>2 DEF Inv
  <2>4. Policy!Store(n, d, kept)
    BY <1>1, <1>2, <2>1 DEF Policy!Store, Overlay
  <2> QED
    BY <2>3, <2>4
<1>5. Policy!Cardinality(Cached(cache)) = Cardinality(Cached(cache))
  BY DEF Policy!Cardinality, Cardinality
<1>6. CASE n \in Cached(cache)
  <2>1. Stored(e, cache, n, d, Cached(cache))
    BY <1>3, <1>6, PutThere DEF e
  <2>2. Inv' /\ Policy!Store(n, d, Cached(cache))
    BY <1>4, <2>1
  <2> QED
    BY <1>6, <2>2 DEF Policy!StoreWithRoom, Cached
<1>7. CASE n \notin Cached(cache) /\ Len(cache.order) < Capacity
  <2>1. Stored(e, cache, n, d, Cached(cache))
    BY <1>3, <1>7, PutNew DEF e
  <2>2. Inv' /\ Policy!Store(n, d, Cached(cache))
    BY <1>4, <2>1
  <2>3. Policy!Cardinality(DOMAIN cache.val) < Capacity
    BY <1>3, <1>5, <1>7 DEF Cached
  <2> QED
    BY <2>2, <2>3 DEF Policy!StoreWithRoom, Cached
<1>8. CASE n \notin Cached(cache) /\ Len(cache.order) = Capacity
  <2>1. PICK victim \in Cached(cache) :
              /\ \A m \in Cached(cache) \ {victim} : <<victim, m>> \in Before(cache.order)
              /\ Stored(e, cache, n, d, Cached(cache) \ {victim})
    BY <1>3, <1>8, PutFull DEF e
  <2>2. Inv' /\ Policy!Store(n, d, Cached(cache) \ {victim})
    BY <1>4, <2>1
  <2>3. Policy!Oldest(victim)
    BY <1>2, <2>1 DEF Policy!Oldest, Cached
  <2>4. Policy!Cardinality(DOMAIN cache.val) = Capacity /\ n \notin DOMAIN cache.val
    BY <1>3, <1>5, <1>8 DEF Cached
  <2> QED
    BY <2>2, <2>3, <2>4 DEF Policy!StoreEvicting, Cached
<1> QED
  BY <1>3, <1>6, <1>7, <1>8

(* Every step keeps the invariant and is a step of the policy.             *)
LEMMA NextInv ==
    ASSUME Inv, [Next]_vars
    PROVE  Inv' /\ [Policy!Next]_(Policy!vars)
<1>1. CASE Next
  <2>1. PICK n \in Names : \/ GetHit(n) \/ GetMiss(n)
                           \/ \E d \in Decisions : Put(n, d)
    BY <1>1 DEF Next
  <2>2. CASE GetHit(n) \/ GetMiss(n)
    BY <2>2, GetStep DEF Policy!Next
  <2>3. CASE \E d \in Decisions : Put(n, d)
    BY <2>3, PutStep DEF Policy!Next
  <2> QED
    BY <2>1, <2>2, <2>3
<1>2. CASE UNCHANGED vars
  <2>1. cache' = cache /\ hits' = hits /\ misses' = misses /\ answer' = answer
    BY <1>2 DEF vars
  <2>2. Inv'
    BY <2>1 DEF Inv, DictOK, Cached
  <2>3. UNCHANGED Policy!vars
    BY <2>1 DEF Policy!vars, OlderPairs
  <2> QED
    BY <2>2, <2>3
<1> QED
  BY <1>1, <1>2

(* The dictionary, the counters and the answers stay what they are meant   *)
(* to be, for every capacity (cache.py:44-68).                             *)
THEOREM TypeCorrect == Spec => []TypeOK
<1>1. Inv => TypeOK
  <2> SUFFICES ASSUME Inv PROVE TypeOK
    OBVIOUS
  <2>1. cache.order \in Seq(Names) /\ Cached(cache) = Keys(cache.order)
    BY DEF Inv, DictOK, Chain
  <2>2. \A i \in DOMAIN cache.order : cache.order[i] \in Names
    BY <2>1, ElementOfSeq
  <2>3. Cached(cache) \subseteq Names
    BY <2>1, <2>2 DEF Keys
  <2> QED
    BY <2>1, <2>3 DEF Inv, DictOK, TypeOK
<1> QED
  BY <1>1, InitInv, NextInv, PTL DEF Spec

(* The recency list never drifts from the map, and the cache never grows   *)
(* past its capacity, whatever is looked up, put and evicted               *)
(* (cache.py:52-68).                                                       *)
THEOREM OrderAgrees == Spec => []OrderMatchesEntries
<1>1. Inv => OrderMatchesEntries
  BY DEF Inv, DictOK, Chain, Keys, OrderMatchesEntries
<1> QED
  BY <1>1, InitInv, NextInv, PTL DEF Spec

(* DecisionCache is a least-recently-used cache: each of its steps is one  *)
(* of LruPolicy, or none (cache.py:11, 52-68).                             *)
THEOREM ImplementsPolicy == Spec => ImplementsLru
<1>1. Init => Policy!Init
  <2> SUFFICES ASSUME Init PROVE Policy!Init
    OBVIOUS
  <2>1. cache.order = << >> /\ cache.val = << >>
    BY DEF Init, EmptyDict
  <2>2. DOMAIN cache.order = {}
    BY <2>1, EmptySeq
  <2>3. OlderPairs = {}
    BY <2>2 DEF OlderPairs
  <2> QED
    BY <2>1, <2>3 DEF Init, Policy!Init
<1> QED
  BY <1>1, InitInv, NextInv, PTL DEF Spec, ImplementsLru, Policy!Spec

------------------------------------------------------------------------------
(* What the cache promises to its callers.                                 *)

(* The names that were used after n, of those on the list.                 *)
After(n) == {m \in Names : <<n, m>> \in Before(cache.order)}

(* The inductive invariant of the histories: of a cached name they know    *)
(* the decision and exactly the names used since, which are the later ones *)
(* on the list; a name that is not cached was never put, or as many others *)
(* were used since as the cache has places.                                *)
HistInv ==
    /\ lastPut \in [Names -> Decisions \cup {None}]
    /\ since \in [Names -> SUBSET Names]
    /\ \A n \in Names : IsFiniteSet(since[n])
    /\ \A n \in Cached(cache) : lastPut[n] = cache.val[n] /\ since[n] = After(n)
    /\ \A n \in Names \ Cached(cache) :
          lastPut[n] = None \/ Cardinality(since[n]) >= Capacity

(* A name is not after itself, and of two names one is after the other in  *)
(* one way only.                                                           *)
LEMMA BeforeStrict ==
    ASSUME NEW s, Chain(s), NEW m, NEW n, <<m, n>> \in Before(s)
    PROVE  m # n /\ <<n, m>> \notin Before(s)
<1>1. /\ DOMAIN s = 1..Len(s) /\ Len(s) \in Nat
      /\ \A i, j \in DOMAIN s : s[i] = s[j] => i = j
  BY DEF Chain, Distinct
<1>2. PICK i, j \in DOMAIN s : i < j /\ <<m, n>> = <<s[i], s[j]>>
  BY BeforeMember
<1>3. m = s[i] /\ n = s[j]
  BY <1>2
<1>4. m # n
  BY <1>1, <1>2, <1>3
<1>5. ASSUME <<n, m>> \in Before(s)
      PROVE  FALSE
  <2>1. PICK k, l \in DOMAIN s : k < l /\ <<n, m>> = <<s[k], s[l]>>
    BY <1>5, BeforeMember
  <2>2. k = j /\ l = i
    BY <1>1, <1>3, <2>1
  <2> QED
    BY <1>1, <1>2, <2>1, <2>2
<1> QED
  BY <1>4, <1>5

(* Using n adds it, and nothing else, to what was used since the other     *)
(* names.                                                                  *)
LEMMA UsedSince ==
    ASSUME since \in [Names -> SUBSET Names], NEW n \in Names, Used(n),
           \A m \in Names : IsFiniteSet(since[m])
    PROVE  /\ since' \in [Names -> SUBSET Names]
           /\ since'[n] = {}
           /\ \A m \in Names \ {n} : since'[m] = since[m] \cup {n}
           /\ \A m \in Names : IsFiniteSet(since'[m])
           /\ \A m \in Names \ {n} : Cardinality(since'[m]) >= Cardinality(since[m])
<1>1. since' = [m \in Names |-> IF m = n THEN {} ELSE since[m] \cup {n}]
  BY DEF Used
<1>2. /\ since' \in [Names -> SUBSET Names] /\ since'[n] = {}
      /\ \A m \in Names \ {n} : since'[m] = since[m] \cup {n}
  BY <1>1
<1>3. ASSUME NEW m \in Names \ {n}
      PROVE  IsFiniteSet(since'[m]) /\ Cardinality(since'[m]) >= Cardinality(since[m])
  <2>1. IsFiniteSet(since[m]) /\ since'[m] = since[m] \cup {n}
    BY <1>2
  <2>2. /\ IsFiniteSet(since[m] \cup {n})
        /\ Cardinality(since[m] \cup {n}) =
               IF n \in since[m] THEN Cardinality(since[m]) ELSE Cardinality(since[m]) + 1
    BY <2>1, FS_AddElement
  <2>3. Cardinality(since[m]) \in Nat
    BY <2>1, FS_CardinalityType
  <2> QED
    BY <2>1, <2>2, <2>3
<1>4. IsFiniteSet(since'[n])
  BY <1>2, FS_EmptySet
<1> QED
  BY <1>2, <1>3, <1>4

(* After the use of n, by a step of which the policy says that it is the   *)
(* latest of the names kept and n, the later names on the list are again   *)
(* those used since.  Only a name before all that are kept was given up.   *)
LEMMA LatestSince ==
    ASSUME Inv, HistInv, Inv', NEW n \in Names, Used(n),
           NEW kept \in SUBSET Cached(cache), Cached(cache)' = kept \cup {n},
           Before(cache'.order) = Policy!Latest(Before(cache.order), kept \cup {n}, n),
           \A g \in Cached(cache) \ kept :
               \A m \in kept : <<m, g>> \notin Before(cache.order)
    PROVE  \A m \in Cached(cache)' : since'[m] = After(m)'
<1> DEFINE old == Before(cache.order)
           new == Before(cache'.order)
<1>1. Cached(cache) = Keys(cache.order) /\ Cached(cache) \subseteq Names
  <2>1. cache.order \in Seq(Names) /\ Cached(cache) = Keys(cache.order)
    BY DEF Inv, DictOK, Chain
  <2>2. \A i \in DOMAIN cache.order : cache.order[i] \in Names
    BY <2>1, ElementOfSeq
  <2> QED
    BY <2>1, <2>2 DEF Keys
<1>2. /\ since'[n] = {}
      /\ \A m \in Names \ {n} : since'[m] = since[m] \cup {n}
  BY UsedSince DEF HistInv
<1>3. \A q : q \in new <=>
            \/ /\ q \in old /\ n \notin {q[1], q[2]}
               /\ q[1] \in kept \cup {n} /\ q[2] \in kept \cup {n}
            \/ \E m \in (kept \cup {n}) \ {n} : q = <<m, n>>
  BY DEF Policy!Latest
<1>4. \A m : After(m)' = {x \in Names : <<m, x>> \in new}
  BY DEF After
<1>5. \A m \in Cached(cache) : since[m] = {x \in Names : <<m, x>> \in old}
  BY DEF HistInv, After
<1>6. \A q \in old : q[1] \in Cached(cache) /\ q[2] \in Cached(cache)
  BY <1>1, BeforeKeys
<1> HIDE DEF old, new
<1>7. After(n)' = {}
  <2>1. \A x : <<n, x>> \notin new
    <3> SUFFICES ASSUME NEW x, <<n, x>> \in new PROVE FALSE
      OBVIOUS
    <3>1. <<n, x>>[1] = n
      OBVIOUS
    <3>2. \A m \in (kept \cup {n}) \ {n} : <<n, x>> # <<m, n>>
      OBVIOUS
    <3> QED
      BY <1>3, <3>1, <3>2
  <2> QED
    BY <1>4, <2>1
<1>8. ASSUME NEW m \in kept, m # n
      PROVE  since'[m] = After(m)'
  <2>1. m \in Cached(cache) /\ m \in Names
    BY <1>1
  <2>2. ASSUME NEW x \in Names, <<m, x>> \in new
        PROVE  x \in since[m] \cup {n}
    <3>1. <<m, x>>[1] = m /\ <<m, x>>[2] = x
      OBVIOUS
    <3>2. CASE <<m, x>> \in old
      BY <1>5, <2>1, <3>2
    <3>3. CASE \E k \in (kept \cup {n}) \ {n} : <<m, x>> = <<k, n>>
      BY <3>3
    <3> QED
      BY <1>3, <2>2, <3>2, <3>3
  <2>3. <<m, n>> \in new
    <3>1. m \in (kept \cup {n}) \ {n}
      BY <1>8
    <3> QED
      BY <1>3, <3>1
  <2>4. ASSUME NEW x \in since[m], x # n
        PROVE  x \in Names /\ <<m, x>> \in new
    <3>1. x \in Names /\ <<m, x>> \in old
      BY <1>5, <2>1, <2>4
    <3>2. <<m, x>>[1] = m /\ <<m, x>>[2] = x
      OBVIOUS
    <3>3. x \in Cached(cache)
      BY <1>6, <3>1, <3>2
    <3>4. x \in kept
      BY <3>1, <3>3 DEF old
    <3> QED
      BY <1>3, <1>8, <2>4, <3>1, <3>2, <3>4
  <2>5. since'[m] = since[m] \cup {n}
    BY <1>2, <1>8, <2>1
  <2>6. After(m)' = {x \in Names : <<m, x>> \in new}
    BY <1>4
  <2>7. ASSUME NEW x \in since'[m]
        PROVE  x \in After(m)'
    BY <2>3, <2>4, <2>5, <2>6
  <2>8. ASSUME NEW x \in After(m)'
        PROVE  x \in since'[m]
    BY <2>2, <2>5, <2>6
  <2> QED
    BY <2>7, <2>8
<1> QED
  BY <1>2, <1>7, <1>8

(* The two invariants hold initially, and the histories say nothing then.  *)
LEMMA HistInit == MCInit => HistInv
<1> SUFFICES ASSUME MCInit PROVE HistInv
  OBVIOUS
<1>1. /\ lastPut = [n \in Names |-> None] /\ since = [n \in Names |-> {}]
      /\ cache.val = << >>
  BY DEF MCInit, Init, EmptyDict
<1>2. Cached(cache) = {}
  BY <1>1 DEF Cached
<1>3. \A n \in Names : IsFiniteSet(since[n])
  BY <1>1, FS_EmptySet
<1> QED
  BY <1>1, <1>2, <1>3 DEF HistInv

(* A hit refreshes the name and leaves what was put as it is.              *)
LEMMA HistHit ==
    ASSUME Inv, HistInv, NEW n \in Names, GetHit(n), Used(n), UNCHANGED lastPut
    PROVE  HistInv'
<1>1. n \in Cached(cache) /\ cache' = MoveToEnd(cache, n)
  BY DEF GetHit, AfterGet
<1>2. /\ MoveToEnd(cache, n).val = cache.val
      /\ Before(MoveToEnd(cache, n).order) =
             Policy!Latest(Before(cache.order), Cached(cache), n)
  BY <1>1, MovedToEnd DEF Inv
<1>3. /\ cache'.val = cache.val /\ Cached(cache)' = Cached(cache)
      /\ Cached(cache) \cup {n} = Cached(cache)
      /\ Before(cache'.order) = Policy!Latest(Before(cache.order), Cached(cache) \cup {n}, n)
  BY <1>1, <1>2 DEF Cached
<1>4. Inv'
  BY GetStep
<1>5. \A m \in Cached(cache)' : since'[m] = After(m)'
  <2> DEFINE kept == Cached(cache)
  <2>1. /\ kept \in SUBSET Cached(cache) /\ Cached(cache)' = kept \cup {n}
        /\ Before(cache'.order) = Policy!Latest(Before(cache.order), kept \cup {n}, n)
        /\ \A g \in Cached(cache) \ kept :
              \A m \in kept : <<m, g>> \notin Before(cache.order)
    BY <1>3
  <2> HIDE DEF kept
  <2> QED
    BY <1>4, <2>1, LatestSince
<1>6. /\ since' \in [Names -> SUBSET Names]
      /\ \A m \in Names : IsFiniteSet(since'[m])
      /\ \A m \in Names \ {n} : Cardinality(since'[m]) >= Cardinality(since[m])
  BY UsedSince DEF HistInv
<1>7. \A m \in Names \ Cached(cache)' :
          lastPut'[m] = None \/ Cardinality(since'[m]) >= Capacity
  <2> SUFFICES ASSUME NEW m \in Names \ Cached(cache), lastPut[m] # None
               PROVE  Cardinality(since'[m]) >= Capacity
    BY <1>3
  <2>1. m # n /\ Cardinality(since[m]) >= Capacity
    BY <1>1 DEF HistInv
  <2>2. Cardinality(since[m]) \in Nat /\ Cardinality(since'[m]) \in Nat
    BY <1>6, FS_CardinalityType DEF HistInv
  <2>3. Cardinality(since'[m]) >= Cardinality(since[m])
    BY <1>6, <2>1
  <2> QED
    BY <2>1, <2>2, <2>3, CapacityAssumption
<1>8. \A m \in Cached(cache)' : lastPut'[m] = cache'.val[m]
  BY <1>3 DEF HistInv
<1> QED
  BY <1>5, <1>6, <1>7, <1>8 DEF HistInv

(* A put is what the histories then know of the name, and the name that    *)
(* makes room has seen every place of the cache used since.                *)
LEMMA HistPut ==
    ASSUME Inv, HistInv, NEW n \in Names, NEW d \in Decisions, Put(n, d), Used(n),
           lastPut' = [lastPut EXCEPT ![n] = d]
    PROVE  HistInv'
<1> DEFINE gone == Cached(cache) \ Cached(cache)'
<1>1. Inv' /\ (Policy!StoreWithRoom(n, d) \/ Policy!StoreEvicting(n, d))
  BY PutStep
<1>2. /\ since' \in [Names -> SUBSET Names]
      /\ \A m \in Names \ {n} : since'[m] = since[m] \cup {n}
      /\ \A m \in Names : IsFiniteSet(since'[m])
      /\ \A m \in Names \ {n} : Cardinality(since'[m]) >= Cardinality(since[m])
  BY UsedSince DEF HistInv
<1>3. OlderPairs' = Before(cache'.order) /\ OlderPairs = Before(cache.order)
  BY DEF OlderPairs, Before
<1>4. /\ IsFiniteSet(Cached(cache)) /\ Cached(cache) = Keys(cache.order)
      /\ Chain(cache.order)
  BY KeysCounted DEF Inv, DictOK
<1>5. PICK kept \in SUBSET Cached(cache) :
          /\ Policy!Store(n, d, kept)
          /\ \A g \in Cached(cache) \ kept :
                /\ n \notin Cached(cache)
                /\ Policy!Cardinality(Cached(cache)) = Capacity
                /\ kept = Cached(cache) \ {g}
                /\ \A m \in kept : <<g, m>> \in Before(cache.order)
  <2>1. CASE Policy!StoreWithRoom(n, d)
    BY <2>1 DEF Policy!StoreWithRoom, Cached
  <2>2. CASE Policy!StoreEvicting(n, d)
    <3>1. PICK victim \in Cached(cache) :
              Policy!Oldest(victim) /\ Policy!Store(n, d, Cached(cache) \ {victim})
      BY <2>2 DEF Policy!StoreEvicting, Cached
    <3>2. /\ n \notin Cached(cache) /\ Policy!Cardinality(Cached(cache)) = Capacity
      BY <2>2 DEF Policy!StoreEvicting, Cached
    <3>3. \A m \in Cached(cache) \ {victim} : <<victim, m>> \in Before(cache.order)
      BY <1>3, <3>1 DEF Policy!Oldest, Cached
    <3>4. \A g \in Cached(cache) \ (Cached(cache) \ {victim}) : g = victim
      OBVIOUS
    <3> QED
      BY <3>1, <3>2, <3>3, <3>4
  <2> QED
    BY <1>1, <2>1, <2>2
<1>6. /\ cache'.val = [m \in kept \cup {n} |-> IF m = n THEN d ELSE cache.val[m]]
      /\ Before(cache'.order) = Policy!Latest(Before(cache.order), kept \cup {n}, n)
      /\ Cached(cache)' = kept \cup {n}
  BY <1>3, <1>5 DEF Policy!Store, Cached
<1>7. \A g \in Cached(cache) \ kept : \A m \in kept : <<m, g>> \notin Before(cache.order)
  BY <1>4, <1>5, BeforeStrict
<1>8. \A m \in Cached(cache)' : since'[m] = After(m)'
  BY <1>1, <1>6, <1>7, LatestSince
<1>9. /\ lastPut' \in [Names -> Decisions \cup {None}] /\ lastPut'[n] = d
      /\ \A m \in Names \ {n} : lastPut'[m] = lastPut[m]
  BY DEF HistInv
<1>10. Cached(cache) \subseteq Names
  <2>1. \A i \in DOMAIN cache.order : cache.order[i] \in Names
    BY <1>4, ElementOfSeq DEF Chain
  <2> QED
    BY <1>4, <2>1 DEF Keys
<1>11. \A m \in Cached(cache)' : lastPut'[m] = cache'.val[m]
  BY <1>6, <1>9, <1>10 DEF HistInv
<1>12. ASSUME NEW m \in Names \ Cached(cache)'
       PROVE  lastPut'[m] = None \/ Cardinality(since'[m]) >= Capacity
  <2>1. m # n /\ m \notin kept
    BY <1>6
  <2>2. CASE m \in Cached(cache)
    <3>1. /\ n \notin Cached(cache) /\ kept = Cached(cache) \ {m}
          /\ Policy!Cardinality(Cached(cache)) = Capacity
          /\ \A k \in kept : <<m, k>> \in Before(cache.order)
      BY <1>5, <2>1, <2>2
    <3>2. kept \subseteq since[m]
      BY <1>10, <2>2, <3>1 DEF HistInv, After
    <3>3. since'[m] = since[m] \cup {n}
      BY <1>2, <2>1
    <3>4. kept \cup {n} \in SUBSET since'[m] /\ IsFiniteSet(since'[m])
      BY <1>2, <3>2, <3>3
    <3>5. Cardinality(kept \cup {n}) <= Cardinality(since'[m])
      BY <3>4, FS_Subset
    <3>6. IsFiniteSet(kept) /\ Cardinality(kept) = Cardinality(Cached(cache)) - 1
      BY <1>4, <2>2, <3>1, FS_RemoveElement
    <3>7. Cardinality(kept \cup {n}) = Cardinality(kept) + 1
      BY <3>1, <3>6, FS_AddElement
    <3>8. Cardinality(Cached(cache)) = Capacity
      BY <3>1 DEF Policy!Cardinality, Cardinality
    <3>9. Cardinality(since'[m]) \in Nat
      BY <3>4, FS_CardinalityType
    <3> QED
      BY <3>5, <3>6, <3>7, <3>8, <3>9, CapacityAssumption
  <2>3. CASE m \notin Cached(cache)
    <3>1. lastPut[m] = None \/ Cardinality(since[m]) >= Capacity
      BY <2>3 DEF HistInv
    <3>2. Cardinality(since[m]) \in Nat /\ Cardinality(since'[m]) \in Nat
      BY <1>2, FS_CardinalityType DEF HistInv
    <3>3. Cardinality(since'[m]) >= Cardinality(since[m]) /\ lastPut'[m] = lastPut[m]
      BY <1>2, <1>9, <2>1
    <3> QED
      BY <3>1, <3>2, <3>3, CapacityAssumption
  <2> QED
    BY <2>2, <2>3
<1> QED
  BY <1>2, <1>8, <1>9, <1>11, <1>12 DEF HistInv

(* Every step keeps the histories true, and a hit answers from them.       *)
LEMMA HistNext ==
    ASSUME Inv, HistInv, [MCNext]_mcVars
    PROVE  HistInv' /\ [\A n \in Names : GetHit(n) => answer' = lastPut[n]]_mcVars
<1>1. CASE MCNext
  <2>1. PICK n \in Names :
            \/ GetHit(n) /\ Used(n) /\ UNCHANGED lastPut
            \/ GetMiss(n) /\ UNCHANGED <<lastPut, since>>
            \/ \E d \in Decisions :
                  Put(n, d) /\ Used(n) /\ lastPut' = [lastPut EXCEPT ![n] = d]
    BY <1>1 DEF MCNext
  <2>2. ASSUME GetHit(n) /\ Used(n) /\ UNCHANGED lastPut
        PROVE  HistInv'
    BY <2>2, HistHit
  <2>3. ASSUME GetMiss(n) /\ UNCHANGED <<lastPut, since>>
        PROVE  HistInv'
    <3>1. cache' = cache
      BY <2>3 DEF GetMiss, AfterGet
    <3> QED
      BY <2>3, <3>1 DEF HistInv, Cached, After
  <2>4. ASSUME \E d \in Decisions :
                   Put(n, d) /\ Used(n) /\ lastPut' = [lastPut EXCEPT ![n] = d]
        PROVE  HistInv'
    BY <2>4, HistPut
  <2>5. HistInv'
    BY <2>1, <2>2, <2>3, <2>4
  <2>6. ASSUME NEW m \in Names, GetHit(m)
        PROVE  answer' = lastPut[m]
    BY <2>6 DEF GetHit, HistInv
  <2> QED
    BY <2>5, <2>6
<1>2. CASE UNCHANGED mcVars
  BY <1>2 DEF mcVars, vars, HistInv, Cached, After
<1> QED
  BY <1>1, <1>2

(* MCDecisionCache makes the steps of DecisionCache.                       *)
LEMMA HistorySteps == [MCNext]_mcVars => [Next]_vars
<1>1. MCNext => Next
  BY DEF MCNext, Next
<1> QED
  BY <1>1 DEF mcVars

(* A name is cached exactly when it was put and fewer than Capacity other  *)
(* names were used since, for every capacity and every history of use      *)
(* (cache.py:57, 63, 66-67).                                               *)
THEOREM KeepsTheRecent == MCSpec => []KeepsExactlyTheRecent
<1>1. MCInit => Inv /\ HistInv
  BY InitInv, HistInit DEF MCInit
<1>2. Inv /\ HistInv /\ [MCNext]_mcVars => Inv' /\ HistInv'
  BY HistorySteps, NextInv, HistNext
<1>3. Inv /\ HistInv => KeepsExactlyTheRecent
  <2> SUFFICES ASSUME Inv, HistInv PROVE KeepsExactlyTheRecent
    OBVIOUS
  <2>1. /\ Chain(cache.order) /\ Cached(cache) = Keys(cache.order)
        /\ Len(cache.order) \in Nat /\ Len(cache.order) <= Capacity
        /\ \A i \in DOMAIN cache.order : cache.order[i] \in Names
    BY ElementOfSeq, LenProperties DEF Inv, DictOK, Chain
  <2>2. Cached(cache) \subseteq Names
    BY <2>1 DEF Keys
  <2>3. ASSUME NEW n \in Cached(cache)
        PROVE  Live(n)
    <3>1. lastPut[n] = cache.val[n] /\ since[n] = After(n)
      BY DEF HistInv
    <3>2. lastPut[n] # None
      BY <3>1, NoneAssumption DEF Inv, DictOK
    <3>3. since[n] \in SUBSET (Cached(cache) \ {n})
      <4> SUFFICES ASSUME NEW m \in since[n] PROVE m \in Cached(cache) /\ m # n
        OBVIOUS
      <4>1. <<n, m>> \in Before(cache.order) /\ <<n, m>>[2] = m
        BY <3>1 DEF After
      <4> QED
        BY <2>1, <4>1, BeforeKeys, BeforeStrict
    <3>4. IsFiniteSet(Cached(cache)) /\ Cardinality(Cached(cache)) = Len(cache.order)
      BY <2>1, KeysCounted
    <3>5. /\ IsFiniteSet(Cached(cache) \ {n})
          /\ Cardinality(Cached(cache) \ {n}) = Len(cache.order) - 1
      BY <3>4, FS_RemoveElement
    <3>6. Cardinality(since[n]) <= Len(cache.order) - 1
      BY <3>3, <3>5, FS_Subset
    <3>7. Cardinality(since[n]) \in Nat
      BY <2>2, FS_CardinalityType DEF HistInv
    <3> QED
      BY <2>1, <3>2, <3>6, <3>7, CapacityAssumption DEF Live
  <2>4. ASSUME NEW n \in Names \ Cached(cache)
        PROVE  ~Live(n)
    <3>1. Cardinality(since[n]) \in Nat
      BY FS_CardinalityType DEF HistInv
    <3>2. lastPut[n] = None \/ Cardinality(since[n]) >= Capacity
      BY DEF HistInv
    <3> QED
      BY <3>1, <3>2, CapacityAssumption DEF Live
  <2> QED
    BY <2>2, <2>3, <2>4 DEF KeepsExactlyTheRecent
<1> QED
  BY <1>1, <1>2, <1>3, PTL DEF MCSpec

(* A hit answers with the decision of the last put for that very name,     *)
(* whatever happened to the others in between (cache.py:52-68).            *)
THEOREM HitsAreCurrent == MCSpec => HitReturnsLastPut
<1>1. MCInit => Inv /\ HistInv
  BY InitInv, HistInit DEF MCInit
<1>2. /\ Inv /\ HistInv /\ [MCNext]_mcVars => Inv' /\ HistInv'
      /\ Inv /\ HistInv /\ [MCNext]_mcVars =>
             [\A n \in Names : GetHit(n) => answer' = lastPut[n]]_mcVars
  BY HistorySteps, NextInv, HistNext
<1> QED
  BY <1>1, <1>2, PTL DEF MCSpec, HitReturnsLastPut

==============================================================================
