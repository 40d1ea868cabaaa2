--------------------------- MODULE ExplanationProofs ---------------------------
(***************************************************************************)
(* Theorems about the reasons of decisions, for every set of names and of  *)
(* abused domains, all settings of the processes that write the log, and   *)
(* whatever the model says, the cache evicts and the purge takes away.     *)
(***************************************************************************)
EXTENDS Explanation, SequenceFacts

(* The row that a query for n leaves when its decision is d, in a process  *)
(* with the settings c.                                                    *)
Blocks(c, d)   == c.enforce /\ d.would_block
Said(c, n, d)  == IF Blocks(c, d) THEN Explain(n, d) ELSE << >>
Entry(c, n, d) ==
    [qname    |-> n,
     decision |-> IF Blocks(c, d) THEN "block" ELSE "allow",
     ml       |-> d.ml, heur |-> d.heur,
     block_source |-> d.block_source,
     signals  |-> Said(c, n, d)]

(* The rows that a verdict of the inline tier about their own name         *)
(* accounts for.                                                           *)
Entries(c) == UNION {{Entry(c, n, d) : d \in Verdicts(n, c.threshold)} : n \in Names}

AllEntries == UNION {Entries(c) : c \in Settings}

Lives == [config : Settings, signals : Seq(Codes)]

(* Row and BLOCK line are of one process and one verdict.                  *)
InStep(r, l) == r \in Entries(l.config) /\ l.signals = r.signals

EInv ==
    /\ config \in Settings
    /\ DOMAIN cache \subseteq Names
    /\ IsFiniteSet(DOMAIN cache) /\ Cardinality(DOMAIN cache) <= CacheSize
    /\ \A k \in DOMAIN cache : cache[k] \in Verdicts(k, config.threshold)
    /\ rows \in Seq(AllEntries) /\ live \in Seq(Lives)
    /\ Len(rows) <= MaxRows /\ Len(live) = Len(rows)
    /\ \A i \in 1..Len(rows) : InStep(rows[i], live[i])

------------------------------------------------------------------------------
(* The reasons of one decision.                                            *)

(* A decision of the inline tier: from the blocklist, or by the score.     *)
LEMMA VerdictShape ==
    ASSUME NEW n, NEW threshold \in Int, NEW d \in Verdicts(n, threshold)
    PROVE  /\ d.would_block \in BOOLEAN
           /\ \/ /\ d.block_source = "blocklist" /\ d.would_block
                 /\ d.ml = 0 /\ d.heur = 0
              \/ /\ d.block_source = "classifier" /\ d.would_block
                 /\ d.ml \in MlScores /\ d.ml >= threshold /\ d.heur = HeuristicScore(n)
              \/ /\ d.block_source = "none" /\ ~d.would_block
                 /\ d.ml \in MlScores /\ ~(d.ml >= threshold) /\ d.heur = HeuristicScore(n)
<1>1. CASE d = Decision(0, 0, TRUE, "blocklist")
  BY <1>1 DEF Decision
<1>2. CASE d # Decision(0, 0, TRUE, "blocklist")
  <2>1. PICK ml \in MlScores :
            d = Decision(ml, HeuristicScore(n), ml >= threshold,
                         IF ml >= threshold THEN "classifier" ELSE "none")
    BY <1>2 DEF Verdicts
  <2>2. ml \in Int
    BY ScoresAssumption
  <2>3. d.ml = ml /\ d.heur = HeuristicScore(n)
    BY <2>1 DEF Decision
  <2>4. d.block_source = IF ml >= threshold THEN "classifier" ELSE "none"
    BY <2>1 DEF Decision
  <2>5. d.would_block = (ml >= threshold)
    BY <2>1, Zenon DEF Decision
  <2>6. d.would_block \in BOOLEAN /\ (d.would_block <=> ml >= threshold)
    <3>1. (ml >= threshold) \in BOOLEAN
      BY <2>2
    <3> QED
      BY <2>5, <3>1, Zenon
  <2>7. CASE ml >= threshold
    BY <2>3, <2>4, <2>6, <2>7
  <2>8. CASE ~(ml >= threshold)
    BY <2>3, <2>4, <2>6, <2>8
  <2> QED
    BY <2>7, <2>8
<1> QED
  BY <1>1, <1>2

(* The score is a percentage.                                              *)
LEMMA ScoreBounded == \A n : HeuristicScore(n) \in 0..100
BY DEF HeuristicScore, Weight

(* One reason, or none.                                                    *)
LEMMA WhenSet ==
    /\ << >> \in Seq(Codes) /\ ToSet(<< >>) = {}
    /\ \A code \in Codes : <<code>> \in Seq(Codes) /\ ToSet(<<code>>) = {code}
<1>1. << >> \in Seq(Codes) /\ ToSet(<< >>) = {}
  BY EmptySet
<1>2. ASSUME NEW code \in Codes
      PROVE  <<code>> \in Seq(Codes) /\ ToSet(<<code>>) = {code}
  <2>1. DOMAIN <<code>> = {1} /\ <<code>>[1] = code
    OBVIOUS
  <2> QED
    BY <2>1 DEF ToSet
<1> QED
  BY <1>1, <1>2

(* The reasons of the stronger and the weaker signal exclude each other.   *)
LEMMA GradedSet ==
    ASSUME NEW signals, NEW strong \in Codes, NEW weak \in Codes
    PROVE  /\ Graded(signals, strong, weak) \in Seq(Codes)
           /\ ToSet(Graded(signals, strong, weak)) \subseteq
                 {c \in {strong} : strong \in signals}
                     \cup {c \in {weak} : strong \notin signals}
<1> DEFINE s == When(strong \in signals, strong)
           w == When(weak \in signals /\ strong \notin signals, weak)
<1>1. /\ s \in Seq(Codes) /\ ToSet(s) \subseteq {c \in {strong} : strong \in signals}
  BY WhenSet DEF When
<1>2. /\ w \in Seq(Codes)
      /\ ToSet(w) \subseteq {c \in {weak} : weak \in signals /\ strong \notin signals}
  BY WhenSet DEF When
<1> HIDE DEF s, w
<1>3. s \o w \in Seq(Codes) /\ ToSet(s \o w) \subseteq ToSet(s) \cup ToSet(w)
  BY <1>1, <1>2, JoinedSet, ConcatProperties
<1> QED
  BY <1>1, <1>2, <1>3 DEF Graded, s, w

(* The reasons that the heuristics give.                                   *)
LEMMA HeuristicsSet ==
    ASSUME NEW n
    PROVE  /\ HeuristicReasons(n) \in Seq(Codes)
           /\ ToSet(HeuristicReasons(n)) \subseteq Codes \ {"blocklist", "lexical_classifier"}
           /\ ~({"high_entropy", "very_high_entropy"} \subseteq ToSet(HeuristicReasons(n)))
           /\ ~({"long", "very_long"} \subseteq ToSet(HeuristicReasons(n)))
<1> DEFINE Told(code) == When(code \in Signals(n), code)
           tld     == Told("abused_tld")
           entropy == Graded(Signals(n), "very_high_entropy", "high_entropy")
           length  == Graded(Signals(n), "very_long", "long")
           digits  == Told("digit_heavy")
           dashes  == Told("many_dashes")
           hex     == Told("hex_label")
           run     == Told("consonant_run")
<1>1. /\ {"abused_tld", "digit_heavy", "many_dashes", "hex_label", "consonant_run",
          "very_high_entropy", "high_entropy", "very_long", "long"} \subseteq Codes
      /\ "blocklist" \in Codes /\ "lexical_classifier" \in Codes
  BY DEF Codes, Marks
<1>2. \A code \in Codes : Told(code) \in Seq(Codes) /\ ToSet(Told(code)) \subseteq {code}
  BY WhenSet DEF When
<1>3. /\ entropy \in Seq(Codes)
      /\ ToSet(entropy) \subseteq
            {c \in {"very_high_entropy"} : "very_high_entropy" \in Signals(n)}
               \cup {c \in {"high_entropy"} : "very_high_entropy" \notin Signals(n)}
  BY <1>1, GradedSet
<1>4. /\ length \in Seq(Codes)
      /\ ToSet(length) \subseteq
            {c \in {"very_long"} : "very_long" \in Signals(n)}
               \cup {c \in {"long"} : "very_long" \notin Signals(n)}
  BY <1>1, GradedSet
<1>5. /\ tld \in Seq(Codes) /\ ToSet(tld) \subseteq {"abused_tld"}
      /\ digits \in Seq(Codes) /\ ToSet(digits) \subseteq {"digit_heavy"}
      /\ dashes \in Seq(Codes) /\ ToSet(dashes) \subseteq {"many_dashes"}
      /\ hex \in Seq(Codes) /\ ToSet(hex) \subseteq {"hex_label"}
      /\ run \in Seq(Codes) /\ ToSet(run) \subseteq {"consonant_run"}
  BY <1>1, <1>2
<1>6. HeuristicReasons(n) = tld \o entropy \o length \o digits \o dashes \o hex \o run
  BY DEF HeuristicReasons
<1> HIDE DEF Told, tld, entropy, length, digits, dashes, hex, run
<1>7. \A s, t \in Seq(Codes) : s \o t \in Seq(Codes) /\ ToSet(s \o t) \subseteq ToSet(s) \cup ToSet(t)
  BY JoinedSet, ConcatProperties
<1>8. /\ tld \o entropy \o length \o digits \in Seq(Codes)
      /\ ToSet(tld \o entropy \o length \o digits) \subseteq
            ToSet(tld) \cup ToSet(entropy) \cup ToSet(length) \cup ToSet(digits)
  <2>1. /\ tld \o entropy \in Seq(Codes)
        /\ ToSet(tld \o entropy) \subseteq ToSet(tld) \cup ToSet(entropy)
    BY <1>3, <1>5, <1>7
  <2>2. /\ tld \o entropy \o length \in Seq(Codes)
        /\ ToSet(tld \o entropy \o length) \subseteq ToSet(tld \o entropy) \cup ToSet(length)
    BY <1>4, <1>7, <2>1
  <2>3. /\ tld \o entropy \o length \o digits \in Seq(Codes)
        /\ ToSet(tld \o entropy \o length \o digits)
              \subseteq ToSet(tld \o entropy \o length) \cup ToSet(digits)
    BY <1>5, <1>7, <2>2
  <2> QED
    BY <2>1, <2>2, <2>3
<1> DEFINE front == tld \o entropy \o length \o digits
<1> HIDE DEF front
<1>9. /\ front \o dashes \o hex \o run \in Seq(Codes)
      /\ ToSet(front \o dashes \o hex \o run) \subseteq
            ToSet(front) \cup ToSet(dashes) \cup ToSet(hex) \cup ToSet(run)
  <2>1. /\ front \o dashes \in Seq(Codes)
        /\ ToSet(front \o dashes) \subseteq ToSet(front) \cup ToSet(dashes)
    BY <1>5, <1>7, <1>8 DEF front
  <2>2. /\ front \o dashes \o hex \in Seq(Codes)
        /\ ToSet(front \o dashes \o hex) \subseteq ToSet(front \o dashes) \cup ToSet(hex)
    BY <1>5, <1>7, <2>1
  <2>3. /\ front \o dashes \o hex \o run \in Seq(Codes)
        /\ ToSet(front \o dashes \o hex \o run)
              \subseteq ToSet(front \o dashes \o hex) \cup ToSet(run)
    BY <1>5, <1>7, <2>2
  <2> QED
    BY <2>1, <2>2, <2>3
<1>10. /\ HeuristicReasons(n) \in Seq(Codes)
       /\ ToSet(HeuristicReasons(n)) \subseteq
             ToSet(entropy) \cup ToSet(length) \cup
             {"abused_tld", "digit_heavy", "many_dashes", "hex_label", "consonant_run"}
  <2>1. HeuristicReasons(n) = front \o dashes \o hex \o run
    BY <1>6 DEF front
  <2>2. ToSet(front) \subseteq
            ToSet(tld) \cup ToSet(entropy) \cup ToSet(length) \cup ToSet(digits)
    BY <1>8 DEF front
  <2> QED
    BY <1>5, <1>9, <2>1, <2>2
<1> QED
  BY <1>1, <1>3, <1>4, <1>10

(* The source of a block is one reason, the first one.                     *)
LEMMA SourceFirst ==
    ASSUME NEW n, NEW d
    PROVE  /\ Explain(n, d) \in Seq(Codes)
           /\ ~({"high_entropy", "very_high_entropy"} \subseteq ToSet(Explain(n, d)))
           /\ ~({"long", "very_long"} \subseteq ToSet(Explain(n, d)))
           /\ d.block_source = "blocklist" =>
                 Explain(n, d) # << >> /\ Head(Explain(n, d)) = "blocklist"
           /\ d.block_source = "classifier" =>
                 Explain(n, d) # << >> /\ Head(Explain(n, d)) = "lexical_classifier"
<1> DEFINE source == SourceReason(d)
           heur   == HeuristicReasons(n)
<1>1. {"blocklist", "lexical_classifier"} \subseteq Codes
  BY DEF Codes
<1>2. /\ source \in Seq(Codes) /\ ToSet(source) \subseteq {"blocklist", "lexical_classifier"}
      /\ d.block_source = "blocklist" => source = <<"blocklist">>
      /\ d.block_source = "classifier" => source = <<"lexical_classifier">>
  <2> DEFINE b == When(d.block_source = "blocklist", "blocklist")
             c == When(d.block_source = "classifier", "lexical_classifier")
  <2>1. /\ b \in Seq(Codes) /\ ToSet(b) \subseteq {"blocklist"}
        /\ c \in Seq(Codes) /\ ToSet(c) \subseteq {"lexical_classifier"}
    BY <1>1, WhenSet DEF When
  <2>2. b \o c \in Seq(Codes) /\ ToSet(b \o c) \subseteq ToSet(b) \cup ToSet(c)
    BY <2>1, JoinedSet, ConcatProperties
  <2>3. /\ d.block_source = "blocklist" => b = <<"blocklist">> /\ c = << >>
        /\ d.block_source = "classifier" => b = << >> /\ c = <<"lexical_classifier">>
    BY DEF When
  <2>4. source = b \o c
    BY DEF SourceReason
  <2> QED
    <3>1. source \in Seq(Codes) /\ ToSet(source) \subseteq {"blocklist", "lexical_classifier"}
      BY <2>1, <2>2, <2>4
    <3>2. << >> \in Seq(Codes) /\ b \o << >> = b /\ << >> \o c = c
      BY <2>1, ConcatEmptySeq, WhenSet
    <3>3. ASSUME d.block_source = "blocklist" PROVE source = <<"blocklist">>
      BY <2>3, <2>4, <3>2, <3>3
    <3>4. ASSUME d.block_source = "classifier" PROVE source = <<"lexical_classifier">>
      BY <2>3, <2>4, <3>2, <3>4
    <3> QED
      BY <3>1, <3>3, <3>4
<1>3. /\ heur \in Seq(Codes)
      /\ ToSet(heur) \subseteq Codes \ {"blocklist", "lexical_classifier"}
      /\ ~({"high_entropy", "very_high_entropy"} \subseteq ToSet(heur))
      /\ ~({"long", "very_long"} \subseteq ToSet(heur))
  BY HeuristicsSet
<1>4. Explain(n, d) = source \o heur
  BY DEF Explain
<1> HIDE DEF source, heur
<1>5. /\ source \o heur \in Seq(Codes)
      /\ ToSet(source \o heur) \subseteq ToSet(source) \cup ToSet(heur)
  BY <1>2, <1>3, JoinedSet, ConcatProperties
<1>6. ASSUME NEW code, source = <<code>>
      PROVE  source \o heur # << >> /\ Head(source \o heur) = code
  <2>1. Len(source) = 1 /\ source[1] = code
    BY <1>6
  <2>2. Len(heur) \in Nat
    BY <1>3, LenProperties
  <2>3. Len(source \o heur) = 1 + Len(heur) /\ (source \o heur)[1] = code
    <3>1. /\ Len(source \o heur) = Len(source) + Len(heur)
          /\ \A i \in 1..(Len(source) + Len(heur)) :
                (source \o heur)[i] = IF i <= Len(source) THEN source[i]
                                                         ELSE heur[i - Len(source)]
      BY <1>2, <1>3, ConcatProperties
    <3>2. 1 \in 1..(Len(source) + Len(heur)) /\ 1 <= Len(source)
      BY <2>1, <2>2
    <3> QED
      BY <2>1, <3>1, <3>2
  <2>4. source \o heur # << >>
    BY <1>5, <2>2, <2>3, EmptySeq
  <2> QED
    BY <1>5, <2>3, <2>4, HeadTailProperties
<1>7. /\ ~({"high_entropy", "very_high_entropy"} \subseteq ToSet(source \o heur))
      /\ ~({"long", "very_long"} \subseteq ToSet(source \o heur))
  BY <1>2, <1>3, <1>5
<1> QED
  BY <1>2, <1>4, <1>5, <1>6, <1>7

(* The reasons depend on the name and on the source of the decision.       *)
LEMMA SameSource ==
    ASSUME NEW n, NEW d, NEW e, d.block_source = e.block_source
    PROVE  Explain(n, d) = Explain(n, e)
BY DEF Explain, SourceReason

------------------------------------------------------------------------------
(* What holds of a row by itself.                                          *)

(* The row r is what verdict d about n leaves under the settings c.        *)
From(c, r, n, d) ==
    /\ r.qname = n /\ r.ml = d.ml /\ r.heur = d.heur
    /\ r.block_source = d.block_source
    /\ r.signals = Said(c, n, d)
    /\ r.decision = IF Blocks(c, d) THEN "block" ELSE "allow"

(* Settings are a switch and a number.                                     *)
LEMMA SettingShape ==
    ASSUME NEW c \in Settings
    PROVE  c.enforce \in BOOLEAN /\ c.threshold \in Int
BY SettingsAssumption

(* Every row of the log is one.                                            *)
LEMMA EntryShape ==
    ASSUME NEW c \in Settings, NEW r \in Entries(c)
    PROVE  \E n \in Names : \E d \in Verdicts(n, c.threshold) : From(c, r, n, d)
<1>1. PICK n \in Names : \E d \in Verdicts(n, c.threshold) : r = Entry(c, n, d)
  BY DEF Entries
<1>2. PICK d \in Verdicts(n, c.threshold) : r = Entry(c, n, d)
  BY <1>1
<1>3. From(c, r, n, d)
  BY <1>2 DEF Entry, From
<1> QED
  BY <1>3

(* A row has a name, a decision and a list of reasons; for a block, the    *)
(* readers make the same list of it, which begins with the cause.          *)
LEMMA EntryStory ==
    ASSUME NEW c \in Settings, NEW r \in Entries(c)
    PROVE  /\ r.qname \in Names /\ r.decision \in {"allow", "block"}
           /\ r.signals \in Seq(Codes)
           /\ r.decision = "block" =>
                 /\ TailReasons(r) = r.signals
                 /\ ExplainReasons(r) = r.signals
                 /\ r.signals # << >>
                 /\ Head(r.signals) = IF r.block_source = "blocklist"
                                      THEN "blocklist" ELSE "lexical_classifier"
                 /\ ~({"high_entropy", "very_high_entropy"} \subseteq ToSet(r.signals))
                 /\ ~({"long", "very_long"} \subseteq ToSet(r.signals))
<1>a. PICK n \in Names : \E d \in Verdicts(n, c.threshold) : From(c, r, n, d)
  BY EntryShape
<1>b. PICK d \in Verdicts(n, c.threshold) : From(c, r, n, d)
  BY <1>a
<1>1. /\ r.qname = n /\ r.ml = d.ml /\ r.heur = d.heur
      /\ r.block_source = d.block_source
      /\ r.signals = Said(c, n, d)
      /\ r.decision = IF Blocks(c, d) THEN "block" ELSE "allow"
  BY <1>b DEF From
<1>2. r.signals \in Seq(Codes)
  <2>1. Explain(n, d) \in Seq(Codes) /\ << >> \in Seq(Codes)
    BY SourceFirst, WhenSet
  <2> QED
    BY <1>1, <2>1 DEF Said
<1>3. ASSUME r.decision = "block"
      PROVE  /\ TailReasons(r) = r.signals
             /\ ExplainReasons(r) = r.signals
             /\ r.signals # << >>
             /\ Head(r.signals) = IF r.block_source = "blocklist"
                                  THEN "blocklist" ELSE "lexical_classifier"
             /\ ~({"high_entropy", "very_high_entropy"} \subseteq ToSet(r.signals))
             /\ ~({"long", "very_long"} \subseteq ToSet(r.signals))
  <2>1. Blocks(c, d)
    BY <1>1, <1>3
  <2>2. r.signals = Explain(n, d)
    BY <1>1, <2>1 DEF Said
  <2>3. d.block_source \in {"blocklist", "classifier"}
    BY <2>1, VerdictShape, SettingShape DEF Blocks
  <2>4. /\ TailDecision(r).block_source = d.block_source
        /\ ExplainDecision(r).block_source = d.block_source
    BY <1>1 DEF TailDecision, ExplainDecision, Decision
  <2>5. TailReasons(r) = r.signals
    BY <1>1, <1>3, <2>2, <2>4, SameSource DEF TailReasons
  <2>6. ExplainReasons(r) = r.signals
    BY <1>1, <2>2, <2>4, SameSource DEF ExplainReasons
  <2>7. /\ r.signals # << >>
        /\ Head(r.signals) = IF d.block_source = "blocklist"
                             THEN "blocklist" ELSE "lexical_classifier"
        /\ ~({"high_entropy", "very_high_entropy"} \subseteq ToSet(r.signals))
        /\ ~({"long", "very_long"} \subseteq ToSet(r.signals))
    BY <2>2, <2>3, SourceFirst
  <2> QED
    BY <1>1, <2>5, <2>6, <2>7
<1> QED
  BY <1>1, <1>2, <1>3

(* The score of a row that the classifier decided is that of its name, and *)
(* the filters select a row by its cause, a threshold of 0 or less the     *)
(* rows of the blocklist too, whose score is 0.                            *)
LEMMA EntryScores ==
    ASSUME NEW c \in Settings, NEW r \in Entries(c)
    PROVE  /\ r.block_source # "blocklist" => r.heur = HeuristicScore(r.qname)
           /\ r.ml >= c.threshold <=>
                 r.block_source = "classifier"
                    \/ (r.block_source = "blocklist" /\ c.threshold <= 0)
           /\ r.decision = "block" <=>
                 c.enforce /\ (r.block_source = "classifier" \/ r.block_source = "blocklist")
<1>a. PICK n \in Names : \E d \in Verdicts(n, c.threshold) : From(c, r, n, d)
  BY EntryShape
<1>b. PICK d \in Verdicts(n, c.threshold) : From(c, r, n, d)
  BY <1>a
<1>1. /\ r.qname = n /\ r.ml = d.ml /\ r.heur = d.heur
      /\ r.block_source = d.block_source
      /\ r.decision = IF Blocks(c, d) THEN "block" ELSE "allow"
  BY <1>b DEF From
<1>2. r.block_source # "blocklist" => r.heur = HeuristicScore(r.qname)
  BY <1>1, VerdictShape, SettingShape
<1>3. r.ml >= c.threshold <=>
          r.block_source = "classifier" \/ (r.block_source = "blocklist" /\ c.threshold <= 0)
  <2>1. c.threshold \in Int /\ (0 >= c.threshold <=> c.threshold <= 0)
    BY SettingShape
  <2> QED
    BY <1>1, <2>1, VerdictShape
<1>4. r.decision = "block" <=>
          c.enforce /\ (r.block_source = "classifier" \/ r.block_source = "blocklist")
  <2>1. r.decision = "block" <=> c.enforce /\ d.would_block
    BY <1>1, Zenon DEF Blocks
  <2>2. d.would_block <=> d.block_source = "classifier" \/ d.block_source = "blocklist"
    BY VerdictShape, SettingShape
  <2> QED
    BY <1>1, <2>1, <2>2
<1> QED
  BY <1>2, <1>3, <1>4

------------------------------------------------------------------------------
(* The invariant.                                                          *)

(* Before the first query the cache and the log are empty.                 *)
LEMMA EInit == Init => EInv
<1> SUFFICES ASSUME Init PROVE EInv
  OBVIOUS
<1>1. config \in Settings /\ DOMAIN cache = {} /\ rows = << >> /\ live = << >>
  BY DEF Init
<1>2. IsFiniteSet(DOMAIN cache) /\ Cardinality(DOMAIN cache) = 0
  BY <1>1, FS_EmptySet
<1>3. /\ << >> \in Seq(AllEntries) /\ << >> \in Seq(Lives) /\ Len(<< >>) = 0
  BY EmptySeq
<1>4. CacheSize \in Nat /\ MaxRows \in Nat
  BY BoundsAssumption
<1> QED
  BY <1>1, <1>2, <1>3, <1>4 DEF EInv

(* A new process has an empty cache; the rows are those of the old ones.   *)
LEMMA ERestart == EInv /\ Restart => EInv'
<1> SUFFICES ASSUME EInv, Restart PROVE EInv'
  OBVIOUS
<1>1. config' \in Settings /\ DOMAIN cache' = {} /\ rows' = rows /\ live' = live
  BY DEF Restart
<1>2. IsFiniteSet(DOMAIN cache') /\ Cardinality(DOMAIN cache') = 0
  BY <1>1, FS_EmptySet
<1> QED
  BY <1>1, <1>2, BoundsAssumption DEF EInv

(* A decision of the inline tier about a name is recorded.                 *)
LEMMA Recorded ==
    ASSUME EInv, NEW n \in Names, NEW d \in Verdicts(n, config.threshold), Record(n, d)
    PROVE  /\ rows' \in Seq(AllEntries) /\ live' \in Seq(Lives)
           /\ Len(rows') <= MaxRows /\ Len(live') = Len(rows')
           /\ \A i \in 1..Len(rows') : InStep(rows'[i], live'[i])
<1> DEFINE row  == Entry(config, n, d)
           line == [config |-> config, signals |-> Said(config, n, d)]
<1>1. Len(rows) < MaxRows /\ live' = Append(live, line) /\ rows' = Append(rows, row)
  BY DEF Record, Said, Entry, Blocks
<1>2. config \in Settings
  BY DEF EInv
<1>3. Said(config, n, d) \in Seq(Codes)
  BY SourceFirst, WhenSet DEF Said
<1>4. row \in Entries(config) /\ row \in AllEntries
  BY <1>2 DEF Entries, AllEntries
<1>5. line \in Lives /\ InStep(row, line)
  BY <1>2, <1>3, <1>4 DEF Lives, InStep, Entry
<1> HIDE DEF row, line
<1>6. /\ rows \in Seq(AllEntries) /\ live \in Seq(Lives) /\ Len(live) = Len(rows)
      /\ \A i \in 1..Len(rows) : InStep(rows[i], live[i])
  BY DEF EInv
<1>7. Len(rows) \in Nat /\ MaxRows \in Nat
  BY <1>6, LenProperties, BoundsAssumption
<1>8. /\ rows' \in Seq(AllEntries) /\ Len(rows') = Len(rows) + 1
      /\ \A i \in 1..Len(rows) : rows'[i] = rows[i]
      /\ rows'[Len(rows) + 1] = row
  BY <1>1, <1>4, <1>6, AppendProperties
<1>9. /\ live' \in Seq(Lives) /\ Len(live') = Len(rows) + 1
      /\ \A i \in 1..Len(rows) : live'[i] = live[i]
      /\ live'[Len(rows) + 1] = line
  BY <1>1, <1>5, <1>6, AppendProperties
<1>10. ASSUME NEW i \in 1..Len(rows') PROVE InStep(rows'[i], live'[i])
  <2>1. CASE i = Len(rows) + 1
    BY <1>5, <1>8, <1>9, <2>1
  <2>2. CASE i # Len(rows) + 1
    <3>1. i \in 1..Len(rows)
      BY <1>7, <1>8, <2>2
    <3> QED
      BY <1>6, <1>8, <1>9, <3>1
  <2> QED
    BY <2>1, <2>2
<1> QED
  BY <1>1, <1>7, <1>8, <1>9, <1>10

(* A hit records what the cache holds for the name.                        *)
LEMMA EHit ==
    ASSUME EInv, NEW n \in Names, CacheHit(n)
    PROVE  EInv'
<1>1. n \in DOMAIN cache /\ Record(n, cache[n]) /\ cache' = cache /\ config' = config
  BY DEF CacheHit, Key
<1>2. cache[n] \in Verdicts(n, config.threshold)
  BY <1>1 DEF EInv
<1>3. /\ rows' \in Seq(AllEntries) /\ live' \in Seq(Lives)
      /\ Len(rows') <= MaxRows /\ Len(live') = Len(rows')
      /\ \A i \in 1..Len(rows') : InStep(rows'[i], live'[i])
  BY <1>1, <1>2, Recorded
<1> QED
  BY <1>1, <1>3 DEF EInv

(* A miss decides, caches the decision under the name and records it.      *)
LEMMA EMiss ==
    ASSUME EInv, NEW n \in Names, CacheMiss(n)
    PROVE  EInv'
<1>1. PICK d \in Verdicts(n, config.threshold), kept \in SUBSET DOMAIN cache :
          /\ Cardinality(kept) < CacheSize
          /\ cache' = [k \in kept \cup {n} |-> IF k = n THEN d ELSE cache[k]]
          /\ Record(n, d)
  BY DEF CacheMiss, Key
<1>2. n \notin DOMAIN cache /\ config' = config
  BY DEF CacheMiss, Key
<1>3. /\ DOMAIN cache \subseteq Names /\ IsFiniteSet(DOMAIN cache) /\ config \in Settings
      /\ \A k \in DOMAIN cache : cache[k] \in Verdicts(k, config.threshold)
  BY DEF EInv
<1>4. IsFiniteSet(kept) /\ Cardinality(kept) \in Nat
  <2>1. IsFiniteSet(kept)
    BY <1>3, FS_Subset
  <2> QED
    BY <2>1, FS_CardinalityType
<1>5. DOMAIN cache' = kept \cup {n}
  BY <1>1
<1>6. IsFiniteSet(DOMAIN cache') /\ Cardinality(DOMAIN cache') = Cardinality(kept) + 1
  <2>1. n \notin kept
    BY <1>2
  <2> QED
    BY <1>4, <1>5, <2>1, FS_AddElement
<1>7. Cardinality(DOMAIN cache') <= CacheSize
  BY <1>1, <1>4, <1>6, BoundsAssumption
<1>8. \A k \in DOMAIN cache' : cache'[k] \in Verdicts(k, config'.threshold)
  BY <1>1, <1>2, <1>3, <1>5
<1>9. DOMAIN cache' \subseteq Names
  BY <1>3, <1>5
<1>10. /\ rows' \in Seq(AllEntries) /\ live' \in Seq(Lives)
       /\ Len(rows') <= MaxRows /\ Len(live') = Len(rows')
       /\ \A i \in 1..Len(rows') : InStep(rows'[i], live'[i])
  BY <1>1, Recorded
<1> QED
  BY <1>2, <1>3, <1>6, <1>7, <1>8, <1>9, <1>10 DEF EInv

(* The purge takes a row and its BLOCK line together.                      *)
LEMMA EPurge == EInv /\ Purge => EInv'
<1> SUFFICES ASSUME EInv, Purge PROVE EInv'
  OBVIOUS
<1>1. /\ rows # << >> /\ rows' = Tail(rows) /\ live' = Tail(live)
      /\ cache' = cache /\ config' = config
      /\ rows \in Seq(AllEntries) /\ live \in Seq(Lives)
      /\ Len(rows) <= MaxRows /\ Len(live) = Len(rows)
      /\ \A i \in 1..Len(rows) : InStep(rows[i], live[i])
  BY DEF EInv, Purge
<1>2. Len(rows) \in Nat /\ Len(rows) # 0 /\ live # << >> /\ MaxRows \in Nat
  BY <1>1, EmptySeq, LenProperties, BoundsAssumption
<1>3. /\ Tail(rows) \in Seq(AllEntries) /\ Len(Tail(rows)) = Len(rows) - 1
      /\ \A i \in 1..Len(Tail(rows)) : Tail(rows)[i] = rows[i + 1]
  BY <1>1, HeadTailProperties
<1>4. /\ Tail(live) \in Seq(Lives) /\ Len(Tail(live)) = Len(rows) - 1
      /\ \A i \in 1..Len(Tail(live)) : Tail(live)[i] = live[i + 1]
  BY <1>1, <1>2, HeadTailProperties
<1>5. ASSUME NEW i \in 1..Len(Tail(rows)) PROVE InStep(Tail(rows)[i], Tail(live)[i])
  <2>1. i + 1 \in 1..Len(rows)
    BY <1>2, <1>3
  <2> QED
    BY <1>1, <1>3, <1>4, <2>1
<1> QED
  BY <1>1, <1>2, <1>3, <1>4, <1>5 DEF EInv

(* Every step keeps what the cache holds and what the rows tell.           *)
LEMMA ENext == EInv /\ [Next]_vars => EInv'
<1> SUFFICES ASSUME EInv, [Next]_vars PROVE EInv'
  OBVIOUS
<1>1. CASE Restart
  BY <1>1, ERestart
<1>2. CASE Purge
  BY <1>2, EPurge
<1>3. ASSUME NEW n \in Names, CacheHit(n) PROVE EInv'
  BY <1>3, EHit
<1>4. ASSUME NEW n \in Names, CacheMiss(n) PROVE EInv'
  BY <1>4, EMiss
<1>5. CASE UNCHANGED vars
  BY <1>5 DEF vars, EInv
<1> QED
  BY <1>1, <1>2, <1>3, <1>4, <1>5 DEF Next

(* So it is in every state.                                                *)
LEMMA EAlways == Spec => []EInv
BY EInit, ENext, PTL DEF Spec

------------------------------------------------------------------------------
(* The theorems.                                                           *)

(* Each row of the log is accounted for by settings of some process, and   *)
(* its BLOCK line is its list.                                             *)
LEMMA EveryRow ==
    ASSUME EInv, NEW i \in DOMAIN rows
    PROVE  /\ live[i].config \in Settings /\ rows[i] \in Entries(live[i].config)
           /\ live[i].signals = rows[i].signals
<1>1. i \in 1..Len(rows) /\ i \in 1..Len(live)
  BY LenProperties DEF EInv
<1>2. live[i] \in Lives
  BY <1>1, ElementOfSeq DEF EInv
<1> QED
  BY <1>1, <1>2 DEF EInv, InStep, Lives

(* The cache keeps to its size and holds decisions, the log and the BLOCK  *)
(* lines keep in step and hold known names and reasons.                    *)
THEOREM TypeCorrect == Spec => []TypeOK
<1>1. EInv => TypeOK
  <2> SUFFICES ASSUME EInv PROVE TypeOK
    OBVIOUS
  <2>1. ASSUME NEW k \in DOMAIN cache
        PROVE  /\ cache[k].ml \in 0..100 /\ cache[k].heur \in 0..100
               /\ cache[k].would_block \in BOOLEAN
               /\ cache[k].block_source \in {"blocklist", "classifier", "none"}
    <3>1. PICK d \in Verdicts(k, config.threshold) : d = cache[k]
      BY DEF EInv
    <3>2. MlScores \subseteq 0..100 /\ 0 \in 0..100 /\ HeuristicScore(k) \in 0..100
      BY ScoresAssumption, ScoreBounded
    <3>3. config.threshold \in Int
      BY SettingShape DEF EInv
    <3>4. d.would_block \in BOOLEAN
      BY <3>3, VerdictShape, Zenon
    <3>5. /\ d.ml \in 0..100 /\ d.heur \in 0..100
          /\ d.block_source \in {"blocklist", "classifier", "none"}
      BY <3>2, <3>3, VerdictShape
    <3> QED
      BY <3>1, <3>4, <3>5, Zenon
  <2>2. ASSUME NEW i \in DOMAIN rows
        PROVE  rows[i].qname \in Names /\ rows[i].decision \in {"allow", "block"}
    BY EveryRow, EntryStory
  <2>3. ASSUME NEW i \in DOMAIN live
        PROVE  live[i].config \in Settings /\ live[i].signals \in Seq(Codes)
    <3>1. i \in 1..Len(live)
      BY LenProperties DEF EInv
    <3>2. live[i] \in Lives
      BY <3>1, ElementOfSeq DEF EInv
    <3> QED
      BY <3>2 DEF Lives
  <2> QED
    BY <2>1, <2>2, <2>3 DEF TypeOK, EInv
<1> QED
  BY <1>1, EAlways, PTL

(* The BLOCK line, the stored signals, tail and explain tell one story of  *)
(* every blocked query, whatever the cache had held or evicted and         *)
(* whichever process blocked it.                                           *)
THEOREM OneStoryAlways == Spec => []OneStory
<1>1. EInv => OneStory
  BY EveryRow, EntryStory DEF OneStory, Blocked
<1> QED
  BY <1>1, EAlways, PTL

(* The score stored with a row the classifier decided is that of its name, *)
(* as spelled in that query.                                               *)
THEOREM ScoreMatches == Spec => []ScoreMatchesReasons
<1>1. EInv => ScoreMatchesReasons
  BY EveryRow, EntryScores DEF ScoreMatchesReasons
<1> QED
  BY <1>1, EAlways, PTL

(* A block is told with its cause first and without the weaker of two      *)
(* graded signals.                                                         *)
THEOREM CauseIsFirst == Spec => []CauseFirst
<1>1. EInv => CauseFirst
  BY EveryRow, EntryStory DEF CauseFirst, Blocked
<1> QED
  BY <1>1, EAlways, PTL

(* What the three filters of tail select, for a row.                       *)
LEMMA Selected ==
    ASSUME NEW r, NEW v
    PROVE  /\ Selects([block_source |-> v], r) <=> r.block_source = v
           /\ Selects([min_ml_score |-> v], r) <=> r.ml >= v
           /\ Selects([decision |-> v], r) <=> r.decision = v
BY DEF Selects, Given

(* The filters of tail agree about why a query was blocked, for all        *)
(* settings and all numbers as a threshold.                                *)
THEOREM FiltersAlwaysAgree == Spec => []FiltersAgree
<1>1. EInv => FiltersAgree
  <2> SUFFICES ASSUME EInv, NEW i \in DOMAIN rows
               PROVE  LET by(source) == Selects([block_source |-> source], rows[i])
                          under      == live[i].config
                      IN /\ Selects([min_ml_score |-> under.threshold], rows[i]) <=>
                               by("classifier") \/ (by("blocklist") /\ under.threshold <= 0)
                         /\ ~(by("classifier") /\ by("blocklist"))
                         /\ Selects([decision |-> "block"], rows[i]) <=>
                               under.enforce /\ (by("classifier") \/ by("blocklist"))
    BY DEF FiltersAgree
  <2>1. live[i].config \in Settings /\ rows[i] \in Entries(live[i].config)
    BY EveryRow
  <2>2. /\ rows[i].ml >= live[i].config.threshold <=>
              rows[i].block_source = "classifier"
                 \/ (rows[i].block_source = "blocklist" /\ live[i].config.threshold <= 0)
        /\ rows[i].decision = "block" <=>
              live[i].config.enforce
                 /\ (rows[i].block_source = "classifier" \/ rows[i].block_source = "blocklist")
    BY <2>1, EntryScores
  <2>3. /\ \A v : Selects([block_source |-> v], rows[i]) <=> rows[i].block_source = v
        /\ \A v : Selects([min_ml_score |-> v], rows[i]) <=> rows[i].ml >= v
        /\ \A v : Selects([decision |-> v], rows[i]) <=> rows[i].decision = v
    BY Selected
  <2> QED
    BY <2>2, <2>3
<1> QED
  BY <1>1, EAlways, PTL

------------------------------------------------------------------------------
(* What explain shows of the rows it has found.                            *)

(* How many of the places come before i.                                   *)
Rank(places, i) == Cardinality({j \in places : j < i})

(* A later place has a higher rank, and ranks end below the number of      *)
(* places.                                                                 *)
LEMMA RankGrows ==
    ASSUME NEW places \in SUBSET Nat, IsFiniteSet(places)
    PROVE  /\ \A i \in places : Rank(places, i) \in 0..(Cardinality(places) - 1)
           /\ \A i, j \in places : i < j => Rank(places, i) < Rank(places, j)
<1> DEFINE Before(i) == {j \in places : j < i}
<1>1. \A i : Rank(places, i) = Cardinality(Before(i)) /\ Before(i) \in SUBSET places
  BY DEF Rank
<1>2. \A i : IsFiniteSet(Before(i)) /\ Cardinality(Before(i)) \in Nat
  <2> TAKE i
  <2>1. IsFiniteSet(Before(i))
    BY <1>1, FS_Subset
  <2> QED
    BY <2>1, FS_CardinalityType
<1>3. Cardinality(places) \in Nat
  BY FS_CardinalityType
<1>4. ASSUME NEW i \in places
      PROVE  Rank(places, i) \in 0..(Cardinality(places) - 1)
  <2>1. i \notin Before(i)
    OBVIOUS
  <2>2. /\ Cardinality(Before(i)) <= Cardinality(places)
        /\ Cardinality(places) = Cardinality(Before(i)) => places = Before(i)
    BY <1>1, FS_Subset
  <2>3. Cardinality(Before(i)) # Cardinality(places)
    BY <2>1, <2>2
  <2>4. Rank(places, i) = Cardinality(Before(i)) /\ Cardinality(Before(i)) \in Nat
    BY <1>1, <1>2
  <2> HIDE DEF Before
  <2> QED
    BY <1>3, <2>2, <2>3, <2>4
<1>5. ASSUME NEW i \in places, NEW j \in places, i < j
      PROVE  Rank(places, i) < Rank(places, j)
  <2>1. Before(i) \in SUBSET Before(j) /\ i \in Before(j) /\ i \notin Before(i)
    <3>1. \A x \in places : x < i => x < j
      BY <1>5
    <3>2. Before(i) \subseteq Before(j)
      BY <3>1
    <3>3. i \in Before(j) /\ i \notin Before(i)
      BY <1>5
    <3> QED
      BY <3>2, <3>3
  <2>2. IsFiniteSet(Before(j))
    BY <1>2
  <2>3. /\ Cardinality(Before(i)) <= Cardinality(Before(j))
        /\ Cardinality(Before(j)) = Cardinality(Before(i)) => Before(j) = Before(i)
    BY <2>1, <2>2, FS_Subset
  <2> HIDE DEF Before
  <2> QED
    BY <1>1, <1>2, <2>1, <2>3
<1> QED
  BY <1>4, <1>5

(* Every rank is that of some place: a pigeonhole.                         *)
LEMMA RankTaken ==
    ASSUME NEW places \in SUBSET Nat, IsFiniteSet(places), NEW k \in 1..Cardinality(places)
    PROVE  \E i \in places : Rank(places, i) = k - 1
<1> DEFINE n == Cardinality(places)
           f == [i \in places |-> Rank(places, i) + 1]
<1>1. n \in Nat
  BY FS_CardinalityType
<1>2. \A i \in places : Rank(places, i) \in 0..(n - 1)
  BY RankGrows
<1>3. IsFiniteSet(1..n) /\ Cardinality(1..n) = n
  <2>1. 1 \in Int /\ n \in Int
    BY <1>1
  <2>2. IsFiniteSet(1..n) /\ Cardinality(1..n) = IF 1 > n THEN 0 ELSE n - 1 + 1
    BY <2>1, FS_Interval
  <2> QED
    BY <1>1, <2>2
<1>4. f \in [places -> 1..n]
  <2>1. \A i \in places : Rank(places, i) + 1 \in 1..n
    BY <1>1, <1>2
  <2> QED
    BY <2>1
<1>5. \A i, j \in places : f[i] = f[j] => i = j
  <2> SUFFICES ASSUME NEW i \in places, NEW j \in places, i # j
               PROVE  f[i] # f[j]
    OBVIOUS
  <2>1. i < j \/ j < i
    OBVIOUS
  <2>2. Rank(places, i) # Rank(places, j)
    BY <1>2, <2>1, RankGrows
  <2> QED
    BY <1>2, <2>2
<1>6. f \in Injection(places, 1..n)
  BY <1>4, <1>5 DEF Injection, IsInjective
<1>7. f \in Surjection(places, 1..n)
  <2> HIDE DEF f
  <2> QED
    BY <1>3, <1>6, FS_Injection
<1>8. \E i \in places : f[i] = k
  <2> HIDE DEF f
  <2> QED
    BY <1>7 DEF Surjection
<1> QED
  BY <1>2, <1>8

(* InOrder lists every place once, the lower ones first.                   *)
LEMMA InOrderLists ==
    ASSUME NEW places \in SUBSET Nat, IsFiniteSet(places)
    PROVE  /\ InOrder(places) \in Seq(places)
           /\ Len(InOrder(places)) = Cardinality(places)
           /\ \A k, l \in 1..Cardinality(places) :
                 k < l => InOrder(places)[k] < InOrder(places)[l]
           /\ \A i \in places : \E k \in 1..Cardinality(places) : InOrder(places)[k] = i
<1> DEFINE n == Cardinality(places)
           s == InOrder(places)
<1>1. n \in Nat
  BY FS_CardinalityType
<1>2. ASSUME NEW k \in 1..n
      PROVE  s[k] \in places /\ Rank(places, s[k]) = k - 1
  <2>1. s[k] = CHOOSE i \in places : Rank(places, i) = k - 1
    BY DEF InOrder, Rank
  <2> QED
    BY <2>1, RankTaken
<1>3. s \in Seq(places) /\ Len(s) = n
  <2>1. s = [k \in 1..n |-> CHOOSE i \in places : Cardinality({j \in places : j < i}) = k - 1]
    BY DEF InOrder
  <2>2. DOMAIN s = 1..n
    BY <2>1
  <2>3. s = [k \in 1..n |-> s[k]]
    BY <2>1
  <2> HIDE DEF s, n
  <2> QED
    BY <1>1, <1>2, <2>2, <2>3
<1> HIDE DEF s
<1>6. /\ \A i \in places : Rank(places, i) \in 0..(n - 1)
      /\ \A i, j \in places : i < j => Rank(places, i) < Rank(places, j)
  BY RankGrows
<1>4. ASSUME NEW k \in 1..n, NEW l \in 1..n, k < l
      PROVE  s[k] < s[l]
  <2>1. s[k] \in Nat /\ s[l] \in Nat
    BY <1>2
  <2>2. Rank(places, s[k]) < Rank(places, s[l])
    BY <1>2, <1>4
  <2>3. ~(s[l] < s[k])
    <3> SUFFICES ASSUME s[l] < s[k] PROVE FALSE
      OBVIOUS
    <3>1. Rank(places, s[l]) < Rank(places, s[k])
      BY <1>2, <1>6
    <3>2. l - 1 < k - 1
      BY <1>2, <3>1
    <3> QED
      BY <1>4, <3>2
  <2>4. s[k] # s[l]
    BY <1>2, <1>4
  <2> QED
    BY <2>1, <2>3, <2>4
<1>5. ASSUME NEW i \in places
      PROVE  \E k \in 1..n : s[k] = i
  <2> DEFINE k == Rank(places, i) + 1
  <2>1. Rank(places, i) \in 0..(n - 1)
    BY <1>6
  <2>2. k \in 1..n /\ k - 1 = Rank(places, i)
    BY <1>1, <2>1
  <2>3. s[k] \in places /\ Rank(places, s[k]) = Rank(places, i)
    BY <1>2, <2>2
  <2>4. ~(s[k] < i) /\ ~(i < s[k])
    <3>1. s[k] < i => Rank(places, s[k]) < Rank(places, i)
      BY <1>6, <2>3
    <3>2. i < s[k] => Rank(places, i) < Rank(places, s[k])
      BY <1>6, <2>3
    <3>3. ~(Rank(places, i) < Rank(places, i))
      BY <2>1
    <3> QED
      BY <2>3, <3>1, <3>2, <3>3
  <2>5. s[k] \in Nat /\ i \in Nat
    BY <2>3
  <2> HIDE DEF k
  <2>6. s[k] = i
    BY <2>4, <2>5
  <2> QED
    BY <2>2, <2>6
<1> QED
  BY <1>3, <1>4, <1>5 DEF s

(* A sequence turned round.                                                *)
LEMMA Turned ==
    ASSUME NEW S, NEW s \in Seq(S)
    PROVE  /\ Reverse(s) \in Seq(S) /\ Len(Reverse(s)) = Len(s)
           /\ \A i \in 1..Len(s) : Reverse(s)[i] = s[(Len(s) - i) + 1]
<1> DEFINE r == Reverse(s)
           n == Len(s)
<1>1. n \in Nat /\ DOMAIN s = 1..n /\ \A i \in 1..n : s[i] \in S
  BY ElementOfSeq, LenProperties
<1>2. r = [i \in 1..n |-> s[(n - i) + 1]]
  BY DEF Reverse
<1> HIDE DEF r, n
<1>3. \A i \in 1..n : s[(n - i) + 1] \in S
  <2>1. \A i \in 1..n : (n - i) + 1 \in 1..n
    BY <1>1
  <2> QED
    BY <1>1, <2>1
<1>4. r \in Seq(S) /\ Len(r) = n
  BY <1>1, <1>2, <1>3
<1> QED
  BY <1>2, <1>4 DEF r, n

(* LIMIT count, of that many rows.                                         *)
Most(places, count) ==
    IF count < 0 \/ count > Cardinality(places) THEN Cardinality(places) ELSE count

(* Whatever rows are found, explain -n shows the last n of them, all of    *)
(* them if there are fewer or n is negative, and in the order in which     *)
(* they were logged, although it fetches them newest first                 *)
(* (explain_cmd.py:111-127).                                               *)
THEOREM LatestAreLast ==
    ASSUME NEW places \in SUBSET Nat, IsFiniteSet(places), NEW count \in Int
    PROVE  /\ Latest(places, count) \in Seq(places)
           /\ Len(Latest(places, count)) = Most(places, count)
           /\ \A k \in 1..Most(places, count) :
                 Latest(places, count)[k] =
                     InOrder(places)[(Cardinality(places) - Most(places, count)) + k]
<1> DEFINE all     == Cardinality(places)
           limit   == Most(places, count)
           s       == InOrder(places)
           newest  == Reverse(s)
           fetched == SubSeq(newest, 1, limit)
<1>1. all \in Nat
  BY FS_CardinalityType
<1>2. limit \in 0..all
  BY <1>1 DEF Most
<1>3. s \in Seq(places) /\ Len(s) = all
  BY InOrderLists
<1>4. Latest(places, count) = Reverse(fetched)
  BY DEF Latest, NewestFirst, Most
<1> HIDE DEF all, limit, s
<1>5. /\ newest \in Seq(places) /\ Len(newest) = all
      /\ \A i \in 1..all : newest[i] = s[(all - i) + 1]
  BY <1>3, Turned
<1> HIDE DEF newest
<1>6. /\ fetched \in Seq(places) /\ Len(fetched) = limit
      /\ \A i \in 1..limit : fetched[i] = newest[i]
  <2>1. /\ 1 \in Int /\ limit \in Int
        /\ \A i \in 1..limit : newest[i] \in places
    <3>1. 1..limit \subseteq 1..Len(newest)
      BY <1>1, <1>2, <1>5
    <3> QED
      BY <1>2, <1>5, <3>1, ElementOfSeq
  <2>2. /\ SubSeq(newest, 1, limit) \in Seq(places)
        /\ Len(SubSeq(newest, 1, limit)) = IF 1 <= limit THEN limit - 1 + 1 ELSE 0
        /\ \A i \in 1..(limit - 1 + 1) : SubSeq(newest, 1, limit)[i] = newest[1 + i - 1]
    BY <2>1, SubSeqProperties
  <2> QED
    BY <1>2, <2>2
<1> HIDE DEF fetched
<1>7. /\ Reverse(fetched) \in Seq(places) /\ Len(Reverse(fetched)) = limit
      /\ \A k \in 1..limit : Reverse(fetched)[k] = fetched[(limit - k) + 1]
  BY <1>6, Turned
<1>8. ASSUME NEW k \in 1..limit
      PROVE  Reverse(fetched)[k] = s[(all - limit) + k]
  <2>1. /\ (limit - k) + 1 \in 1..limit /\ (limit - k) + 1 \in 1..all
        /\ (all - ((limit - k) + 1)) + 1 = (all - limit) + k
    BY <1>1, <1>2
  <2>2. Reverse(fetched)[k] = newest[(limit - k) + 1]
    BY <1>6, <1>7, <2>1
  <2>3. newest[(limit - k) + 1] = s[(all - ((limit - k) + 1)) + 1]
    BY <1>5, <2>1
  <2> QED
    BY <2>1, <2>2, <2>3
<1> QED
  BY <1>4, <1>7, <1>8 DEF all, limit, s

(* explain -n shows the latest rows of a name, in the order in which they  *)
(* were logged, and passes over none of them, whatever the retention purge *)
(* has left of the log.                                                    *)
THEOREM HistoryAlwaysInOrder == Spec => []HistoryInOrder
<1>1. EInv => HistoryInOrder
  <2> SUFFICES ASSUME EInv, NEW n \in Names, NEW count \in -1..MaxRows
               PROVE  LET shown == Explained(n, count)
                          all   == Cardinality(Found(n))
                      IN /\ Len(shown) = IF count = -1 \/ count > all THEN all ELSE count
                         /\ \A k \in DOMAIN shown : rows[shown[k]].qname = LowerName(n)
                         /\ \A k, l \in DOMAIN shown : k < l => shown[k] < shown[l]
                         /\ \A i \in Found(n), k \in DOMAIN shown :
                               shown[k] < i => i \in ToSet(shown)
    BY DEF HistoryInOrder
  <2> DEFINE places == Found(n)
             all    == Cardinality(places)
             limit  == Most(places, count)
             shown  == Explained(n, count)
             s      == InOrder(places)
  <2>1. /\ places \in SUBSET Nat /\ IsFiniteSet(places)
        /\ \A i \in places : rows[i].qname = LowerName(n)
    <3>1. Len(rows) \in Nat /\ DOMAIN rows = 1..Len(rows)
      BY LenProperties DEF EInv
    <3>2. IsFiniteSet(1..Len(rows))
      BY <3>1, FS_Interval
    <3>3. places \in SUBSET (1..Len(rows))
      BY <3>1 DEF Found
    <3> QED
      BY <3>1, <3>2, <3>3, FS_Subset DEF Found
  <2>2. count \in Int /\ (count < 0 <=> count = -1)
    BY BoundsAssumption
  <2>3. all \in Nat
    BY <2>1, FS_CardinalityType
  <2>4. limit = (IF count = -1 \/ count > all THEN all ELSE count) /\ limit \in 0..all
    BY <2>2, <2>3 DEF Most
  <2>5. shown = Latest(places, count)
    BY DEF Explained
  <2> HIDE DEF places, shown, limit, all, s
  <2>6. /\ shown \in Seq(places) /\ Len(shown) = limit
        /\ \A k \in 1..limit : shown[k] = s[(all - limit) + k]
    BY <2>1, <2>2, <2>5, LatestAreLast DEF limit, all, s
  <2>7. DOMAIN shown = 1..limit
    BY <2>6, LenProperties
  <2>8. /\ \A k, l \in 1..all : k < l => s[k] < s[l]
        /\ \A i \in places : \E k \in 1..all : s[k] = i
    BY <2>1, InOrderLists DEF all, s
  <2>9. \A k \in 1..limit : (all - limit) + k \in 1..all
    BY <2>3, <2>4
  <2>10. \A k \in DOMAIN shown : rows[shown[k]].qname = LowerName(n)
    <3>1. \A k \in 1..limit : shown[k] \in places
      BY <2>6, ElementOfSeq
    <3> QED
      BY <2>1, <2>7, <3>1
  <2>11. ASSUME NEW k \in 1..limit, NEW l \in 1..limit, k < l
         PROVE  shown[k] < shown[l]
    <3>1. (all - limit) + k < (all - limit) + l
      BY <2>3, <2>4, <2>11
    <3> QED
      BY <2>6, <2>8, <2>9, <3>1
  <2>12. ASSUME NEW i \in places, NEW k \in 1..limit, shown[k] < i
         PROVE  i \in ToSet(shown)
    <3>1. PICK m \in 1..all : s[m] = i
      BY <2>8
    <3>2. shown[k] = s[(all - limit) + k] /\ (all - limit) + k \in 1..all
      BY <2>6, <2>9
    <3>3. shown[k] \in Nat /\ i \in Nat
      BY <2>1, <2>6, ElementOfSeq
    <3>4. ~(m < (all - limit) + k)
      <4> SUFFICES ASSUME m < (all - limit) + k PROVE FALSE
        OBVIOUS
      <4>1. s[m] < s[(all - limit) + k]
        BY <2>8, <3>2
      <4> QED
        BY <2>12, <3>1, <3>2, <3>3, <4>1
    <3>5. m - (all - limit) \in 1..limit /\ (all - limit) + (m - (all - limit)) = m
      BY <2>3, <2>4, <3>4
    <3>6. shown[m - (all - limit)] = i
      BY <2>6, <3>1, <3>5
    <3> QED
      BY <2>7, <3>5, <3>6 DEF ToSet
  <2> QED
    BY <2>4, <2>6, <2>7, <2>10, <2>11, <2>12 DEF places, shown, limit, all
<1> QED
  BY <1>1, EAlways, PTL

==============================================================================
