------------------------------ MODULE Explanation ------------------------------
(***************************************************************************)
(* The reasons that a decision is given, from the query to the reader of   *)
(* the log: heuristic_signals (sentinel_dns/classifier.py), explain        *)
(* (explanation.py), the signals that the forwarder prints and stores for  *)
(* a blocked query (forwarder.py), which rows `tail` and `explain` find    *)
(* and what they make of them (tail_cmd.py, explain_cmd.py).  Reasons are  *)
(* not stored with a decision: whoever needs them computes them again from *)
(* the name, also for a decision that was cached.                          *)
(*                                                                         *)
(* A name is what the heuristics measure of it: the top-level domain, as   *)
(* spelled, the entropy of the second label in hundredths of a bit, the    *)
(* length, and the marks of its characters.  Scores are in hundredths.     *)
(***************************************************************************)
EXTENDS Integers, Sequences, SequencesExt, FiniteSets

CONSTANTS Names,     \* bound: records with tld, entropy, length and marks
          Lower,     \* str.lower on top-level domains
          AbusedTlds,
          MlScores,  \* what the model may say
          Settings,  \* bound: enforce and block_threshold of a process
          CacheSize, \* bound: decisions in the cache
          MaxRows    \* bound: rows in the log

Marks == {"digit_heavy", "many_dashes", "hex_label", "consonant_run"}

ASSUME NamesAssumption ==
    \A n \in Names : n.entropy \in Nat /\ n.length \in Nat /\ n.marks \subseteq Marks
ASSUME ScoresAssumption == MlScores \subseteq 0..100
(* Any number is taken for a threshold.                                    *)
ASSUME SettingsAssumption == Settings \subseteq [enforce : BOOLEAN, threshold : Int]
ASSUME BoundsAssumption == CacheSize \in Nat /\ MaxRows \in Nat

VARIABLES config,  \* the settings of the running process
          cache,   \* a function from names to decisions
          rows,    \* the log, oldest row first
          live     \* history: for each row the settings of the process that wrote
                   \* it, and the signals of the BLOCK line

vars == <<config, cache, rows, live>>

------------------------------------------------------------------------------
(* heuristic_signals and HeuristicReasons.score.                           *)

Signals(n) ==
    n.marks \cup {s \in {"abused_tld"} : n.tld \in AbusedTlds}
            \cup {s \in {"high_entropy"} : n.entropy > 350}
            \cup {s \in {"very_high_entropy"} : n.entropy > 400}
            \cup {s \in {"long"} : n.length > 30}
            \cup {s \in {"very_long"} : n.length > 50}

(* What the signals of a name weigh together.                              *)
Weight(n) ==
    LET signals == Signals(n)
        Points(signal, points) == IF signal \in signals THEN points ELSE 0
    IN Points("abused_tld", 30)
         + Points("high_entropy", 20) + Points("very_high_entropy", 10)
         + Points("long", 10) + Points("very_long", 10)
         + Points("digit_heavy", 10) + Points("many_dashes", 10)
         + Points("hex_label", 20) + Points("consonant_run", 10)

(* Mutant of HeuristicScore: the sum is not capped.                        *)
HeuristicScoreUncapped(n) == Weight(n)

HeuristicScore(n) ==
    LET weight == Weight(n)
    IN IF weight > 100 THEN 100 ELSE weight

------------------------------------------------------------------------------
(* explain: the codes of the reasons, in order.                            *)

When(holds, code) == IF holds THEN <<code>> ELSE << >>

SourceReason(d) ==
    When(d.block_source = "blocklist", "blocklist")
        \o When(d.block_source = "classifier", "lexical_classifier")

(* The stronger of two graded signals stands for both.                     *)
Graded(signals, strong, weak) ==
    When(strong \in signals, strong)
        \o When(weak \in signals /\ strong \notin signals, weak)

HeuristicReasons(n) ==
    LET signals    == Signals(n)
        Told(code) == When(code \in signals, code)
    IN Told("abused_tld")
         \o Graded(signals, "very_high_entropy", "high_entropy")
         \o Graded(signals, "very_long", "long")
         \o Told("digit_heavy") \o Told("many_dashes")
         \o Told("hex_label") \o Told("consonant_run")

(* Mutant of Explain: the heuristics come first.                           *)
ExplainSourceLast(n, d) == HeuristicReasons(n) \o SourceReason(d)

Explain(n, d) == SourceReason(d) \o HeuristicReasons(n)

------------------------------------------------------------------------------
(* The forwarder: a query is decided, or found in the cache, and recorded. *)

Decision(ml, heur, wouldBlock, source) ==
    [ml |-> ml, heur |-> heur, would_block |-> wouldBlock, block_source |-> source]

(* What the inline tier may decide on a miss, with a classifier.           *)
Verdicts(n, threshold) ==
    {Decision(0, 0, TRUE, "blocklist")}
        \cup {Decision(ml, HeuristicScore(n), ml >= threshold,
                       IF ml >= threshold THEN "classifier" ELSE "none") : ml \in MlScores}

(* Mutant of Key: one entry for all spellings of a name.                   *)
KeyLower(n) == [n EXCEPT !.tld = Lower[@]]

(* The key of the cache is the name as spelled.                            *)
Key(n) == n

Record(n, d) ==
    LET blocked == config.enforce /\ d.would_block
        codes   == IF blocked THEN Explain(n, d) ELSE << >>
    IN /\ Len(rows) < MaxRows
       /\ live' = Append(live, [config |-> config, signals |-> codes])
       /\ rows' = Append(rows,
              [qname    |-> n,
               decision |-> IF blocked THEN "block" ELSE "allow",
               ml       |-> d.ml, heur |-> d.heur,
               block_source |-> d.block_source,
               signals  |-> codes])

Init == config \in Settings /\ cache = << >> /\ rows = << >> /\ live = << >>

(* The log outlives the process, the cache does not, and the next process  *)
(* may have other settings.                                                *)
Restart ==
    /\ config' \in Settings
    /\ cache' = << >>
    /\ UNCHANGED <<rows, live>>

CacheHit(n) ==
    /\ Key(n) \in DOMAIN cache
    /\ Record(n, cache[Key(n)])
    /\ UNCHANGED <<config, cache>>

(* Any other entry may have been evicted: module LruDict says which.       *)
CacheMiss(n) ==
    /\ Key(n) \notin DOMAIN cache
    /\ \E d \in Verdicts(n, config.threshold), kept \in SUBSET DOMAIN cache :
          /\ Cardinality(kept) < CacheSize
          /\ cache' = [k \in kept \cup {Key(n)} |-> IF k = Key(n) THEN d ELSE cache[k]]
          /\ Record(n, d)
    /\ UNCHANGED config

(* The retention purge takes the oldest rows away.                         *)
Purge ==
    /\ rows # << >>
    /\ rows' = Tail(rows) /\ live' = Tail(live)
    /\ UNCHANGED <<config, cache>>

Next == Restart \/ Purge \/ \E n \in Names : CacheHit(n) \/ CacheMiss(n)

Spec == Init /\ [][Next]_vars

------------------------------------------------------------------------------
(* The readers of the log.                                                 *)

(* Mutant of TailDecision: the source of the block is not restored.        *)
TailDecisionWithoutSource(r) == Decision(r.ml, r.heur, TRUE, "none")

(* tail explains blocked rows only, explain every row.                     *)
TailDecision(r) == Decision(r.ml, r.heur, TRUE, r.block_source)

TailReasons(r) ==
    IF r.decision = "block" THEN Explain(r.qname, TailDecision(r)) ELSE << >>

ExplainDecision(r) == Decision(r.ml, r.heur, r.decision = "block", r.block_source)
ExplainReasons(r)  == Explain(r.qname, ExplainDecision(r))

LowerName(n) == [n EXCEPT !.tld = Lower[@]]

Given(filter, option) == option \in DOMAIN filter

(* Mutant of Selects: the score must be above the one asked for.           *)
SelectsAbove(filter, r) ==
    /\ Given(filter, "decision") => r.decision = filter.decision
    /\ Given(filter, "min_ml_score") => r.ml > filter.min_ml_score
    /\ Given(filter, "block_source") => r.block_source = filter.block_source

(* _build_where of tail: the filters given, all of which must hold.        *)
(* "none" is NULL, which equals nothing.                                   *)
Selects(filter, r) ==
    /\ Given(filter, "decision") => r.decision = filter.decision
    /\ Given(filter, "min_ml_score") => r.ml >= filter.min_ml_score
    /\ Given(filter, "block_source") => r.block_source = filter.block_source

(* The rows of the lower-case name, by their places in the log.            *)
Found(domain) == {i \in DOMAIN rows : rows[i].qname = LowerName(domain)}

(* Places in the order of the log: k - 1 of them come before the k-th.     *)
InOrder(places) ==
    [k \in 1..Cardinality(places) |->
        CHOOSE i \in places : Cardinality({j \in places : j < i}) = k - 1]

(* Mutant of NewestFirst: ORDER BY id ASC, the oldest rows are taken.      *)
NewestFirstAscending(places) == InOrder(places)

(* ORDER BY id DESC.                                                       *)
NewestFirst(places) == Reverse(InOrder(places))

(* ... LIMIT count; the rows are then walked in the opposite order.        *)
Latest(places, count) ==
    LET most  == Cardinality(places)
        limit == IF count < 0 \/ count > most THEN most ELSE count
    IN Reverse(SubSeq(NewestFirst(places), 1, limit))

Explained(domain, count) == Latest(Found(domain), count)

(* "no records in log (never queried, or already purged)", exit code 2.    *)
NoRecords(domain) == Explained(domain, 1) = << >>

------------------------------------------------------------------------------
Codes == Marks \cup {"blocklist", "lexical_classifier", "abused_tld", "high_entropy",
                    "very_high_entropy", "long", "very_long"}

TypeOK ==
    /\ config \in Settings
    /\ DOMAIN cache \subseteq Names /\ Cardinality(DOMAIN cache) <= CacheSize
    /\ \A k \in DOMAIN cache :
          /\ cache[k].ml \in 0..100 /\ cache[k].heur \in 0..100
          /\ cache[k].would_block \in BOOLEAN
          /\ cache[k].block_source \in {"blocklist", "classifier", "none"}
    /\ Len(rows) <= MaxRows /\ Len(live) = Len(rows)
    /\ \A i \in DOMAIN rows :
          rows[i].qname \in Names /\ rows[i].decision \in {"allow", "block"}
    /\ \A i \in DOMAIN live : live[i].config \in Settings /\ live[i].signals \in Seq(Codes)

Blocked(i) == rows[i].decision = "block"

(* The BLOCK line, the stored signals, tail and explain give one and the   *)
(* same list of reasons for a blocked query, also when its decision was    *)
(* made for an earlier query, and when the process that made it is gone    *)
(* (docs/cli.md:192; forwarder.py:151-155, 171; tail_cmd.py:72-83;         *)
(* explain_cmd.py:58-64).                                                  *)
OneStory ==
    \A i \in DOMAIN rows :
        Blocked(i) =>
            /\ rows[i].signals = live[i].signals
            /\ TailReasons(rows[i]) = live[i].signals
            /\ ExplainReasons(rows[i]) = live[i].signals

(* The heuristic score stored with a row that the classifier decided is    *)
(* the score of the very signals a reader is shown for it: the cache never *)
(* hands one spelling the score of another, although the heuristics tell   *)
(* spellings apart (cache.py:8-9; forwarder.py:84, 103-106, 124;           *)
(* classifier.py:83-99; explanation.py:51-54, 78).                         *)
ScoreMatchesReasons ==
    \A i \in DOMAIN rows :
        rows[i].block_source # "blocklist" => rows[i].heur = HeuristicScore(rows[i].qname)

(* A block is never without a reason, and the first reason is the one that *)
(* decided; of two graded signals the weaker is not told as well           *)
(* (explanation.py:58-74, 87-114).                                         *)
CauseFirst ==
    \A i \in DOMAIN rows :
        Blocked(i) =>
            LET told == live[i].signals
            IN /\ told # << >>
               /\ Head(told) = IF rows[i].block_source = "blocklist" THEN "blocklist"
                                                                     ELSE "lexical_classifier"
               /\ ~({"high_entropy", "very_high_entropy"} \subseteq ToSet(told))
               /\ ~({"long", "very_long"} \subseteq ToSet(told))

(* explain with -n shows the latest rows of a name that clients spell in   *)
(* lower case, in the order in which they were logged, and no row is       *)
(* missing between two of them; a negative -n shows all and -n 0 says      *)
(* there are none (explain_cmd.py:111-127).                                *)
HistoryInOrder ==
    \A n \in Names, count \in -1..MaxRows :
        LET shown == Explained(n, count)
            all   == Cardinality(Found(n))
        IN /\ Len(shown) = IF count = -1 \/ count > all THEN all ELSE count
           /\ \A k \in DOMAIN shown : rows[shown[k]].qname = LowerName(n)
           /\ \A k, l \in DOMAIN shown : k < l => shown[k] < shown[l]
           /\ \A i \in Found(n), k \in DOMAIN shown : shown[k] < i => i \in ToSet(shown)

(* The filters of tail agree with one another about why a query was        *)
(* blocked, by the settings of the process that logged it: the two sources *)
(* share no row, --decision block shows what either of them shows if that  *)
(* process enforced and nothing of it if it only measured, and             *)
(* --min-ml-score with its threshold shows what --block-source classifier  *)
(* shows.  With a threshold of 0 or less, which the code accepts, it shows *)
(* the rows of the blocklist too, which are stored with a score of 0       *)
(* (tail_cmd.py:35-57; forwarder.py:108-135, 148, 165-168, 349).           *)
FiltersAgree ==
    \A i \in DOMAIN rows :
        LET by(source) == Selects([block_source |-> source], rows[i])
            under      == live[i].config
        IN /\ Selects([min_ml_score |-> under.threshold], rows[i]) <=>
                 by("classifier") \/ (by("blocklist") /\ under.threshold <= 0)
           /\ ~(by("classifier") /\ by("blocklist"))
           /\ Selects([decision |-> "block"], rows[i]) <=>
                 under.enforce /\ (by("classifier") \/ by("blocklist"))

------------------------------------------------------------------------------
(* docs/cli.md:104: "If a domain has never been queried (or its records    *)
(* have been purged by retention), explain prints a "no records" message   *)
(* [...].  That distinguishes "I looked and there's nothing" from "I       *)
(* successfully looked it up"".                                            *)
NoRecordsMeansNone ==
    \A n \in Names :
        NoRecords(n) => \A i \in DOMAIN rows : LowerName(rows[i].qname) # LowerName(n)

==============================================================================
