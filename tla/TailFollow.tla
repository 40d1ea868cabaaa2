------------------------------ MODULE TailFollow ------------------------------
(***************************************************************************)
(* `sentinel-dns tail` of sentinel_dns/tail_cmd.py: a process of its own   *)
(* that prints the last rows of the query log and, with --follow, polls    *)
(* the file for rows above the last id it has printed.  The file changes   *)
(* under it as module DurableTable allows, which is what QueryLog is shown *)
(* to implement: this module relies on the promise, not on the code behind *)
(* it.  One query of tail reads one committed table.                       *)
(***************************************************************************)
EXTENDS Integers, Sequences, SequencesExt, FiniteSets

CONSTANTS Tables,    \* bound: contents the file may have
          Limits,    \* bound: positions of the retention limit
          Matching,  \* records that the filters select
          Counts,    \* bound: --count; SQLite takes a negative LIMIT for no limit
          Follow     \* --follow

Rows == [id : Nat, rec : Nat]

ASSUME ArgsAssumption == Counts \subseteq Int /\ Follow \in BOOLEAN
ASSUME TablesAssumption ==
    /\ Tables \subseteq [rows : SUBSET Rows, seq : Nat]
    /\ \A t \in Tables : IsFiniteSet(t.rows)

VARIABLES table, limit, \* the file: see DurableTable
          count,        \* args.count
          tail,         \* "start", "initial", "follow", "done", "interrupted"
          fetched,      \* rows of the latest query that are not printed yet
          printed,      \* rows printed so far, in order
          lastId,       \* last_id
          first, fence  \* history: the last ids ever used at the first and at the
                        \* latest query

tailVars == <<count, tail, fetched, printed, lastId, first, fence>>
vars == <<table, limit, tailVars>>

Durable == INSTANCE DurableTable

TailInit ==
    /\ count \in Counts
    /\ tail = "start" /\ fetched = {} /\ printed = << >>
    /\ lastId = 0 /\ first = 0 /\ fence = 0

Init == Durable!Init /\ TailInit

(* The forwarder's commits and the passing of time.                        *)
TableStep ==
    /\ \/ \E t \in Tables : table' = t /\ Durable!Publish
       \/ \E l \in Limits : limit' = l /\ Durable!Age
    /\ UNCHANGED tailVars

------------------------------------------------------------------------------
(* _build_where: the rows that the filters select.                         *)
Selected == {r \in table.rows : r.rec \in Matching}

(* Mutant of Latest: ORDER BY id ASC in the inner query.                   *)
Earliest(rows, n) ==
    {r \in rows : n < 0 \/ Cardinality({s \in rows : s.id < r.id}) < n}

(* ORDER BY id DESC LIMIT n.                                               *)
Latest(rows, n) ==
    {r \in rows : n < 0 \/ Cardinality({s \in rows : s.id > r.id}) < n}

InitialQuery ==
    /\ tail = "start"
    /\ fetched' = Latest(Selected, count)
    /\ first' = table.seq /\ fence' = table.seq
    /\ tail' = "initial"
    /\ UNCHANGED <<table, limit, count, printed, lastId>>

(* Mutant of PrintRow: the first loop does not note the id.                *)
PrintRowUnnoted ==
    /\ tail \in {"initial", "follow"}
    /\ \E r \in fetched :
          /\ \A s \in fetched : r.id <= s.id
          /\ printed' = Append(printed, r)
          /\ fetched' = fetched \ {r}
          /\ lastId' = IF tail = "initial" THEN lastId ELSE r.id
    /\ UNCHANGED <<table, limit, count, tail, first, fence>>

(* One row of the result, which is in the order of the ids; the first loop *)
(* takes the maximum, the second one the id itself.                        *)
PrintRow ==
    /\ tail \in {"initial", "follow"}
    /\ \E r \in fetched :
          /\ \A s \in fetched : r.id <= s.id
          /\ printed' = Append(printed, r)
          /\ fetched' = fetched \ {r}
          /\ lastId' = IF tail = "initial" /\ r.id < lastId THEN lastId ELSE r.id
    /\ UNCHANGED <<table, limit, count, tail, first, fence>>

InitialDone ==
    /\ tail = "initial" /\ fetched = {}
    /\ tail' = IF Follow THEN "follow" ELSE "done"
    /\ UNCHANGED <<table, limit, count, fetched, printed, lastId, first, fence>>

(* Mutants of Poll: the last row once more; ids without gaps.              *)
PollFromLast ==
    /\ tail = "follow" /\ fetched = {}
    /\ fetched' = {r \in Selected : r.id >= lastId}
    /\ fence' = table.seq
    /\ UNCHANGED <<table, limit, count, tail, printed, lastId, first>>
PollNextId ==
    /\ tail = "follow" /\ fetched = {}
    /\ fetched' = {r \in Selected : r.id = lastId + 1}
    /\ fence' = table.seq
    /\ UNCHANGED <<table, limit, count, tail, printed, lastId, first>>

Poll ==
    /\ tail = "follow" /\ fetched = {}
    /\ fetched' = {r \in Selected : r.id > lastId}
    /\ fence' = table.seq
    /\ UNCHANGED <<table, limit, count, tail, printed, lastId, first>>

(* Ctrl-C, also between two rows.                                          *)
Interrupt ==
    /\ tail \in {"initial", "follow"}
    /\ tail' = "interrupted"
    /\ fetched' = {}
    /\ UNCHANGED <<table, limit, count, printed, lastId, first, fence>>

TailStep == InitialQuery \/ PrintRow \/ InitialDone \/ Poll \/ Interrupt

Next == TableStep \/ TailStep

Spec == Init /\ [][Next]_vars

(* tail alone, whoever changes the file.                                   *)
TailSpec == TailInit /\ [][TailStep]_tailVars

(* The process of tail runs; the file need not change, nor the user type.  *)
FairSpec ==
    /\ Spec
    /\ WF_vars(InitialQuery) /\ WF_vars(PrintRow) /\ WF_vars(InitialDone) /\ WF_vars(Poll)

------------------------------------------------------------------------------
TypeOK ==
    /\ table \in [rows : SUBSET Rows, seq : Nat] /\ IsFiniteSet(table.rows)
    /\ count \in Counts
    /\ tail \in {"start", "initial", "follow", "done", "interrupted"}
    /\ fetched \subseteq Rows /\ printed \in Seq(Rows)
    /\ lastId \in Nat /\ fence \in 0..table.seq /\ first \in 0..fence

(* No row is printed twice or after a later one, although every poll goes  *)
(* by the id of the row printed last and rows vanish and arrive between    *)
(* two polls (tail_cmd.py:148-152, 162-168).                               *)
PrintedInOrder ==
    \A i, j \in DOMAIN printed : i < j => printed[i].id < printed[j].id

(* No row is passed over: a row that the filters select and the latest     *)
(* query could see is printed, or about to be, unless it is older than     *)
(* every row that tail shows (tail_cmd.py:143-168).                        *)
Shown == ToSet(printed) \cup fetched

NothingSkipped ==
    tail # "interrupted" =>
        \A r \in Selected, s \in Shown :
            s.id <= r.id /\ r.id <= fence => r \in Shown

(* tail shows at most as many rows of those that were there when it asked  *)
(* first as --count says, and keeps to it when it follows: of these no     *)
(* poll brings another one, also if the first query found nothing and      *)
(* last_id is still 0.  A count of 0 is the exception that docs/cli.md:202 *)
(* tells of: the first poll then brings them all (tail_cmd.py:143-168).    *)
NoMoreThanAsked ==
    count > 0 => Cardinality({r \in Shown : r.id <= first}) <= count

(* What these rest on: ids name rows, the rows still to be printed are   *)
(* above everything printed, and nothing is above the fence.               *)
IdsAhead ==
    /\ \A r \in table.rows : r.id \in 1..table.seq
    /\ \A r, s \in table.rows : r.id = s.id => r = s
    /\ \A r, s \in fetched : r.id = s.id => r = s
    /\ \A r \in fetched : lastId < r.id /\ r.id <= fence
    /\ \A i \in DOMAIN printed : printed[i].id <= lastId
    /\ lastId <= fence
    /\ tail = "start" => printed = << >> /\ fetched = {} /\ lastId = 0

(* In follow mode a row that arrives is printed, if it stays in the table  *)
(* until the next poll and nobody interrupts (tail_cmd.py:163-168).        *)
FollowCatchesUp ==
    \A r \in UNION {t.rows : t \in Tables} :
        r \in Selected /\ r.id > fence /\ tail \in {"initial", "follow"} /\ Follow
            ~> r \notin table.rows \/ r \in ToSet(printed) \/ tail = "interrupted"

==============================================================================
