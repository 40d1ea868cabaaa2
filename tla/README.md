# A formal model of sentinel-dns

TLA+ modules that model the resolver in `src/sentinel_dns`, TLC configurations
that check them on small instances, and proofs for TLAPS.  Line numbers refer
to `src/sentinel_dns` unless a path is given; `PROJECT.json` maps every
definition to the lines it stands for.

Contents: 1. the system · 2. the modules · 3. how they correspond to the code ·
4. the runs and their bounds · 5. fairness · 6. what is proved · 7. where the
documentation and the code disagree · 8. what is not modelled · 9. plan.

## 1. The system

| part | state it keeps | operations | talks to |
|---|---|---|---|
| command dispatcher (`cli.py`) | none | choice by the first word | forwarder, `tail`, `explain` |
| forwarding protocol (`forwarder.py` 50-259) | one task per datagram | `datagram_received`, `_handle`, `_score_inline`, `_record`, `_forward` | cache, blocklist, classifier, query log, upstream resolver |
| decision cache (`cache.py`) | an `OrderedDict` from spelled names to decisions, two counters | `get`, `put` | called by the protocol |
| static blocklist (`blocklist.py`) | a frozen set of hosts, the last error | `in`, `refresh_sync`, `run_refresh_loop` | a feed over HTTP, on an executor thread |
| classifier (`classifier.py`) | a model, read-only | `score`, `heuristic_signals` | called by the protocol and by `explain` |
| explanations (`explanation.py`) | none | `explain` | called by the protocol, `tail` and `explain` |
| query log (`query_log.py`) | a bounded queue, the writer's batch, one SQLite connection, counters | `start`, `log_nowait`, the writer, the retention loop, `_flush`, `_purge`, `_close`, `stop` | an SQLite file, through executor threads |
| `tail` (`tail_cmd.py`) | the last id it printed | first query, follow loop | reads the file from another process |
| `explain` (`explain_cmd.py`) | none | lookup of a name | reads the file from another process |
| settings and life cycle (`config.py`, `forwarder.py` 262-468) | a frozen `Config`, the parts built | `merge`, `main`, `serve` | everything above |

What is hard about it:

* *Two threads, one connection.*  Flush, final flush, purge and close run on
  executor threads and use one SQLite connection, so they share a transaction:
  whoever commits or rolls back does so for all.
* *Shutdown.*  `stop()` cancels the two coroutines and closes the connection at
  once; a running flush is not stopped by the cancellation of its await, and
  the writer's handler starts another one.
* *Half a shutdown.*  `serve` may end with an error before it gets to `stop()`,
  `asyncio.run` cancels whatever is left, and up to Python 3.11 a coroutine may
  miss its cancellation.  Tasks of datagrams and a download are under way when
  the socket is closed.
* *Crash and restart.*  The file outlives the process, and readers go by its ids.
* *Interleaving at awaits.*  Queries overlap while they wait for the upstream
  resolver, and a thread replaces the blocklist under them.
* *Stale decisions.*  The cache outlives the blocklist it was filled from, and
  keeps spellings apart that the blocklist does not.
* *Recomputation.*  Reasons are not stored with a decision but computed again
  from the name, in four places.
* *Failures everywhere.*  Any SQLite call, download, upstream query or start-up
  step may fail.

`PROJECT.json` lists the hazards one by one, at their lines, with the
properties that are about them.

What makes each part correct:

* query log: a record in memory reaches the table or is reported, once and in
  order; memory is bounded; the file loses only old rows and never uses an id
  twice; a shutdown ends;
* cache: exactly the names used last are kept, with their last decision;
* forwarder: a host that every blocklist lists is not passed on, nothing is
  blocked without a cause, the log agrees with the answer, every query is
  answered, refreshes go on, Ctrl-C ends the process;
* explanations: one list of reasons wherever it is shown, the deciding one
  first, consistent with the stored score; the readers' filters agree;
* `tail -f`: every matching row once, in order;
* life cycle: what serves is what was asked for, nothing else serves, and the
  log is open whenever the socket is.

## 2. The modules

    LruDict  <-  DecisionCache  --implements-->  LruPolicy
       ^              ^
    Forwarder    MCDecisionCache  <-  DecisionCacheProofs
       ^
    ForwarderProofs

    QueryLog  --implements-->  DurableTable  <--relies on--  TailFollow
       ^                                                        ^
    QueryLogProofs  <----------------------------------  LogAndTail
                                                                ^
                                                         TailFollowProofs

    WriterTiming  <-  WriterTimingProofs       Startup  <-  StartupProofs

    Explanation  <-  ExplanationProofs

* **LruDict** - the ordered dictionary of the cache, as operators.
* **DecisionCache** - `get` and `put` as a state machine; **LruPolicy** - what a
  least-recently-used cache promises, without lists.
* **QueryLog** - queue, writer, retention loop, four jobs, one connection, stop,
  crash, restart; **DurableTable** - what the file promises to its readers.
* **WriterTiming** - the writer with a clock and nothing else.
* **Forwarder** - tasks, cache, blocklist and its refresh, and the end of the
  service.
* **TailFollow** - `tail` on a file that changes as DurableTable allows;
  **LogAndTail** - `tail` and the forwarder's log as two processes on one file.
* **Explanation** - from a decision to the log and to every place its reasons are
  shown, and which rows `tail` and `explain` find.
* **Startup** - the dispatcher, settings, building, opening and closing.
* **MC...** modules give the constants of these modules values for TLC, and
  MCDecisionCache adds two history variables.
* **...Proofs** modules hold the theorems about the module of the same name.
  **SequenceFacts** has the lemmas that five of them share: what elements a
  sequence has when it grows, shrinks, loses one or is joined to another.

Abstract specifications come in two places.  DecisionCache implements LruPolicy:
the recency list is mapped to the relation "was used before".  QueryLog
implements DurableTable: the committed table is mapped to the table, the latest
cutoff to the limit.  TailFollow takes DurableTable as its environment instead
of QueryLog itself, which keeps its run small.  LogAndTail puts the two together:
`System` is the conjunction of the log's specification and of `TailSpec`, the steps
of `tail` alone, with `table` and `limit` for the log's `disk` and `cutoff`.  It has
no run: TLC would have to look at every pair of their states, and `tail` is shown
right on every file that the log can leave (section 6).

Definitions named after another one with an addition (`WriterResumeAtOnce`
beside `WriterResume`) are mutants, plausible mistakes under which a property
must fail; their comments say so.  They are not part of any specification.

## 3. Models and code

**QueryLog.**  A record is the number of its arrival, which is also its
timestamp (the clock is taken to be monotone).  A step of the event loop runs
from one await to the next: `LogNowait`/`LogOverflow` (151-158), `WriterTake`,
`WriterTimeout`, `WriterResume` (187-199), `WriterCancelled`, `WriterFinished`
(200-206), `RetentionWake`, `RetentionResume` (217-229), `Stop` (143-149),
`StopSkipped` (forwarder.py 282, 317: `serve` raises before `stop()`),
`ServeReturns`, `ProcessExit`.  A step of a thread is one call into SQLite: `FlushStart`,
`FlushInsert` for each row, `FlushCommit`, `FlushError`, `FlushAssertion`
(208-215), `PurgeDelete`, `PurgeCommit`, `PurgeError` (233-237),
`CloseConnection`, `CloseDone` (178-181).  `view` is the table as the
connection sees it, `disk` as it was last committed, `inTxn` whether there is a
transaction.  `batch` is the very list that a flush is given, so a drain during
a flush changes what the flush counts, as in the code.

 * `cancel` is a cancellation that the writer has not seen yet.  `MayMiss` is the
   choice of asyncio: from Python 3.12 on (the image pins 3.13) a `wait_for`
   whose awaitable is ready when the cancellation comes raises `CancelledError`;
   up to 3.11, which `pyproject.toml` admits, it may return the record, and the
   writer goes on (`Cancellation`).  Then `stop()` closes the connection under a
   writer that lives; its next flush fails the assertion of line 209 and ends
   it.  Only with `stop()` skipped as well, and nothing in queue and batch, does
   the process hang: that state is `Stranded`.  `NobodyWaitsInVain` says that it takes
   these two accidents to get there, `ShutdownCompletes` that nothing else keeps a
   shutdown from its end.
 * The ready queue is first in, first out, so the writer's handler has run
   before `serve` resumes from the close.
 * The executor has at least five threads; four jobs never wait for one another.
 * A crash is the end of the process or of the power: what was not committed is
   gone.  That `synchronous=NORMAL` may also lose the end of the WAL on a power
   failure is left out.
 * `written +=` (213) is one step.  Two flushes may run at the same time only after
   a cancellation, when nobody reads the counter any more.
 * A second Ctrl-C during a shutdown is left out.

**WriterTiming.**  Ticks pass only while the writer waits; a flush takes none.

**DecisionCache / LruDict.**  `order` is the order of the `OrderedDict`, oldest
first.  `put` evicts one name when the dictionary is full.

**Forwarder.**  A name is a spelling; `Lower` maps spellings to hosts, which is
what the blocklist holds and the classifier, which lower-cases, looks at.  The
classifier is the set of hosts it flags.  The first step of `_handle` up to its
await is one action, with the decision, the entry in the cache, the printed
line and the record.  A download that succeeds brings the text of any of
`Feeds`; a line of a text lists a name, as spelled, or it does not, and `Parse`
makes hosts of the lines (107-121).  A replacement of the blocklist in the middle of `_score_inline`, after the
lookup, leaves the state that one right after it leaves, so it is not a case of
its own.  A datagram is a query, a stray answer (the QR bit is set, for which
dnspython refuses to make a response), a message without a question, or
malformed.  The end of `serve` (312-319) is `CloseTransport`, `SocketClosed`,
which comes after the first steps of the tasks already in the ready queue,
`TasksCancelled`, when `asyncio.run` cancels the tasks that still await the
upstream resolver, and `ProcessExits`, which waits for a download under way.  An
answer that comes between closing and cancelling is lost.

**TailFollow.**  A query reads one committed table.  `fetched` are the rows of
the result still to be printed, `count` is `--count`.  `first` and `fence` are history
variables, the last id ever used when the first and the latest query were made.  A file that is missing at the start ends `tail`
before the first query and is left out.  `TailStep` is what `tail` does, `TableStep`
what becomes of the file meanwhile.

**Explanation.**  A name is what the heuristics measure: top-level domain as
spelled, entropy, length, and marks for the other four signals.  Scores are in
hundredths.  A classifier is configured; which entry of the cache is evicted is
left open.  `config` is what the running process was given: whether it enforces, and a
threshold, for which the code takes any number (forwarder.py 349).  `Restart` is the next
process, which finds the log and an empty cache and may have other settings.  `rows` is
the log in the order of its ids, `live` the settings of the process that wrote each row
and what the BLOCK line of its query said (a history variable); `Purge` takes old rows away.  `Found` are the
places of the rows that `explain` selects (111-117), `InOrder` puts places in the
order of the ids, `NewestFirst` is the order of the query, `Latest` what `explain`
makes of the rows it finds (114-127), and `Explained` all of it.  `Selects` is the
WHERE clause of `tail` (35-57) without `--qname-contains` and `--client`, which look at
one column each and at nothing that a decision leaves in the row.

**Startup.**  Only the settings that decide what is built, and `score_logging`,
which `--quiet-scoring` turns off.  In the run each of them is left out, empty or given,
on the command line and in the file, except cache capacity and DoH URL, which are set in
the file only.  `enforced` stands for a key that is no field.
A path is not given, empty or given; `"."` is what an empty path on the command
line becomes.  A first word of the command line is empty, a request for help, a
flag of the forwarder, a subcommand or none of these (cli.py 42-64).

## 4. The runs

| run | module | states | what it shows |
|---|---|---|---|
| decision_cache | MCDecisionCache | 12 thousand | exactly the recent names are kept, hits return the last put, LruPolicy is implemented |
| log_in_use | QueryLog | 3.9 million | order, balanced counters that describe the table, bounded memory, no greater loss than that in a crash, with failing flushes, overflow, purges, a crash and a second process |
| log_shutdown | QueryLog | 5.0 million | the file implements DurableTable, no record gets a third row, and nobody awaits a job that is not there, under every failure, stop, half a stop, missed cancellation, crash and restart |
| log_live | QueryLog | 816 thousand | every record is settled, none is lost silently before the process has ended, a shutdown ends, also without `stop()` or with a missed cancellation |
| writer_timing | WriterTiming | 477 | how long a record waits |
| forwarder | MCForwarder | 191 thousand | provenance, agreement of log and answer, hits repeat misses; every query is answered, refreshes go on, Ctrl-C ends the process |
| tail_follow | MCTailFollow | 125 thousand | order, nothing printed twice or skipped, no more old rows than `--count` says, a row that stays is printed |
| explanation | MCExplanation | 225 thousand | one story, score and reasons agree, cause first; `explain -n` shows the latest rows in order, the filters of `tail` agree, with processes that enforce, measure, and have a threshold of 0 |
| startup | MCStartup | 1.7 million | log outlives socket, settings are obeyed, only the forwarder serves |

The three runs of section 7 are the remaining ones.

Why the bounds are enough.  *QueryLog*: with batches of two and a queue of two,
three records make a full batch and a rest, four make an overflow during a
flush, five are one more than memory may hold; a flush has a state between two
rows in which the purge can commit or roll back; two processes are a restart.
Bigger values only repeat these.  Where Ctrl-C, crash and every failure come
together, and under fairness, three records are what TLC can do in a minute.
*DecisionCache*: three places and four names, so that an eviction leaves names
whose order matters; two decisions tell an old value from a new one.
*Forwarder*: two queries overlap in every way and are a miss and a hit, or a miss
that evicts the other; one place in the cache makes every other name evict; two
refreshes list and unlist a host; the feeds and the clients spell the host "ads"
in two ways, one feed lists an address, one is empty.  A hit after an eviction
needs a third query: that the safety properties hold for any number is the
theorem's part (section 6).
*TailFollow*: four ids, of which any may be missing or deleted, and two records, of
which the filter leaves one out, so that the ids it selects have gaps of every size;
`tail` shows no row, one, two or all of them, and follows.
*Explanation*: values on both sides of each limit of the heuristics; two cached
entries, so that another name or spelling is present; three rows, so that a count can
be less than what there is and rows of two names, or of three processes, can
alternate; scores of 0, which the rows of the blocklist have too, and 84; three pairs of
settings, to enforce and to measure at 84, and to enforce at 0, which every score reaches.
*Startup*: the settings as section 3 says, and every kind of first word.

Deadlock is not checked where the bounds end a behaviour or a process ends,
which is everywhere but in DecisionCache, WriterTiming and Explanation, where
it is.

## 5. Fairness

*QueryLog*: the event loop gets round to a coroutine that can go on
(`WriterStep`, `RetentionResume`, `ServeStep`), and the executor to a job
(`FlushStep`, `PurgeStep`, `CloseStep`): weak fairness, since none of these is
disabled by another step for good without its own progress.  The writer's
timeout is part of `WriterStep`: `wait_for` ends by itself.  Nothing is assumed
of records, wake-ups of the retention loop, Ctrl-C, failures of `serve`, crashes
and restarts.

*Forwarder*: a task runs when it can, and every await ends, the upstream query
by `upstream_timeout`, the download by `request_timeout_s`.  The outcome is not
fair: upstream may always fail.  Once `serve` ends, `asyncio.run` goes on to the
end (`ServeEnds`).  Datagrams, wake-ups and Ctrl-C need not come.

*TailFollow*: the process of `tail` runs.  The file need not change.

## 6. What is proved

TLAPS checks these for every value of the constants that the ASSUMEs allow.

* `QueryLogProofs!TypeCorrect`, the type invariant.
* `QueryLogProofs!MemoryIsBounded`.  `BoundedMemory` is not inductive: `MemoryInv`
  adds how much the batch holds at each place of the writer, and that the queue
  stays empty after the drain.
* `QueryLogProofs!FileIsDurable`: QueryLog implements DurableTable.  Any job may
  commit the transaction of another one, so the table that is not committed yet
  must at every moment be one that may be published: `DurableInv`.
* `QueryLogProofs!EveryRecordCountedOnce`, `ArrivalOrderKept` and
  `CountersAgreeWithTable`, about a process that serves.
  They rest on `UseInv`: such a process has an open connection, a writer nobody has cancelled, and one flush job,
  at the place where the writer awaits it; and a process that has ended has left
  nothing but the file.  So only the steps of `UseNext` remain (`UseStep`).
  `ArrivedInv` says that nothing holds a record before its arrival, `QueueInv` that
  batch and queue are increasing and follow one another.  Then each theorem has an
  invariant of its own.  `TallyInv`: what is counted in different
  places is disjoint.  `OrderInv`: both the committed and the open table are in
  order, and below everything that is still ahead of them, so that a rollback or a
  half-way commit by the other job disturbs nothing.  `CountInv`: in the open
  transaction the rows are those counted and those the running flush has inserted,
  less those the purge has deleted and the loop not added up; this theorem, too,
  assumes that purges do not fail.
* `QueryLogProofs!NothingLostSilently`, about a process that has not ended.
  `LossInv`: what is committed is in the open transaction too, and of a flush whose
  batch the writer is going to forget (`Forgetful`) each record is still to be
  inserted or inserted in that transaction, and when the flush is over committed or
  warned of.  A cancelled writer forgets nothing: its handler keeps the list, so
  what two flushes do to it is harmless here.  `JobsInv` is needed for where the flush
  jobs can be.  The theorem assumes that purges do not fail, without which run
  log_purge_fails refutes it.  A record that the handler's flush fails to write stays
  in `batch` to the end of the process, and is lost with it.
* `QueryLogProofs!LossIsBounded`, about that loss, under the same assumption: what is
  unaccounted for is in memory (`NothingLostSilently`), memory is bounded
  (`MemoryIsBounded`), and the end of a process adds nothing to it
  (`LossBoundStep`).
* `QueryLogProofs!NoVainWait`.  `WaitInv`: a cancellation withdraws a job only from the
  writer that it ends; in a shutdown the close is queued, runs or is over, or
  `stop()` was skipped; and a writer that has missed its cancellation and finds the
  connection closed has a batch begun, or a flush that can only raise.
* `QueryLogProofs!NeverAThirdRow`: one row of a record while the log is in use, two
  at most ever after.  This is about every phase of a process, also those in
  which two flush jobs run.  `JobsInv` says where each can be: the
  handler's flush comes when the writer has left its loop, and then the flush of
  the loop is withdrawn, running or over.  `PlacedInv` is `QueueInv` for all
  phases, and says that a running job holds part of the batch and each record
  once.  `RowsInv` then counts, in the open and in the committed table alike, as a
  rollback goes back to the latter: a record has no row or is not ahead of the
  table (`Once`), until the writer leaves its loop, and its rows and the jobs that
  have still to insert it are never more than two (`Twice`).  Submitting the
  handler's flush takes one step from the first to the second (`RowsSubmitted`),
  an insert moves one from the jobs to the rows (`RowsInsert`), every other step
  takes something away (`NothingInserted`).
* `TailFollowProofs!TailPrintsInOrder`, `TailSkipsNothing` and `TypeCorrect`, from
  `IdsAhead` (itself `TailIdsAhead`), which
  relates the ids printed, to be printed, in the table, and ever used.
* `TailFollowProofs!TailKeepsToCount`: of the rows that were there at the first query
  `tail -n` never shows more than it was asked for, however long it follows.
  `LatestCounts`: the newest n rows, which are those with fewer than n newer ones, are at
  most n, since their ranks differ.  `StartInv`: of the rows up to `first` at most n are
  shown, and at least one if the filters select any; then the last printed id is at or
  above it, and `NothingSkipped` leaves a poll no other one to bring.  The exception is
  `-n 0 -f`, whose first poll brings all rows, as docs/cli.md:202 says.
* `TailFollowProofs!TailIsRightOnTheLog`: the same of `tail` on the file of the
  forwarder (LogAndTail), whatever the two do at the same time.  `FileIsDurable` turns
  the steps of the log into steps of the environment of `tail` (`SystemStep`).
* `TailFollowProofs!TailPrintsAsArrived`: `PrintedAsArrived`, from the query that arrives
  to the printed row.  While the log is in use, what `tail` prints of its process is
  in the order of arrival.  `SeenInv`: the rows `tail` has printed, fetched or could
  fetch are in that order, and before all that is still on its way to the file.
  It joins the order within the log (`OrderInv`), the promise that new rows have new
  ids, and the fence of `tail`.
* `WriterTimingProofs!AgeIsBounded`, from `AgeBySize` (`AgePerRecord`), which charges every record
  but the first with one interval.
* `DecisionCacheProofs!TypeCorrect`, `OrderAgrees`, `ImplementsPolicy`.  The
  invariant is that of the dictionary, `DictOK`: a list of distinct names, a map
  with the same names.  Moving a name to the end and giving up the first one both
  take one name out of the list (`Without`), which keeps the order of the others
  (`WithoutOrder`), and put one at its end (`AppendOrder`); `LatestOrder` says
  that this is the policy's use of a name, `PutFull` that the first of the list
  is the policy's victim.
* `DecisionCacheProofs!KeepsTheRecent` and `HitsAreCurrent`, what a caller may rely
  on, of the specification with its history variables.  `HistInv`: a cached name
  has the decision of its last put, and the names used since its own last use are
  just those after it in the list (`After`); a name that is not cached has never
  been put, or at least Capacity names have been used since.
* `ForwarderProofs!SteadyListIsEnforced`, `NoBlockWithoutCause`,
  `LogTellsTheReply`, `CachedForCause`, from `FInv`: the hosts always listed are
  listed now, those listed now were listed at some time; a task has said nothing
  before its first step and nothing of a block while it waits; and every cached
  decision is justified, which no eviction, refresh or end of the service undoes.
* `ForwarderProofs!HitsRepeatMisses`: from an invariant that every cached decision
  is that of a logged miss of the same spelling.
* `ForwarderProofs!TypeCorrect`, with the capacity of the cache.  A used name is
  looked for in the list, so the list must have all names of the map
  (`DictTypes`), or there would be no place to take it from.
* `StartupProofs!LogIsOpenWhileServing`, from `LogInv`, which follows the log from
  its place in the settings to the list of parts and to what is open.
* `StartupProofs!ServesOnlyWhatWasAsked`, from three invariants that no step
  disturbs: what was typed decides who goes on (`TypedInv`), the merge sets every
  field (`MergedInv`), every part is built or the process ends (`PartsInv`);
  `SettingIsAsked` compares the merge with what was asked for.  It assumes
  `ValuesAssumption`: a path or URL is "", a usable one or not set, and the flag
  --quiet-scoring has no value but true.
* `StartupProofs!TypeCorrect`, which needs `TypedInv`: the settings are merged from
  values of the types that the command line and the file can have.
* `ExplanationProofs!OneStoryAlways`, `ScoreMatches`, `CauseIsFirst`,
  `FiltersAlwaysAgree` and `TypeCorrect`.  The invariant, `EInv`, says that every
  cached decision is a verdict of the inline tier about its own name at the present
  threshold, and every row what a verdict about its own name leaves in a process with
  the settings kept in `live` (`Entries`); each theorem is then a fact about one row
  (`EntryStory`, `EntryScores`), which comes from the three kinds of verdicts
  (`VerdictShape`) and the parts of `explain` (`SourceFirst`, `HeuristicsSet`).
  They hold for every threshold that is an integer, in hundredths.
  `FiltersAlwaysAgree` says what one of 0 or less does, since the code accepts it:
  `--min-ml-score` with that threshold then selects the rows of the blocklist as well,
  which are stored with a score of 0.
* `ExplanationProofs!HistoryAlwaysInOrder`, from `LatestAreLast`, about what
  `explain -n` makes of the rows it has found, whatever they are.  `InOrder` is an
  enumeration of a finite set of places: their ranks grow (`RankGrows`) and each is
  taken (`RankTaken`, which counts), so the list is sorted and complete
  (`InOrderLists`); reversing, cutting and reversing again leaves its end (`Turned`).

The Forwarder's run enforces; its theorems are about measurement mode, and every
other setting, as well.

Only model-checked: all liveness properties, which the prover cannot do
(`EventuallySettled` and `ShutdownCompletes` of QueryLog, `EveryQueryAnswered`,
`RefreshGoesOn` and `ShutdownEnds` of Forwarder, `FollowCatchesUp` of TailFollow).
Four theorems are about properties that no run checks: `TailPrintsAsArrived`,
`TailIdsAhead`, `AgePerRecord` and `OrderAgrees`.  The last three are invariants that
other theorems rest on.

## 7. Where the documentation and the code disagree

Three runs have one property each, a sentence of the documentation, and TLC finds
a behaviour of the code that violates it.

| run | the sentence | what happens |
|---|---|---|
| log_ctrl_c | docs/query-log.md:76 "On a normal Ctrl-C the in-flight records hit disk" | the close overtakes the writer's last flush |
| log_purge_fails | query_log.py:3-4 "every query gets a durable record" | a failing purge rolls back rows of a concurrent flush, which counts them as written |
| explain_spelling | docs/cli.md:104 "If a domain has never been queried (or its records have been purged by retention), `explain` prints a "no records" message" | it does so of a name that was queried with a capital letter, too: the log has the spelling of the client (forwarder.py:84, 163), `explain` looks for the lower-case form (explain_cmd.py:111) |

The second checks `NoSilentLoss`, which holds in log_live, where flushes fail
and a shutdown goes every way it can, but purges do not fail; here only they do.

Seen while modelling, and visible in the models, but not among the runs:

| the sentence | the code | in the models |
|---|---|---|
| query_log.py:69 "One row destined for the queries table" | Ctrl-C during a flush makes the handler flush the same list again (194, 205) | `TwoRowsAtMost` allows the second row, and no third |
| docs/query-log.md:71 "lose the most recent batch" | a crash loses the queue as well (119) | `BoundedLoss` is the bound that holds |
| docs/query-log.md:72 "100 records per transaction or 1s, whichever first" | every record restarts the second (189); the docstring at query_log.py:13-14 has it right | `AgeBound` is the bound that holds |
| docs/query-log.md:63 "Every query when --log-path is set" | not without an inline tier (forwarder.py:83) | `HandleUnscored` |
| sentinel-dns.example.toml:56-57 "BLOCK + explain lines still appear" | not with `score_logging = false` (forwarder.py:154) | `Printed` |
| blocklist.py:8-10 "domains the feed has already flagged are blocked" | not while an older decision is cached (forwarder.py:103); docs/decision-cache.md:92 concedes it | `SteadilyListedIsBlocked` speaks of hosts that every list had |
| forwarder.py:254-255 "The per-query task must never crash" | `make_response` raises for a message with the QR bit (226, 257) | `HandleScored` and `FailureRaises` end in "raised" |
| docs/configuration.md:59 "the parser errors out" | not with `blocklist_url = ""` (forwarder.py:429) | `CheckEnforce`, `WantsBlocklist` |

## 8. What is not modelled

* The numerics of the classifier and its training script: a model checker has
  nothing to say about TF-IDF and logistic regression.
* The text of TOML files, rows and messages, and `explain --verbose`: wording and
  layout.  Of a feed only what its lines list.
* DNS and DoH transport: dnspython and httpx are external, an upstream query
  ends with an answer or an exception.
* The benchmarks and the image: they are no part of the resolver.
* `stats` of log, cache and blocklist: they read counters, which the models have.
* Forwarder and QueryLog are not composed.  QueryLog lets records arrive until
  the writer is cancelled, which is when Forwarder's tasks make them.
* A second Ctrl-C during a shutdown, a clock that goes backwards, and the end of
  the WAL after a power failure.

## 9. Plan

What is there, most important first: QueryLog with DurableTable; LruDict,
DecisionCache and LruPolicy; Forwarder; WriterTiming; TailFollow; Explanation;
LogAndTail; Startup.  Every safety and action property of the passing runs is a
theorem too.  What is left:

1. To prove: what a shutdown without failures leaves in the file, which is less than
   the documentation says (log_ctrl_c) but not nothing.
2. To compose: Forwarder with QueryLog, so that the order of the printed rows is that
   of the answers and not of the records.
3. To model: the end of the WAL, and a third query in the run of Forwarder, if
   its liveness is checked apart from its safety.
