------------------------------- MODULE Forwarder -------------------------------
(***************************************************************************)
(* ForwardingProtocol of sentinel_dns/forwarder.py with the blocklist of   *)
(* sentinel_dns/blocklist.py behind it.  Each datagram gets a task of its  *)
(* own: its first step decides (decision cache, blocklist, classifier),    *)
(* records the decision and answers a blocked query; any other query       *)
(* awaits the upstream resolver while more datagrams are handled.  The     *)
(* blocklist is replaced by a thread of the executor, between any two      *)
(* steps.  (It may also be replaced inside _score_inline, after the        *)
(* blocklist was read: the state it leaves is the one of a replacement     *)
(* right after the step.)                                                  *)
(*                                                                         *)
(* Query names differ in case: the cache is keyed by the spelling, the     *)
(* blocklist and the classifier look at the lower-case host.               *)
(*                                                                         *)
(* At the end serve() closes the socket while tasks and a download may be  *)
(* under way, and asyncio.run cancels what is left of them.                *)
(***************************************************************************)
EXTENDS LruDict, FiniteSets

CONSTANTS
    Queries,       \* bound: datagrams of a behaviour, numbered as they arrive
    Spellings,     \* query names as clients spell them
    Hosts,         \* lower-case host names
    Lower,         \* str.lower, from spellings to hosts
    IpLike,        \* hosts that begin like an IP address
    Feeds,         \* texts that downloads of the feed return, as sets of lines
    Flagged,       \* hosts the classifier scores at block_threshold or above
    CacheCapacity, \* config.cache_capacity, 0: no cache
    HasClassifier, HasBlocklist, HasLog,  \* the parts that are configured
    Enforce, ScoreLogging,                \* config.enforce, config.score_logging
    MaxRefreshes   \* bound: wake-ups of the refresh loop

(* A line of a feed: one with a second word, or a comment, a blank line or *)
(* one with a single word.                                                 *)
Lines == [kind : {"entry"}, name : Spellings] \cup [kind : {"other"}]

ASSUME NamesAssumption ==
    /\ Lower \in [Spellings -> Hosts]
    /\ Feeds \subseteq SUBSET Lines /\ Feeds # {}
    /\ Flagged \subseteq Hosts
ASSUME ConfigAssumption ==
    /\ Queries \subseteq Nat
    /\ CacheCapacity \in Nat /\ MaxRefreshes \in Nat
    /\ {HasClassifier, HasBlocklist, HasLog, Enforce, ScoreLogging} \subseteq BOOLEAN

(* What from_wire makes of a datagram: a query, a message with a question  *)
(* and the QR bit of an answer, one without a question, or an exception.   *)
Messages == [kind : {"query", "answer"}, name : Spellings]
                \cup [kind : {"empty", "malformed"}]

VARIABLES
    service,   \* serve(): "up", "closing" (the transport), "closed" (the socket),
               \* "down" (asyncio.run cancels the tasks), "exited"
    pc,        \* task of a datagram: "idle", "created", "forwarding", "done",
               \* "raised", "cancelled"
    asked,     \* what the datagram says
    reply,     \* what the client was sent, "lost" if the socket was closed by then
    line,      \* what was printed for the query
    record,    \* the QueryRecord handed to log_nowait
    cache,     \* the decision cache
    blocklist, \* StaticBlocklist._domains
    lastError, \* StaticBlocklist._last_error is set
    refresh,   \* run_refresh_loop: "sleep", "fetching", "fetched", "failed", "ended"
    refreshes, \* wake-ups so far
    everListed, alwaysListed  \* history: hosts of some, of every feed so far

taskVars == <<pc, asked, reply, line, record, cache>>
listVars == <<blocklist, lastError, refresh, refreshes, everListed, alwaysListed>>
vars == <<service, taskVars, listVars>>

Sources   == {"blocklist", "classifier", "none"}
Decisions == [would_block : BOOLEAN, block_source : Sources]
Scorings  == [decision : Decisions, cache_state : {"hit", "miss"}, timed : BOOLEAN]
NoRecord  == [action |-> "none"]
NoMessage == [kind |-> "none"]

HasInlineTier == HasClassifier \/ HasBlocklist
HasCache      == HasInlineTier /\ CacheCapacity > 0  \* forwarder.main

TypeOK ==
    /\ service \in {"up", "closing", "closed", "down", "exited"}
    /\ pc \in [Queries -> {"idle", "created", "forwarding", "done", "raised", "cancelled"}]
    /\ asked \in [Queries -> Messages \cup {NoMessage}]
    /\ reply \in [Queries -> {"none", "nxdomain", "upstream", "servfail", "lost"}]
    /\ line \in [Queries -> {"none", "score", "BLOCK"}]
    /\ \A q \in Queries :
          record[q] # NoRecord =>
              record[q] \in [action : {"block", "allow"}, scoring : Scorings, name : Spellings]
    /\ Cached(cache) \subseteq Spellings
    /\ \A s \in Cached(cache) : cache.val[s] \in Decisions
    /\ Len(cache.order) <= CacheCapacity
    /\ blocklist \subseteq Hosts /\ lastError \in BOOLEAN
    /\ refresh \in {"sleep", "fetching", "fetched", "failed", "ended"}
    /\ refreshes \in 0..MaxRefreshes
    /\ everListed \subseteq Hosts /\ alwaysListed \subseteq Hosts

(* Mutant of Parse: the names of the feed are not lower-cased.             *)
ParseAsSpelled(text) == {l.name : l \in {k \in text : k.kind = "entry"}} \ IpLike

(* _parse: the second words of the lines, lower-cased, without addresses.  *)
Parse(text) == {Lower[l.name] : l \in {k \in text : k.kind = "entry"}} \ IpLike

(* The hosts that a feed lists, however it spells them.                    *)
Named(text) ==
    {h \in Hosts \ IpLike : \E l \in text : l.kind = "entry" /\ Lower[l.name] = h}

(* main() loads the blocklist before it serves.                            *)
Init ==
    /\ service = "up"
    /\ pc = [q \in Queries |-> "idle"]
    /\ asked = [q \in Queries |-> NoMessage]
    /\ reply = [q \in Queries |-> "none"]
    /\ line = [q \in Queries |-> "none"]
    /\ record = [q \in Queries |-> NoRecord]
    /\ cache = EmptyDict
    /\ \E text \in IF HasBlocklist THEN Feeds ELSE {{}} :
          blocklist = Parse(text) /\ everListed = Named(text) /\ alwaysListed = Named(text)
    /\ lastError = FALSE
    /\ refresh = "sleep" /\ refreshes = 0

------------------------------------------------------------------------------
(* The inline tier.                                                        *)

ByBlocklist    == [would_block |-> TRUE, block_source |-> "blocklist"]
NothingFlagged == [would_block |-> FALSE, block_source |-> "none"]

(* Mutants of Listed and WouldBlock: the blocklist is asked for the name   *)
(* as spelled; the comparison with the threshold is reversed.              *)
ListedAsSpelled(s) == HasBlocklist /\ s \in blocklist
WouldBlockBelow(s) == Lower[s] \notin Flagged

Listed(s)     == HasBlocklist /\ Lower[s] \in blocklist
WouldBlock(s) == Lower[s] \in Flagged

(* The decision about a name that is not in the cache.                     *)
Verdict(s) ==
    CASE Listed(s) -> ByBlocklist
      [] ~Listed(s) /\ HasClassifier ->
            [would_block  |-> WouldBlock(s),
             block_source |-> IF WouldBlock(s) THEN "classifier" ELSE "none"]
      [] OTHER -> NothingFlagged

(* Mutant of FromCache: a hit is decided anew.                             *)
FromCacheAnew(s) == Verdict(s)

FromCache(s) == cache.val[s]

(* _score_inline: its result, and the cache it leaves.  inline_us is set   *)
(* when the classifier ran.                                                *)
ScoreInline(s) ==
    IF HasCache /\ s \in Cached(cache)
    THEN [decision |-> FromCache(s), cache_state |-> "hit", timed |-> FALSE]
    ELSE [decision |-> Verdict(s), cache_state |-> "miss",
          timed |-> HasClassifier /\ ~Listed(s)]

CacheAfterScoring(s) ==
    CASE ~HasCache                    -> cache
      [] HasCache /\ s \in Cached(cache) -> AfterGet(cache, s)
      [] OTHER -> AfterPut(AfterGet(cache, s), s, Verdict(s), CacheCapacity)

BlockAction(scoring) == Enforce /\ scoring.decision.would_block

StdoutWorthLogging(scoring) ==
    \/ scoring.cache_state = "hit"
    \/ scoring.decision.block_source # "none"
    \/ scoring.timed

(* What _record prints, and what it hands to the query log.                *)
Printed(scoring) ==
    CASE ~ScoreLogging -> "none"
      [] ScoreLogging /\ BlockAction(scoring) -> "BLOCK"
      [] ScoreLogging /\ ~BlockAction(scoring) /\ StdoutWorthLogging(scoring) -> "score"
      [] OTHER -> "none"

(* Mutant of LoggedAction: a fresh decision instead of the one acted on.   *)
LoggedActionAnew(s, scoring) ==
    IF Enforce /\ Verdict(s).would_block THEN "block" ELSE "allow"

LoggedAction(s, scoring) == IF BlockAction(scoring) THEN "block" ELSE "allow"

Logged(s, scoring) ==
    IF HasLog
    THEN [action |-> LoggedAction(s, scoring), scoring |-> scoring, name |-> s]
    ELSE NoRecord

------------------------------------------------------------------------------
(* Steps of the event loop.                                                *)

DatagramReceived(q) ==
    /\ service = "up" /\ pc[q] = "idle"
    /\ \A p \in Queries : pc[p] = "idle" => q <= p
    /\ \E m \in Messages : asked' = [asked EXCEPT ![q] = m]
    /\ pc' = [pc EXCEPT ![q] = "created"]
    /\ UNCHANGED <<service, reply, line, record, cache, listVars>>

(* A task goes on to `state` without a trace.                              *)
Proceeds(q, state) ==
    /\ pc' = [pc EXCEPT ![q] = state]
    /\ UNCHANGED <<service, asked, reply, line, record, cache, listVars>>

DropMalformed(q) ==
    /\ pc[q] = "created" /\ asked[q].kind = "malformed"
    /\ Proceeds(q, "done")

(* make_response raises for a message with the QR bit.                     *)
CanRespond(q) == asked[q].kind # "answer"

(* The first step of _handle for a query that is scored: up to the reply   *)
(* with NXDOMAIN, or to the await of the upstream resolver.                *)
HandleScored(q) ==
    /\ pc[q] = "created" /\ asked[q].kind \in {"query", "answer"} /\ HasInlineTier
    /\ LET s       == asked[q].name
           scoring == ScoreInline(s)
           blocked == BlockAction(scoring)
       IN /\ cache'  = CacheAfterScoring(s)
          /\ line'   = [line EXCEPT ![q] = Printed(scoring)]
          /\ record' = [record EXCEPT ![q] = Logged(s, scoring)]
          /\ reply'  = [reply EXCEPT ![q] =
                          IF blocked /\ CanRespond(q) THEN "nxdomain" ELSE @]
          /\ pc'     = [pc EXCEPT ![q] =
                          CASE ~blocked                  -> "forwarding"
                            [] blocked /\ CanRespond(q)  -> "done"
                            [] blocked /\ ~CanRespond(q) -> "raised"]
    /\ UNCHANGED <<service, asked, listVars>>

HandleUnscored(q) ==
    /\ pc[q] = "created"
    /\ asked[q].kind = "empty" \/ (asked[q].kind # "malformed" /\ ~HasInlineTier)
    /\ Proceeds(q, "forwarding")

(* sendto on a closed transport reports the error to the loop's exception  *)
(* handler and returns.                                                    *)
Sent(outcome) == IF service \in {"up", "closing"} THEN outcome ELSE "lost"

(* _forward returns the answer, or SERVFAIL for any failure or timeout.    *)
Forwarded(q, outcome) ==
    /\ pc[q] = "forwarding"
    /\ reply' = [reply EXCEPT ![q] = Sent(outcome)]
    /\ pc' = [pc EXCEPT ![q] = "done"]
    /\ UNCHANGED <<service, asked, line, record, cache, listVars>>

UpstreamAnswers(q) == Forwarded(q, "upstream")

(* Mutant of UpstreamFails: the exception ends the task.                   *)
UpstreamFailsUncaught(q) == CanRespond(q) /\ pc[q] = "forwarding" /\ Proceeds(q, "raised")

UpstreamFails(q) == CanRespond(q) /\ Forwarded(q, "servfail")

(* The handler of the failure raises itself.                               *)
FailureRaises(q) ==
    /\ pc[q] = "forwarding" /\ ~CanRespond(q)
    /\ Proceeds(q, "raised")

(* The refresh loop wakes up and awaits refresh_sync on a thread.          *)
RefreshWake ==
    /\ service = "up"
    /\ HasBlocklist /\ refresh = "sleep" /\ refreshes < MaxRefreshes
    /\ refresh' = "fetching"
    /\ refreshes' = refreshes + 1
    /\ UNCHANGED <<service, taskVars, blocklist, lastError, everListed, alwaysListed>>

(* Mutant of Resumable: a failure ends the loop.                           *)
ResumableFetched == {"fetched"}

Resumable == {"fetched", "failed"}

(* ... and goes back to sleep, after a failure as well.                    *)
RefreshResume ==
    /\ refresh \in Resumable
    /\ refresh' = "sleep"
    /\ UNCHANGED <<service, taskVars, blocklist, lastError, refreshes, everListed, alwaysListed>>

------------------------------------------------------------------------------
(* Steps of the executor's thread: refresh_sync.                           *)

(* A download that outlives the refresh loop has nobody to return to.      *)
Returned(outcome) == IF service = "up" THEN outcome ELSE "ended"

FetchSucceeds ==
    /\ refresh = "fetching"
    /\ \E text \in Feeds :
          /\ blocklist' = Parse(text)
          /\ everListed' = everListed \cup Named(text)
          /\ alwaysListed' = alwaysListed \cap Named(text)
    /\ lastError' = FALSE
    /\ refresh' = Returned("fetched")
    /\ UNCHANGED <<service, taskVars, refreshes>>

(* An error of the list in refresh_sync is noted; another one, such as     *)
(* http.client.IncompleteRead, is not.                                     *)
FetchFails ==
    /\ refresh = "fetching"
    /\ lastError' \in {TRUE, lastError}
    /\ refresh' = Returned("failed")
    /\ UNCHANGED <<service, taskVars, blocklist, refreshes, everListed, alwaysListed>>

------------------------------------------------------------------------------
(* The end of serve().                                                     *)

(* Mutant of CancelledRefresh: the loop catches the cancellation with its  *)
(* other errors.                                                           *)
CancelledRefreshCaught == {IF refresh = "fetching" THEN "fetching" ELSE "sleep"}

(* The cancelled refresh loop ends at its await.  A download goes on on    *)
(* its thread, unless no thread has taken it yet.                          *)
CancelledRefresh == {"ended"} \cup ({refresh} \cap {"fetching"})

(* The finally block cancels the refresh loop and closes the transport:    *)
(* no datagram is received from now on.                                    *)
CloseTransport ==
    /\ service = "up" /\ service' = "closing"
    /\ refresh' \in CancelledRefresh
    /\ UNCHANGED <<taskVars, blocklist, lastError, refreshes, everListed, alwaysListed>>

(* connection_lost, which closes the socket, comes after the first steps   *)
(* of the tasks that were in the ready queue before it.                    *)
SocketClosed ==
    /\ service = "closing" /\ service' = "closed"
    /\ \A q \in Queries : pc[q] # "created"
    /\ UNCHANGED <<taskVars, listVars>>

(* serve() ends, and asyncio.run cancels the tasks that are left: their    *)
(* `except Exception` does not catch CancelledError.  Only the closing of  *)
(* a log, or of a DoH client, lets the loop run before.                    *)
TasksCancelled ==
    /\ service \in {"closing", "closed"} /\ (HasLog => service = "closed")
    /\ service' = "down"
    /\ pc' = [q \in Queries |->
                IF pc[q] \in {"created", "forwarding"} THEN "cancelled" ELSE pc[q]]
    /\ UNCHANGED <<asked, reply, line, record, cache, listVars>>

(* The runner waits for the cancelled tasks and for the executor's threads. *)
ProcessExits ==
    /\ service = "down" /\ refresh = "ended"
    /\ service' = "exited"
    /\ UNCHANGED <<taskVars, listVars>>

------------------------------------------------------------------------------
TaskStep(q) ==
    DropMalformed(q) \/ HandleScored(q) \/ HandleUnscored(q)
        \/ UpstreamAnswers(q) \/ UpstreamFails(q) \/ FailureRaises(q)
FetchStep == FetchSucceeds \/ FetchFails
ServeEnds == SocketClosed \/ TasksCancelled \/ ProcessExits

Next ==
    \/ \E q \in Queries : DatagramReceived(q) \/ TaskStep(q)
    \/ RefreshWake \/ RefreshResume \/ FetchStep
    \/ CloseTransport \/ ServeEnds

Spec == Init /\ [][Next]_vars

(* Tasks run, and every await ends: the upstream query by its timeout      *)
(* (upstream_timeout), the download by request_timeout_s.  Ctrl-C is       *)
(* nobody's duty.                                                          *)
Fairness ==
    /\ \A q \in Queries : WF_vars(TaskStep(q))
    /\ WF_vars(RefreshResume)
    /\ WF_vars(FetchStep)
    /\ WF_vars(ServeEnds)

FairSpec == Spec /\ Fairness

------------------------------------------------------------------------------
PassedOn(q) == pc[q] = "forwarding" \/ reply[q] \in {"upstream", "servfail", "lost"}
Host(q) == Lower[asked[q].name]

(* In enforcement mode a host that every feed since the start has listed,  *)
(* in whatever spelling, is never looked up upstream, whatever the cache   *)
(* holds, evicts or was filled with while a refresh was under way or had   *)
(* failed (forwarder.py:90-95, 103-118; blocklist.py:52-53, 72-82,         *)
(* 107-121).                                                               *)
SteadilyListedIsBlocked ==
    Enforce =>
        \A q \in Queries :
            asked[q].kind \in {"query", "answer"} /\ PassedOn(q) => Host(q) \notin alwaysListed

(* Nobody is refused a name without cause: some feed since the start has   *)
(* listed it, or the classifier flags it (forwarder.py:90-93, 103-141;     *)
(* blocklist.py:107-121).                                                  *)
BlockedForCause ==
    \A q \in Queries :
        reply[q] = "nxdomain" =>
            Enforce /\ (Host(q) \in everListed \/ (HasClassifier /\ Host(q) \in Flagged))

(* The log tells what the client got, although the record is made before   *)
(* the answer and the service may end in between: a query logged as        *)
(* blocked was answered NXDOMAIN and none that was logged as allowed, and  *)
(* the line printed agrees (forwarder.py:86-96, 148-165, 312-315).  Of     *)
(* queries: a stray answer is logged and then makes the task raise.        *)
LogMatchesReply ==
    \A q \in {p \in Queries : asked[p].kind = "query"} :
        /\ record[q] # NoRecord =>
              (record[q].action = "block" <=> reply[q] = "nxdomain")
        /\ line[q] = "BLOCK" => reply[q] = "nxdomain"
        /\ line[q] = "score" => reply[q] # "nxdomain"

(* A logged cache hit repeats the decision of a logged miss for the same   *)
(* spelling of the name, however many other names were evicted, refreshed  *)
(* or decided since (forwarder.py:103-106, 116-118, 133-141;               *)
(* cache.py:52-68).                                                        *)
HitRepeatsMiss ==
    \A q \in Queries :
        record[q] # NoRecord /\ record[q].scoring.cache_state = "hit" =>
            \E p \in Queries :
                /\ record[p] # NoRecord
                /\ record[p].scoring.cache_state = "miss"
                /\ record[p].name = record[q].name
                /\ record[p].scoring.decision = record[q].scoring.decision

(* Every cached decision had its cause when it was made and keeps it:      *)
(* what the two provenance invariants rest on.                             *)
CacheJustified ==
    \A s \in Cached(cache) :
        LET d == cache.val[s]
        IN /\ d.block_source = "blocklist" => Lower[s] \in everListed
           /\ d.block_source = "classifier" => HasClassifier /\ Lower[s] \in Flagged
           /\ (d.would_block <=> d.block_source # "none")
           /\ ~d.would_block => Lower[s] \notin alwaysListed

(* Every well-formed query is answered, by us, by the upstream resolver or *)
(* with SERVFAIL, unless the service ends (forwarder.py:75-96, 230-259).   *)
EveryQueryAnswered ==
    \A q \in Queries :
        pc[q] = "created" /\ asked[q].kind \in {"query", "empty"} ~>
            reply[q] # "none" \/ service # "up"

(* A refresh, failed or not, is followed by the next one: the loop never   *)
(* dies while the service is up (blocklist.py:90-99).                      *)
RefreshGoesOn == refresh = "fetching" ~> refresh = "sleep" \/ service # "up"

(* A Ctrl-C ends the process: the refresh loop, which catches every error, *)
(* does not catch its cancellation, and a download under way ends          *)
(* (blocklist.py:94-99; forwarder.py:312-315).                             *)
ShutdownEnds == service = "closing" ~> service = "exited"

==============================================================================
