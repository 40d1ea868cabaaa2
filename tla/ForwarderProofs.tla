---------------------------- MODULE ForwarderProofs ----------------------------
(***************************************************************************)
(* Theorems about Forwarder: for any number of queries in flight, any      *)
(* names, feeds, cache capacity and refreshes.                             *)
(***************************************************************************)
EXTENDS Forwarder, SequenceFacts

(* What AfterGet and AfterPut do to the map, whatever the order of the     *)
(* keys: the former nothing, the latter one new entry and perhaps one less.*)
Shape(c) == c = [order |-> c.order, val |-> c.val]

(* A get reorders the keys at most.                                        *)
LEMMA GetKeepsMap ==
    ASSUME NEW c, Shape(c), NEW n
    PROVE  Shape(AfterGet(c, n)) /\ AfterGet(c, n).val = c.val
BY DEF Shape, AfterGet, MoveToEnd

(* Setting a key of an ordered dictionary changes the value of that key    *)
(* alone.                                                                  *)
LEMMA SetItemMap ==
    ASSUME NEW c, NEW n, NEW d
    PROVE  /\ Shape(SetItem(c, n, d))
           /\ Cached(SetItem(c, n, d)) = Cached(c) \cup {n}
           /\ \A k \in Cached(c) \cup {n} :
                 SetItem(c, n, d).val[k] = IF k = n THEN d ELSE c.val[k]
BY DEF Shape, SetItem, Cached

(* After a put the cache holds the new decision and, of the others,        *)
(* nothing that it did not hold before (cache.py:61-68).                   *)
LEMMA PutMap ==
    ASSUME NEW c, Shape(c), NEW n, NEW d, NEW capacity
    PROVE  LET after == AfterPut(c, n, d, capacity)
           IN /\ Shape(after)
              /\ \A k \in Cached(after) :
                    \/ k = n /\ after.val[k] = d
                    \/ k \in Cached(c) /\ after.val[k] = c.val[k]
<1>1. CASE n \in Cached(c)
  <2>1. MoveToEnd(c, n).val = c.val
    BY DEF Shape, MoveToEnd
  <2> QED
    BY <1>1, <2>1, SetItemMap DEF AfterPut, Cached
<1>2. CASE n \notin Cached(c) /\ Len(c.order) >= capacity
  <2>1. /\ Cached(PopOldest(c)) \subseteq Cached(c)
        /\ \A k \in Cached(PopOldest(c)) : PopOldest(c).val[k] = c.val[k]
    BY DEF PopOldest, Cached
  <2>2. AfterPut(c, n, d, capacity) = SetItem(PopOldest(c), n, d)
    BY <1>2 DEF AfterPut
  <2> QED
    BY <2>1, <2>2, SetItemMap
<1>3. CASE n \notin Cached(c) /\ ~(Len(c.order) >= capacity)
  <2>1. AfterPut(c, n, d, capacity) = SetItem(c, n, d)
    BY <1>3 DEF AfterPut
  <2> QED
    BY <2>1, SetItemMap
<1> QED
  BY <1>1, <1>2, <1>3

(* What _parse keeps of a feed are the hosts that the feed lists           *)
(* (blocklist.py:107-121).                                                 *)
LEMMA ParseIsNamed ==
    ASSUME NEW text \in SUBSET Lines
    PROVE  Parse(text) = Named(text)
<1>1. \A l \in text : l.kind = "entry" => Lower[l.name] \in Hosts
  BY NamesAssumption DEF Lines
<1> QED
  BY <1>1 DEF Parse, Named

------------------------------------------------------------------------------
(* The inductive invariant.                                                *)

TaskTypes ==
    /\ pc \in [Queries -> {"idle", "created", "forwarding", "done", "raised", "cancelled"}]
    /\ asked \in [Queries -> Messages \cup {NoMessage}]
    /\ reply \in [Queries -> {"none", "nxdomain", "upstream", "servfail", "lost"}]
    /\ line \in [Queries -> {"none", "score", "BLOCK"}]
    /\ DOMAIN record = Queries

(* alwaysListed \subseteq blocklist \subseteq everListed.                  *)
ListInv ==
    /\ alwaysListed \subseteq blocklist /\ blocklist \subseteq everListed
    /\ ~HasBlocklist => blocklist = {} /\ refresh \in {"sleep", "ended"}

(* A task answers at its end, and has written "block" only with its answer.*)
Silent(q)  == reply[q] = "none" /\ record[q] = NoRecord /\ line[q] = "none"
Allowed(q) == /\ reply[q] = "none" /\ line[q] # "BLOCK"
              /\ record[q] # NoRecord => record[q].action # "block"
ProgressInv ==
    \A q \in Queries :
        /\ pc[q] \in {"idle", "created"} => Silent(q)
        /\ pc[q] = "forwarding" => Allowed(q)

(* A decision has its cause, and none spares a host that is always listed. *)
Justified(s, d) ==
    /\ d.block_source = "blocklist" => Lower[s] \in everListed
    /\ d.block_source = "classifier" => HasClassifier /\ Lower[s] \in Flagged
    /\ (d.would_block <=> d.block_source # "none")
    /\ d.block_source \in {"blocklist", "classifier", "none"}
    /\ ~d.would_block => Lower[s] \notin alwaysListed

CacheInv == Shape(cache) /\ \A s \in Cached(cache) : Justified(s, cache.val[s])

FInv ==
    /\ TaskTypes /\ ListInv /\ ProgressInv
    /\ CacheInv
    /\ SteadilyListedIsBlocked /\ BlockedForCause /\ LogMatchesReply

(* The invariant holds when the parts are built (forwarder.py:444-468).     *)
LEMMA FInit == Init => FInv
<1> SUFFICES ASSUME Init PROVE FInv
  OBVIOUS
<1>1. Cached(cache) = {} /\ Shape(cache)
  BY DEF Init, EmptyDict, Cached, Shape
<1>2. TaskTypes /\ ProgressInv
  BY DEF Init, TaskTypes, ProgressInv, Silent
<1>4. ListInv
  <2>1. PICK text \in IF HasBlocklist THEN Feeds ELSE {{}} :
           blocklist = Parse(text) /\ everListed = Named(text) /\ alwaysListed = Named(text)
    BY DEF Init
  <2>2. text \in SUBSET Lines
    BY NamesAssumption
  <2>3. Parse(text) = Named(text)
    BY <2>2, ParseIsNamed
  <2>4. ~HasBlocklist => Named(text) = {}
    BY DEF Named
  <2> QED
    BY <2>1, <2>3, <2>4 DEF Init, ListInv
<1>3. \A q \in Queries : ~PassedOn(q) /\ reply[q] = "none" /\ record[q] = NoRecord /\ line[q] = "none"
  BY DEF Init, PassedOn
<1> QED
  BY <1>1, <1>2, <1>3, <1>4
  DEF FInv, CacheInv, SteadilyListedIsBlocked, BlockedForCause, LogMatchesReply

(* A decision made now has its cause now (forwarder.py:108-138).           *)
LEMMA VerdictJustified ==
    ASSUME ListInv, NEW s
    PROVE  Justified(s, Verdict(s))
<1>1. CASE Listed(s)
  BY <1>1 DEF Listed, Verdict, ByBlocklist, Justified, ListInv
<1>2. CASE ~Listed(s) /\ HasClassifier /\ WouldBlock(s)
  <2>1. Verdict(s) = [would_block |-> TRUE, block_source |-> "classifier"]
    BY <1>2 DEF Verdict
  <2> QED
    BY <1>2, <2>1 DEF WouldBlock, Justified
<1>3. CASE ~Listed(s) /\ ~(HasClassifier /\ WouldBlock(s))
  <2>1. ~Verdict(s).would_block /\ Verdict(s).block_source = "none"
    <3>1. CASE HasClassifier
      BY <1>3, <3>1 DEF Verdict, WouldBlock
    <3>2. CASE ~HasClassifier
      BY <1>3, <3>2 DEF Verdict, NothingFlagged
    <3> QED
      BY <3>1, <3>2
  <2>2. Lower[s] \notin blocklist
    BY <1>3 DEF Listed, ListInv
  <2> QED
    BY <2>1, <2>2 DEF Justified, ListInv
<1> QED
  BY <1>1, <1>2, <1>3

(* The scoring of a name, from the cache or anew, has its cause, and so    *)
(* does everything in the cache afterwards.                                *)
LEMMA ScoringJustified ==
    ASSUME FInv, NEW s
    PROVE  Justified(s, ScoreInline(s).decision)
<1>1. CASE HasCache /\ s \in Cached(cache)
  BY <1>1 DEF ScoreInline, FromCache, FInv, CacheInv
<1>2. CASE ~(HasCache /\ s \in Cached(cache))
  <2>1. ScoreInline(s).decision = Verdict(s)
    BY <1>2 DEF ScoreInline
  <2> QED
    BY <2>1, VerdictJustified DEF FInv
<1> QED
  BY <1>1, <1>2

(* Scoring a name leaves only justified decisions in the cache, whichever  *)
(* name is evicted (forwarder.py:103-140).                                 *)
LEMMA CacheStaysJustified ==
    ASSUME FInv, NEW s, cache' = CacheAfterScoring(s), UNCHANGED listVars
    PROVE  CacheInv'
<1> USE DEF FInv, CacheInv, listVars
<1>1. \A n, d : Justified(n, d) => Justified(n, d)'
  BY DEF Justified
<1>2. CASE ~HasCache
  BY <1>1, <1>2 DEF CacheAfterScoring, Cached
<1>3. CASE HasCache /\ s \in Cached(cache)
  <2>1. cache' = AfterGet(cache, s)
    BY <1>3 DEF CacheAfterScoring
  <2>2. Shape(cache)' /\ cache'.val = cache.val
    BY <2>1, GetKeepsMap DEF Shape
  <2> QED
    BY <1>1, <2>2 DEF Cached
<1>4. CASE HasCache /\ s \notin Cached(cache)
  <2>1. cache' = AfterPut(AfterGet(cache, s), s, Verdict(s), CacheCapacity)
    BY <1>4 DEF CacheAfterScoring
  <2>2. Shape(AfterGet(cache, s)) /\ AfterGet(cache, s).val = cache.val
    BY GetKeepsMap
  <2>3. /\ Shape(cache)'
        /\ \A k \in Cached(cache') :
              \/ k = s /\ cache'.val[k] = Verdict(s)
              \/ k \in Cached(cache) /\ cache'.val[k] = cache.val[k]
    BY <2>1, <2>2, PutMap DEF Shape, Cached
  <2> QED
    BY <1>1, <2>3, VerdictJustified
<1> QED
  BY <1>2, <1>3, <1>4

(* The first step of a task that scores its name keeps the invariant       *)
(* (forwarder.py:75-96).                                                   *)
LEMMA FHandleScored ==
    ASSUME FInv, NEW q \in Queries, HandleScored(q)
    PROVE  FInv'
<1> DEFINE s == asked[q].name
           scoring == ScoreInline(s)
           blocked == BlockAction(scoring)
<1>1. /\ pc[q] = "created" /\ asked[q].kind \in {"query", "answer"}
      /\ cache'  = CacheAfterScoring(s)
      /\ line'   = [line EXCEPT ![q] = Printed(scoring)]
      /\ record' = [record EXCEPT ![q] = Logged(s, scoring)]
      /\ reply'  = [reply EXCEPT ![q] = IF blocked /\ CanRespond(q) THEN "nxdomain" ELSE @]
      /\ pc'     = [pc EXCEPT ![q] = CASE ~blocked -> "forwarding"
                                        [] blocked /\ CanRespond(q) -> "done"
                                        [] blocked /\ ~CanRespond(q) -> "raised"]
      /\ UNCHANGED asked /\ UNCHANGED listVars
  BY DEF HandleScored
<1>2. Justified(s, scoring.decision)
  BY ScoringJustified
<1>3. CacheInv'
  BY <1>1, CacheStaysJustified
<1>4. ListInv'
  BY <1>1 DEF FInv, ListInv, listVars
<1>5. Printed(scoring) \in {"none", "score", "BLOCK"} /\ (Printed(scoring) = "BLOCK" => blocked)
      /\ (Printed(scoring) = "score" => ~blocked)
  BY DEF Printed
<1>6. Logged(s, scoring) # NoRecord => (Logged(s, scoring).action = "block" <=> blocked)
  <2>1. CASE HasLog /\ blocked
    BY <2>1 DEF Logged, LoggedAction
  <2>2. CASE HasLog /\ ~blocked
    BY <2>2 DEF Logged, LoggedAction
  <2>3. CASE ~HasLog
    BY <2>3 DEF Logged
  <2> QED
    BY <2>1, <2>2, <2>3
<1>7. Silent(q)
  BY <1>1 DEF FInv, ProgressInv
<1>8. /\ q \in DOMAIN pc /\ q \in DOMAIN reply /\ q \in DOMAIN line /\ q \in DOMAIN record
      /\ DOMAIN reply = Queries /\ DOMAIN line = Queries /\ DOMAIN pc = Queries
  BY DEF FInv, TaskTypes
<1>9. /\ \A p \in Queries \ {q} : pc'[p] = pc[p] /\ reply'[p] = reply[p]
                                  /\ line'[p] = line[p] /\ record'[p] = record[p]
      /\ record'[q] = Logged(s, scoring) /\ line'[q] = Printed(scoring)
      /\ pc'[q] \in {"forwarding", "done", "raised"}
      /\ ~blocked => pc'[q] = "forwarding" /\ reply'[q] = "none"
      /\ blocked => pc'[q] # "forwarding"
      /\ blocked /\ CanRespond(q) => reply'[q] = "nxdomain"
      /\ blocked /\ ~CanRespond(q) => reply'[q] = "none"
  BY <1>1, <1>7, <1>8 DEF Silent
<1> HIDE DEF s, scoring, blocked
<1>10. TaskTypes'
  BY <1>1, <1>5, <1>9 DEF FInv, TaskTypes
<1>11. ProgressInv'
  BY <1>5, <1>6, <1>9 DEF FInv, ProgressInv, Silent, Allowed
<1>12. LogMatchesReply'
  <2> SUFFICES ASSUME NEW p \in Queries, asked[p].kind = "query"
               PROVE  /\ record'[p] # NoRecord =>
                             (record'[p].action = "block" <=> reply'[p] = "nxdomain")
                      /\ line'[p] = "BLOCK" => reply'[p] = "nxdomain"
                      /\ line'[p] = "score" => reply'[p] # "nxdomain"
    BY <1>1 DEF LogMatchesReply
  <2>1. CASE p = q
    <3>1. CanRespond(q)
      BY <2>1 DEF CanRespond
    <3>2. reply'[q] = "nxdomain" <=> blocked
      BY <1>9, <3>1
    <3> QED
      BY <1>5, <1>6, <1>9, <2>1, <3>2
  <2>2. CASE p # q
    BY <1>9, <2>2 DEF FInv, LogMatchesReply
  <2> QED
    BY <2>1, <2>2
<1>13. blocked => Enforce /\ (Lower[s] \in everListed \/ (HasClassifier /\ Lower[s] \in Flagged))
  BY <1>2 DEF blocked, BlockAction, Justified
<1>14. BlockedForCause'
  BY <1>1, <1>9, <1>13 DEF FInv, BlockedForCause, Host, listVars, s
<1>15. Enforce /\ ~blocked => Lower[s] \notin alwaysListed
  BY <1>2 DEF blocked, BlockAction, Justified
<1>16. SteadilyListedIsBlocked'
  BY <1>1, <1>9, <1>15 DEF FInv, SteadilyListedIsBlocked, PassedOn, Host, listVars, s
<1> QED
  BY <1>3, <1>4, <1>10, <1>11, <1>12, <1>14, <1>16 DEF FInv

(* A step of a task that decides nothing: it leaves the log and the list   *)
(* alone, does not refuse the name, and lets a name pass only from         *)
(* "forwarding" on.                                                        *)
LEMMA FQuietStep ==
    ASSUME FInv, NEW q \in Queries, NEW c, NEW r,
           pc' = [pc EXCEPT ![q] = c], reply' = [reply EXCEPT ![q] = r],
           c \in {"created", "forwarding", "done", "raised"},
           r \in {"none", "upstream", "servfail", "lost"},
           \/ pc[q] \in {"idle", "created"} /\ r = "none"
           \/ pc[q] = "forwarding" /\ c \in {"done", "raised"},
           c = "created" => pc[q] \in {"idle", "created"},
           /\ r # "none" \/ c = "forwarding"
           /\ Enforce /\ asked'[q].kind \in {"query", "answer"}
           => Lower[asked'[q].name] \notin alwaysListed,
           asked' \in [Queries -> Messages \cup {NoMessage}],
           \A p \in Queries \ {q} : asked'[p] = asked[p],
           asked'[q] = asked[q] \/ pc[q] = "idle",
           UNCHANGED <<line, record, cache, listVars>>
    PROVE  FInv'
<1>1. /\ \A p \in Queries \ {q} : pc'[p] = pc[p] /\ reply'[p] = reply[p] /\ asked'[p] = asked[p]
      /\ pc'[q] = c /\ reply'[q] = r
      /\ pc' \in [Queries -> {"idle", "created", "forwarding", "done", "raised", "cancelled"}]
      /\ reply' \in [Queries -> {"none", "nxdomain", "upstream", "servfail", "lost"}]
  BY DEF FInv, TaskTypes
<1>2. /\ pc[q] \in {"idle", "created"} => Silent(q)
      /\ pc[q] = "forwarding" => Allowed(q)
  BY DEF FInv, ProgressInv
<1>3. Allowed(q) /\ record'[q] = record[q] /\ line'[q] = line[q]
  BY <1>2 DEF Silent, Allowed
<1>4. TaskTypes' /\ ListInv' /\ CacheInv'
  BY <1>1 DEF FInv, TaskTypes, ListInv, CacheInv, Justified, Cached, Shape, listVars
<1>5. ProgressInv'
  BY <1>1, <1>2, <1>3 DEF FInv, ProgressInv, Silent, Allowed
<1>6. LogMatchesReply'
  BY <1>1, <1>3 DEF FInv, LogMatchesReply, Allowed
<1>7. BlockedForCause'
  BY <1>1 DEF FInv, BlockedForCause, Host, listVars
<1>8. SteadilyListedIsBlocked'
  BY <1>1 DEF FInv, SteadilyListedIsBlocked, PassedOn, Host, listVars
<1> QED
  BY <1>4, <1>5, <1>6, <1>7, <1>8 DEF FInv

(* A step of the refresh: the tasks stand still, and the hosts always      *)
(* listed are only ever fewer, those ever listed only ever more.           *)
LEMMA FRefreshStep ==
    ASSUME FInv, UNCHANGED taskVars, ListInv',
           alwaysListed' \subseteq alwaysListed, everListed \subseteq everListed'
    PROVE  FInv'
<1> USE DEF FInv, taskVars
<1>1. TaskTypes' /\ ProgressInv' /\ LogMatchesReply'
  BY DEF TaskTypes, ProgressInv, Silent, Allowed, LogMatchesReply
<1>2. CacheInv'
  BY DEF CacheInv, Justified, Cached, Shape
<1>3. SteadilyListedIsBlocked' /\ BlockedForCause'
  BY DEF SteadilyListedIsBlocked, PassedOn, BlockedForCause, Host
<1> QED
  BY <1>1, <1>2, <1>3

(* A cancelled task has answered nothing and lets no name pass.            *)
LEMMA FTasksCancelled == FInv /\ TasksCancelled => FInv'
<1> SUFFICES ASSUME FInv, TasksCancelled PROVE FInv'
  OBVIOUS
<1>1. /\ pc' = [q \in Queries |->
                   IF pc[q] \in {"created", "forwarding"} THEN "cancelled" ELSE pc[q]]
      /\ UNCHANGED <<asked, reply, line, record, cache, listVars>>
  BY DEF TasksCancelled
<1>2. /\ \A q \in Queries : pc'[q] \in {"idle", "forwarding"} => pc'[q] = pc[q]
      /\ \A q \in Queries : pc'[q] \notin {"created", "forwarding"}
      /\ pc' \in [Queries -> {"idle", "created", "forwarding", "done", "raised", "cancelled"}]
  BY <1>1 DEF FInv, TaskTypes
<1> HIDE DEF TasksCancelled
<1>3. TaskTypes' /\ ListInv' /\ CacheInv'
  BY <1>1, <1>2 DEF FInv, TaskTypes, ListInv, CacheInv, Justified, Cached, Shape, listVars
<1>4. ProgressInv'
  BY <1>1, <1>2 DEF FInv, ProgressInv, Silent, Allowed
<1>5. LogMatchesReply' /\ BlockedForCause'
  BY <1>1 DEF FInv, LogMatchesReply, BlockedForCause, Host, listVars
<1>6. SteadilyListedIsBlocked'
  BY <1>1, <1>2 DEF FInv, SteadilyListedIsBlocked, PassedOn, Host, listVars
<1> QED
  BY <1>3, <1>4, <1>5, <1>6 DEF FInv

(* Every step of the tasks, of the refresh and of the end of the service   *)
(* keeps the invariant.                                                    *)
LEMMA FNext == FInv /\ [Next]_vars => FInv'
<1> SUFFICES ASSUME FInv, [Next]_vars PROVE FInv'
  OBVIOUS
<1> USE DEF FInv
<1>1. ASSUME NEW q \in Queries, DatagramReceived(q) PROVE FInv'
  <2>1. PICK m \in Messages : asked' = [asked EXCEPT ![q] = m]
    BY <1>1 DEF DatagramReceived
  <2>2. reply[q] = "none"
    BY <1>1 DEF DatagramReceived, ProgressInv, Silent
  <2>3. reply' = [reply EXCEPT ![q] = "none"]
    BY <1>1, <2>2 DEF DatagramReceived, TaskTypes
  <2>4. /\ asked' \in [Queries -> Messages \cup {NoMessage}]
        /\ \A p \in Queries \ {q} : asked'[p] = asked[p]
    BY <2>1 DEF TaskTypes
  <2> QED
    BY <1>1, <2>3, <2>4, FQuietStep DEF DatagramReceived
<1>2. ASSUME NEW q \in Queries, DropMalformed(q) PROVE FInv'
  <2>1. reply[q] = "none"
    BY <1>2 DEF DropMalformed, Proceeds, ProgressInv, Silent
  <2>2. reply' = [reply EXCEPT ![q] = "none"] /\ asked' \in [Queries -> Messages \cup {NoMessage}]
    BY <1>2, <2>1 DEF DropMalformed, Proceeds, TaskTypes
  <2> QED
    BY <1>2, <2>2, FQuietStep DEF DropMalformed, Proceeds
<1>3. ASSUME NEW q \in Queries, HandleScored(q) PROVE FInv'
  BY <1>3, FHandleScored
<1>4. ASSUME NEW q \in Queries, HandleUnscored(q) PROVE FInv'
  <2>1. reply[q] = "none"
    BY <1>4 DEF HandleUnscored, Proceeds, ProgressInv, Silent
  <2>2. reply' = [reply EXCEPT ![q] = "none"] /\ asked' \in [Queries -> Messages \cup {NoMessage}]
    BY <1>4, <2>1 DEF HandleUnscored, Proceeds, TaskTypes
  <2>3. asked'[q].kind \in {"query", "answer"} => alwaysListed = {}
    BY <1>4 DEF HandleUnscored, Proceeds, HasInlineTier, ListInv
  <2> QED
    BY <1>4, <2>2, <2>3, FQuietStep DEF HandleUnscored, Proceeds
<1>5. ASSUME NEW q \in Queries, NEW outcome \in {"upstream", "servfail"}, Forwarded(q, outcome)
      PROVE  FInv'
  <2>1. Enforce /\ asked[q].kind \in {"query", "answer"} => Lower[asked[q].name] \notin alwaysListed
    BY <1>5 DEF Forwarded, SteadilyListedIsBlocked, PassedOn, Host
  <2>2. asked' \in [Queries -> Messages \cup {NoMessage}]
    BY <1>5 DEF Forwarded, TaskTypes
  <2>3. Sent(outcome) \in {"upstream", "servfail", "lost"}
    BY DEF Sent
  <2> QED
    BY <1>5, <2>1, <2>2, <2>3, FQuietStep DEF Forwarded
<1>6. ASSUME NEW q \in Queries, FailureRaises(q) PROVE FInv'
  <2>1. reply[q] = "none"
    BY <1>6 DEF FailureRaises, Proceeds, ProgressInv, Allowed
  <2>2. reply' = [reply EXCEPT ![q] = "none"] /\ asked' \in [Queries -> Messages \cup {NoMessage}]
    BY <1>6, <2>1 DEF FailureRaises, Proceeds, TaskTypes
  <2> QED
    BY <1>6, <2>2, FQuietStep DEF FailureRaises, Proceeds
<1>7. CASE RefreshWake
  BY <1>7, FRefreshStep DEF RefreshWake, ListInv
<1>8. CASE RefreshResume
  BY <1>8, FRefreshStep DEF RefreshResume, Resumable, ListInv
<1>9. CASE FetchSucceeds
  <2>1. PICK text \in Feeds : /\ blocklist' = Parse(text)
                              /\ everListed' = everListed \cup Named(text)
                              /\ alwaysListed' = alwaysListed \cap Named(text)
    BY <1>9 DEF FetchSucceeds
  <2>2. Parse(text) = Named(text)
    BY NamesAssumption, ParseIsNamed
  <2>3. refresh = "fetching" /\ UNCHANGED taskVars
    BY <1>9 DEF FetchSucceeds
  <2>4. ListInv'
    BY <2>1, <2>2, <2>3 DEF ListInv
  <2> QED
    BY <2>1, <2>3, <2>4, FRefreshStep
<1>10. CASE FetchFails
  BY <1>10, FRefreshStep DEF FetchFails, ListInv, Returned
<1>11. CASE UNCHANGED vars
  BY <1>11, FRefreshStep DEF vars, listVars, ListInv
<1>12. ASSUME NEW q \in Queries, TaskStep(q) PROVE FInv'
  BY <1>2, <1>3, <1>4, <1>5, <1>6, <1>12 DEF TaskStep, UpstreamAnswers, UpstreamFails
<1>13. CASE CloseTransport
  BY <1>13, FRefreshStep DEF CloseTransport, CancelledRefresh, ListInv
<1>14. CASE SocketClosed \/ ProcessExits
  BY <1>14, FRefreshStep DEF SocketClosed, ProcessExits, listVars, ListInv
<1>15. CASE TasksCancelled
  BY <1>15, FTasksCancelled
<1> QED
  BY <1>1, <1>7, <1>8, <1>9, <1>10, <1>11, <1>12, <1>13, <1>14, <1>15
  DEF Next, FetchStep, ServeEnds

------------------------------------------------------------------------------
(* The invariant in every behaviour of the forwarder.                      *)
LEMMA FInvariant == Spec => []FInv
BY FInit, FNext, PTL DEF Spec

(* In enforcement mode a host that every blocklist since the start has     *)
(* listed is never looked up upstream, however the cache was filled,       *)
(* evicted from, or read around a refresh (forwarder.py:90-118).           *)
THEOREM SteadyListIsEnforced == Spec => []SteadilyListedIsBlocked
<1>1. FInv => SteadilyListedIsBlocked
  BY DEF FInv
<1> QED
  BY <1>1, FInvariant, PTL

(* Every NXDOMAIN has its cause: enforcement, and a blocklist since the    *)
(* start or the classifier (forwarder.py:90-141).                          *)
THEOREM NoBlockWithoutCause == Spec => []BlockedForCause
<1>1. FInv => BlockedForCause
  BY DEF FInv
<1> QED
  BY <1>1, FInvariant, PTL

(* What is logged and printed of a query, before it is answered, is what   *)
(* the client then gets (forwarder.py:86-96, 148-165).                     *)
THEOREM LogTellsTheReply == Spec => []LogMatchesReply
<1>1. FInv => LogMatchesReply
  BY DEF FInv
<1> QED
  BY <1>1, FInvariant, PTL

(* Every decision the cache holds had its cause when it was made           *)
(* (forwarder.py:108-118).                                                 *)
THEOREM CachedForCause == Spec => []CacheJustified
<1>1. FInv => CacheJustified
  BY DEF FInv, CacheInv, CacheJustified, Justified
<1> QED
  BY <1>1, FInvariant, PTL

------------------------------------------------------------------------------
(* Where cached decisions come from.                                       *)

(* A logged miss for the name came to the decision.                        *)
Origin(s, d) ==
    \E p \in Queries :
        /\ record[p] # NoRecord
        /\ record[p].scoring.cache_state = "miss"
        /\ record[p].name = s
        /\ record[p].scoring.decision = d

OriginInv ==
    /\ HasLog => \A s \in Cached(cache) : Origin(s, cache.val[s])
    /\ ~HasLog => \A q \in Queries : record[q] = NoRecord
    /\ HitRepeatsMiss

(* A first step logs a miss together with the entry that it makes, and a   *)
(* hit with the entry that it finds (forwarder.py:86-89, 103-141).         *)
LEMMA HHandleScored ==
    ASSUME FInv, OriginInv, NEW q \in Queries, HandleScored(q)
    PROVE  OriginInv'
<1> DEFINE s == asked[q].name
           scoring == ScoreInline(s)
           Later(n, d) == \E p \in Queries :
                             /\ record'[p] # NoRecord
                             /\ record'[p].scoring.cache_state = "miss"
                             /\ record'[p].name = n
                             /\ record'[p].scoring.decision = d
           Covered == \A n \in Cached(cache') : Later(n, cache'.val[n])
<1>1. /\ cache' = CacheAfterScoring(s)
      /\ record' = [record EXCEPT ![q] = Logged(s, scoring)]
  BY DEF HandleScored
<1>2. record[q] = NoRecord /\ DOMAIN record = Queries
  BY DEF HandleScored, FInv, TaskTypes, ProgressInv, Silent
<1>3. /\ record'[q] = Logged(s, scoring)
      /\ \A p \in Queries \ {q} : record'[p] = record[p]
  BY <1>1, <1>2
<1>4. \A n, d : Origin(n, d) => Later(n, d)
  BY <1>2, <1>3 DEF Origin
<1>5. CASE HasLog /\ Covered /\ HitRepeatsMiss'
  BY <1>5 DEF OriginInv, Origin, Cached
<1> HIDE DEF s
<1>6. CASE ~HasLog
  <2>1. \A p \in Queries : record'[p] = NoRecord
    BY <1>3, <1>6 DEF OriginInv, Logged
  <2> QED
    BY <1>6, <2>1 DEF OriginInv, HitRepeatsMiss
<1>7. CASE HasLog
  <2>1. /\ record'[q].scoring = scoring /\ record'[q].name = s
        /\ record'[q].action \in {"block", "allow"}
    BY <1>3, <1>7 DEF Logged, LoggedAction
  <2>2. record'[q] # NoRecord
    BY <2>1 DEF NoRecord
  <2>3. \A n \in Cached(cache) : Origin(n, cache.val[n])
    BY <1>7 DEF OriginInv
  <2>4. CASE HasCache /\ s \in Cached(cache)
    <3>1. scoring.decision = cache.val[s]
      BY <2>4 DEF ScoreInline, FromCache
    <3>2. Cached(cache') = Cached(cache) /\ cache'.val = cache.val
      <4>1. cache' = AfterGet(cache, s)
        BY <1>1, <2>4 DEF CacheAfterScoring
      <4> QED
        BY <4>1, GetKeepsMap DEF FInv, CacheInv, Cached
    <3>3. Covered
      BY <1>4, <2>3, <3>2
    <3>4. Later(record'[q].name, record'[q].scoring.decision)
      BY <1>4, <2>1, <2>3, <2>4, <3>1
    <3>5. HitRepeatsMiss'
      BY <1>3, <1>4, <3>4 DEF OriginInv, HitRepeatsMiss, Origin
    <3> QED
      BY <1>5, <1>7, <3>3, <3>5
  <2>5. CASE ~(HasCache /\ s \in Cached(cache))
    <3>1. scoring.decision = Verdict(s) /\ scoring.cache_state = "miss"
      BY <2>5 DEF ScoreInline
    <3>2. Later(s, Verdict(s))
      BY <2>1, <2>2, <3>1
    <3>3. \A n \in Cached(cache') :
              \/ n = s /\ cache'.val[n] = Verdict(s)
              \/ n \in Cached(cache) /\ cache'.val[n] = cache.val[n]
      <4>1. CASE ~HasCache
        BY <1>1, <4>1 DEF CacheAfterScoring, Cached
      <4>2. CASE HasCache
        <5>1. cache' = AfterPut(AfterGet(cache, s), s, Verdict(s), CacheCapacity)
          BY <1>1, <2>5, <4>2 DEF CacheAfterScoring
        <5>2. Shape(AfterGet(cache, s)) /\ AfterGet(cache, s).val = cache.val
          BY GetKeepsMap DEF FInv, CacheInv
        <5> QED
          BY <5>1, <5>2, PutMap DEF Cached
      <4> QED
        BY <4>1, <4>2
    <3>4. Covered
      BY <1>4, <2>3, <3>2, <3>3
    <3>5. HitRepeatsMiss'
      BY <1>3, <1>4, <2>1, <3>1 DEF OriginInv, HitRepeatsMiss, Origin
    <3> QED
      BY <1>5, <1>7, <3>4, <3>5
  <2> QED
    BY <2>4, <2>5
<1> QED
  BY <1>6, <1>7

(* No other step touches the cache or a record.                            *)
LEMMA HNext == FInv /\ OriginInv /\ [Next]_vars => OriginInv'
<1> SUFFICES ASSUME FInv, OriginInv, [Next]_vars PROVE OriginInv'
  OBVIOUS
<1>1. (\E q \in Queries : HandleScored(q)) \/ UNCHANGED <<record, cache>>
  BY DEF Next, vars, taskVars, DatagramReceived, TaskStep, DropMalformed, HandleUnscored,
         UpstreamAnswers, UpstreamFails, Forwarded, FailureRaises, Proceeds,
         RefreshWake, RefreshResume, FetchStep, FetchSucceeds, FetchFails,
         CloseTransport, ServeEnds, SocketClosed, TasksCancelled, ProcessExits
<1>2. CASE UNCHANGED <<record, cache>>
  BY <1>2 DEF OriginInv, Origin, HitRepeatsMiss, Cached
<1> QED
  BY <1>1, <1>2, HHandleScored

(* A logged hit repeats a logged miss for the same spelling, for any       *)
(* number of queries in flight and any evictions and refreshes in between  *)
(* (forwarder.py:103-106, 116-118, 133-141; cache.py:52-68).               *)
THEOREM HitsRepeatMisses == Spec => []HitRepeatsMiss
<1>1. Init => OriginInv
  BY DEF Init, OriginInv, HitRepeatsMiss, EmptyDict, Cached
<1>2. OriginInv => HitRepeatsMiss
  BY DEF OriginInv
<1> QED
  BY <1>1, <1>2, FInvariant, HNext, PTL DEF Spec

------------------------------------------------------------------------------
(* Types, and the capacity of the cache.                                   *)

(* The dictionary: its list names every key, so that a key that is used    *)
(* again has a place to be taken from.                                     *)
DictTypes(c) ==
    /\ Shape(c)
    /\ c.order \in Seq(Spellings)
    /\ Cached(c) \subseteq ToSet(c.order)
    /\ \A k \in Cached(c) : c.val[k] \in Decisions

(* The list and the map of a dictionary after each of its operations.      *)
LEMMA MovedParts ==
    ASSUME NEW c, Shape(c), NEW n
    PROVE  /\ Shape(MoveToEnd(c, n)) /\ MoveToEnd(c, n).val = c.val
           /\ MoveToEnd(c, n).order = Append(RemoveAt(c.order, PositionOf(c, n)), n)
<1> DEFINE w == Append(RemoveAt(c.order, PositionOf(c, n)), n)
<1>1. MoveToEnd(c, n) = [c EXCEPT !.order = w]
  BY DEF MoveToEnd
<1> HIDE DEF w
<1>2. c = [order |-> c.order, val |-> c.val]
  BY DEF Shape
<1>3. [c EXCEPT !.order = w] = [order |-> w, val |-> c.val]
  BY <1>2
<1>4. MoveToEnd(c, n) = [order |-> w, val |-> c.val]
  BY <1>1, <1>3
<1> QED
  BY <1>4 DEF Shape, w

(* A key that is used again keeps the dictionary well formed and as long.  *)
LEMMA MovedTypes ==
    ASSUME NEW c, DictTypes(c), NEW n \in Cached(c)
    PROVE  DictTypes(MoveToEnd(c, n)) /\ Len(MoveToEnd(c, n).order) = Len(c.order)
<1> DEFINE s == c.order
           p == PositionOf(c, n)
           r == RemoveAt(s, p)
<1>1. s \in Seq(Spellings) /\ n \in ToSet(s) /\ DOMAIN s = 1..Len(s)
  BY LenProperties DEF DictTypes
<1>2. p \in DOMAIN s /\ s[p] = n
  BY <1>1 DEF PositionOf, ToSet
<1>3. n \in Spellings
  BY <1>1, SetOfSeq
<1>4. /\ MoveToEnd(c, n).order = Append(r, n) /\ MoveToEnd(c, n).val = c.val
      /\ Shape(MoveToEnd(c, n))
  BY MovedParts DEF DictTypes
<1> HIDE DEF p, r
<1>5. r \in Seq(Spellings) /\ Without(r, s, p)
  BY <1>1, <1>2, RemoveWithout DEF r
<1>6. ToSet(s) \ {n} \subseteq ToSet(r)
  BY <1>1, <1>2, <1>5, WithoutSet
<1>7. /\ Append(r, n) \in Seq(Spellings) /\ Len(Append(r, n)) = Len(r) + 1
      /\ ToSet(Append(r, n)) = ToSet(r) \cup {n}
  BY <1>3, <1>5, AppendedSet, AppendProperties
<1>8. Len(r) = Len(s) - 1 /\ Len(s) \in Nat
  BY <1>1, <1>5, LenProperties DEF Without
<1> QED
  BY <1>4, <1>6, <1>7, <1>8 DEF DictTypes, Cached

(* popitem(last=False) gives up the first key and its entry.               *)
LEMMA PoppedTypes ==
    ASSUME NEW c, DictTypes(c), c.order # << >>
    PROVE  DictTypes(PopOldest(c)) /\ Len(PopOldest(c).order) = Len(c.order) - 1
           /\ Cached(PopOldest(c)) \subseteq Cached(c)
<1> DEFINE h == Head(c.order)
           keys == Cached(c) \ {h}
<1>1. /\ c.order \in Seq(Spellings)
      /\ Tail(c.order) \in Seq(Spellings) /\ Len(Tail(c.order)) = Len(c.order) - 1
      /\ ToSet(c.order) = {h} \cup ToSet(Tail(c.order))
  BY TailSet DEF DictTypes
<1>2. /\ PopOldest(c).order = Tail(c.order)
      /\ PopOldest(c).val = [k \in keys |-> c.val[k]]
      /\ Shape(PopOldest(c))
  BY DEF PopOldest, Shape
<1>3. Cached(PopOldest(c)) = keys /\ keys \subseteq Cached(c) /\ keys \subseteq ToSet(Tail(c.order))
  BY <1>1, <1>2 DEF Cached, DictTypes
<1>4. \A k \in keys : PopOldest(c).val[k] \in Decisions
  BY <1>2 DEF DictTypes
<1> QED
  BY <1>1, <1>2, <1>3, <1>4 DEF DictTypes

(* d[n] = d adds at most one key, at the end of the list.                  *)
LEMMA SetItemTypes ==
    ASSUME NEW c, DictTypes(c), NEW n \in Spellings, NEW d \in Decisions
    PROVE  /\ DictTypes(SetItem(c, n, d))
           /\ Len(SetItem(c, n, d).order) = IF n \in Cached(c) THEN Len(c.order) ELSE Len(c.order) + 1
<1>1. /\ Shape(SetItem(c, n, d)) /\ Cached(SetItem(c, n, d)) = Cached(c) \cup {n}
      /\ \A k \in Cached(c) \cup {n} :
            SetItem(c, n, d).val[k] = IF k = n THEN d ELSE c.val[k]
  BY SetItemMap
<1>2. SetItem(c, n, d).order = IF n \in Cached(c) THEN c.order ELSE Append(c.order, n)
  BY DEF SetItem
<1>3. /\ Append(c.order, n) \in Seq(Spellings) /\ Len(Append(c.order, n)) = Len(c.order) + 1
      /\ ToSet(Append(c.order, n)) = ToSet(c.order) \cup {n}
  BY AppendedSet, AppendProperties DEF DictTypes
<1> QED
  BY <1>1, <1>2, <1>3 DEF DictTypes

(* A get and a put never leave more keys than the capacity (cache.py:52-68).*)
LEMMA PutTypes ==
    ASSUME NEW c, DictTypes(c), Len(c.order) <= CacheCapacity, CacheCapacity > 0,
           NEW n \in Spellings, NEW d \in Decisions
    PROVE  LET after == AfterPut(c, n, d, CacheCapacity)
           IN DictTypes(after) /\ Len(after.order) <= CacheCapacity
<1>1. CacheCapacity \in Nat /\ Len(c.order) \in Nat /\ c.order \in Seq(Spellings)
  BY ConfigAssumption, LenProperties DEF DictTypes
<1>2. CASE n \in Cached(c)
  <2>1. DictTypes(MoveToEnd(c, n)) /\ Len(MoveToEnd(c, n).order) = Len(c.order)
    BY <1>2, MovedTypes
  <2>2. n \in Cached(MoveToEnd(c, n))
    BY <1>2, MovedParts DEF DictTypes, Cached
  <2>3. AfterPut(c, n, d, CacheCapacity) = SetItem(MoveToEnd(c, n), n, d)
    BY <1>2 DEF AfterPut
  <2> QED
    BY <2>1, <2>2, <2>3, SetItemTypes
<1>3. CASE n \notin Cached(c) /\ Len(c.order) >= CacheCapacity
  <2>1. c.order # << >>
    BY <1>1, <1>3, EmptySeq
  <2>2. /\ DictTypes(PopOldest(c)) /\ Len(PopOldest(c).order) = Len(c.order) - 1
        /\ n \notin Cached(PopOldest(c))
    BY <1>3, <2>1, PoppedTypes
  <2>3. AfterPut(c, n, d, CacheCapacity) = SetItem(PopOldest(c), n, d)
    BY <1>3 DEF AfterPut
  <2>4. Len(SetItem(PopOldest(c), n, d).order) = Len(PopOldest(c).order) + 1
    BY <2>2, SetItemTypes
  <2> QED
    BY <1>1, <2>2, <2>3, <2>4, SetItemTypes
<1>4. CASE n \notin Cached(c) /\ ~(Len(c.order) >= CacheCapacity)
  <2>1. AfterPut(c, n, d, CacheCapacity) = SetItem(c, n, d)
    BY <1>4 DEF AfterPut
  <2>2. Len(SetItem(c, n, d).order) = Len(c.order) + 1
    BY <1>4, SetItemTypes
  <2> QED
    BY <1>1, <1>4, <2>1, <2>2, SetItemTypes
<1> QED
  BY <1>2, <1>3, <1>4

(* What FInv does not say of the types.                                    *)
RecordTypes ==
    \A q \in Queries :
        record[q] # NoRecord =>
            record[q] \in [action : {"block", "allow"}, scoring : Scorings, name : Spellings]
ServiceTypes ==
    /\ service \in {"up", "closing", "closed", "down", "exited"}
    /\ refresh \in {"sleep", "fetching", "fetched", "failed", "ended"}
    /\ refreshes \in 0..MaxRefreshes
    /\ lastError \in BOOLEAN
    /\ everListed \subseteq Hosts
TypeInv ==
    /\ RecordTypes /\ ServiceTypes
    /\ DictTypes(cache) /\ Len(cache.order) <= CacheCapacity

(* Nothing is asked, recorded or cached when the service comes up.         *)
LEMMA TypeInit == Init => TypeInv
<1> SUFFICES ASSUME Init PROVE TypeInv
  OBVIOUS
<1>1. /\ cache.order = << >> /\ cache.val = << >> /\ Shape(cache)
  BY DEF Init, EmptyDict, Shape
<1>2. DictTypes(cache) /\ Len(cache.order) <= CacheCapacity
  <2>1. << >> \in Seq(Spellings) /\ Len(<< >>) = 0 /\ Cached(cache) = {}
    BY <1>1, EmptySeq DEF Cached
  <2> QED
    BY <1>1, <2>1, ConfigAssumption DEF DictTypes
<1>3. ServiceTypes
  <2>1. everListed \subseteq Hosts
    <3>1. \A text : Named(text) \subseteq Hosts
      BY DEF Named
    <3>2. \E text : everListed = Named(text)
      BY DEF Init
    <3> QED
      BY <3>1, <3>2
  <2>2. refreshes \in 0..MaxRefreshes
    BY ConfigAssumption DEF Init
  <2> QED
    BY <2>1, <2>2 DEF Init, ServiceTypes
<1>4. RecordTypes
  BY DEF Init, RecordTypes
<1> QED
  BY <1>2, <1>3, <1>4 DEF TypeInv

(* A decision is a decision, whoever takes it (forwarder.py:108-138).       *)
LEMMA VerdictType == \A s : Verdict(s) \in Decisions
<1> SUFFICES ASSUME NEW s PROVE Verdict(s) \in Decisions
  OBVIOUS
<1>1. ByBlocklist \in Decisions /\ NothingFlagged \in Decisions
  BY DEF ByBlocklist, NothingFlagged, Decisions, Sources
<1>2. CASE Listed(s)
  BY <1>1, <1>2 DEF Verdict
<1>3. CASE ~Listed(s) /\ HasClassifier /\ WouldBlock(s)
  <2>1. Verdict(s) = [would_block |-> TRUE, block_source |-> "classifier"]
    BY <1>3 DEF Verdict
  <2> QED
    BY <2>1 DEF Decisions, Sources
<1>4. CASE ~Listed(s) /\ HasClassifier /\ ~WouldBlock(s)
  <2>1. Verdict(s) = [would_block |-> WouldBlock(s), block_source |-> "none"]
    BY <1>4 DEF Verdict
  <2>2. WouldBlock(s) \in BOOLEAN
    BY DEF WouldBlock
  <2> QED
    BY <2>1, <2>2 DEF Decisions, Sources
<1>5. CASE ~Listed(s) /\ ~HasClassifier
  BY <1>1, <1>5 DEF Verdict
<1> QED
  BY <1>2, <1>3, <1>4, <1>5

(* The first step of a task records a scoring of a name, and leaves the    *)
(* cache within its capacity (forwarder.py:75-96, 103-141).                *)
LEMMA TypeHandleScored ==
    ASSUME FInv, TypeInv, NEW q \in Queries, HandleScored(q)
    PROVE  RecordTypes' /\ DictTypes(cache') /\ Len(cache'.order) <= CacheCapacity
<1> DEFINE s == asked[q].name
           scoring == ScoreInline(s)
<1>1. s \in Spellings
  <2>1. asked[q] \in Messages \cup {NoMessage} /\ asked[q].kind \in {"query", "answer"}
    BY DEF HandleScored, FInv, TaskTypes
  <2> QED
    BY <2>1 DEF Messages, NoMessage
<1>2. /\ cache' = CacheAfterScoring(s)
      /\ record' = [record EXCEPT ![q] = Logged(s, scoring)]
  BY DEF HandleScored
<1> HIDE DEF s
<1>3. scoring \in Scorings
  <2>1. CASE HasCache /\ s \in Cached(cache)
    <3>1. cache.val[s] \in Decisions
      BY <2>1 DEF TypeInv, DictTypes
    <3>2. scoring = [decision |-> cache.val[s], cache_state |-> "hit", timed |-> FALSE]
      BY <2>1 DEF ScoreInline, FromCache
    <3> QED
      BY <3>1, <3>2 DEF Scorings
  <2>2. CASE ~(HasCache /\ s \in Cached(cache))
    <3>1. PICK v \in Decisions : v = Verdict(s)
      BY VerdictType
    <3>2. PICK t \in BOOLEAN : t = (HasClassifier /\ ~Listed(s))
      BY Zenon
    <3>3. scoring = [decision |-> v, cache_state |-> "miss", timed |-> t]
      BY <2>2, <3>1, <3>2, Zenon DEF ScoreInline
    <3> QED
      BY <3>3 DEF Scorings
  <2> QED
    BY <2>1, <2>2
<1> HIDE DEF scoring
<1>4. RecordTypes'
  <2>1. LoggedAction(s, scoring) \in {"block", "allow"}
    BY DEF LoggedAction
  <2>2. Logged(s, scoring) # NoRecord =>
            Logged(s, scoring) \in [action : {"block", "allow"}, scoring : Scorings, name : Spellings]
    BY <1>1, <1>3, <2>1 DEF Logged
  <2>3. /\ record'[q] = Logged(s, scoring)
        /\ \A p \in Queries \ {q} : record'[p] = record[p]
    BY <1>2 DEF FInv, TaskTypes
  <2> QED
    BY <2>2, <2>3 DEF RecordTypes, TypeInv
<1>5. DictTypes(cache') /\ Len(cache'.order) <= CacheCapacity
  <2>1. CASE ~HasCache
    BY <1>2, <2>1 DEF CacheAfterScoring, TypeInv
  <2>2. CASE HasCache /\ s \in Cached(cache)
    <3>1. cache' = MoveToEnd(cache, s)
      BY <1>2, <2>2 DEF CacheAfterScoring, AfterGet
    <3> QED
      BY <2>2, <3>1, MovedTypes DEF TypeInv
  <2>3. CASE HasCache /\ s \notin Cached(cache)
    <3>1. cache' = AfterPut(cache, s, Verdict(s), CacheCapacity)
      BY <1>2, <2>3 DEF CacheAfterScoring, AfterGet
    <3>2. CacheCapacity > 0 /\ Verdict(s) \in Decisions
      BY <2>3, VerdictType DEF HasCache
    <3> QED
      BY <1>1, <3>1, <3>2, PutTypes DEF TypeInv
  <2> QED
    BY <2>1, <2>2, <2>3
<1> QED
  BY <1>4, <1>5

(* The service, the refresh and the blocklist go from one of their states  *)
(* to another.                                                             *)
LEMMA ServiceNext == ServiceTypes /\ [Next]_vars => ServiceTypes'
<1> SUFFICES ASSUME ServiceTypes, [Next]_vars PROVE ServiceTypes'
  OBVIOUS
<1> USE DEF ServiceTypes
<1>1. ASSUME NEW q \in Queries, DatagramReceived(q) \/ TaskStep(q)
      PROVE  ServiceTypes'
  <2>1. UNCHANGED <<service, listVars>>
    BY <1>1
    DEF DatagramReceived, TaskStep, DropMalformed, HandleScored, HandleUnscored, UpstreamAnswers,
        UpstreamFails, Forwarded, FailureRaises, Proceeds
  <2> QED
    BY <2>1 DEF listVars
<1>2. CASE RefreshWake \/ RefreshResume
  BY <1>2, ConfigAssumption DEF RefreshWake, RefreshResume
<1>3. CASE FetchSucceeds
  <2>1. \A text : Named(text) \subseteq Hosts
    BY DEF Named
  <2> QED
    BY <1>3, <2>1 DEF FetchSucceeds, Returned
<1>4. CASE FetchFails
  BY <1>4 DEF FetchFails, Returned
<1>5. CASE CloseTransport
  BY <1>5 DEF CloseTransport, CancelledRefresh
<1>6. CASE SocketClosed \/ TasksCancelled \/ ProcessExits
  BY <1>6 DEF SocketClosed, TasksCancelled, ProcessExits, listVars
<1>7. CASE UNCHANGED vars
  BY <1>7 DEF vars, listVars
<1> QED
  BY <1>1, <1>2, <1>3, <1>4, <1>5, <1>6, <1>7 DEF Next, FetchStep, ServeEnds

(* Every step keeps the types.                                             *)
LEMMA TypeNext == FInv /\ TypeInv /\ [Next]_vars => TypeInv'
<1> SUFFICES ASSUME FInv, TypeInv, [Next]_vars PROVE TypeInv'
  OBVIOUS
<1>1. ServiceTypes'
  BY ServiceNext DEF TypeInv
<1>2. (\E q \in Queries : HandleScored(q)) \/ UNCHANGED <<record, cache>>
  BY DEF Next, vars, taskVars, DatagramReceived, TaskStep, DropMalformed, HandleUnscored,
         UpstreamAnswers, UpstreamFails, Forwarded, FailureRaises, Proceeds,
         RefreshWake, RefreshResume, FetchStep, FetchSucceeds, FetchFails,
         CloseTransport, ServeEnds, SocketClosed, TasksCancelled, ProcessExits
<1>3. CASE UNCHANGED <<record, cache>>
  <2>1. RecordTypes'
    BY <1>3 DEF TypeInv, RecordTypes
  <2>2. DictTypes(cache') /\ Len(cache'.order) <= CacheCapacity
    BY <1>3 DEF TypeInv
  <2> QED
    BY <1>1, <2>1, <2>2 DEF TypeInv, DictTypes, Shape, Cached
<1>4. CASE \E q \in Queries : HandleScored(q)
  BY <1>1, <1>4, TypeHandleScored DEF TypeInv, DictTypes, Shape, Cached
<1> QED
  BY <1>2, <1>3, <1>4

(* Every variable keeps its type, and the decision cache its capacity,     *)
(* for any number of queries, names and refreshes (forwarder.py:75-141;    *)
(* cache.py:52-68; blocklist.py:72-99).                                    *)
THEOREM TypeCorrect == Spec => []TypeOK
<1>1. FInv /\ TypeInv => TypeOK
  <2> SUFFICES ASSUME FInv, TypeInv PROVE TypeOK
    OBVIOUS
  <2>1. cache.order \in Seq(Spellings) /\ Cached(cache) \subseteq ToSet(cache.order)
    BY DEF TypeInv, DictTypes
  <2>2. Cached(cache) \subseteq Spellings
    BY <2>1, SetOfSeq
  <2>3. blocklist \subseteq Hosts /\ alwaysListed \subseteq Hosts
    BY DEF FInv, ListInv, TypeInv, ServiceTypes
  <2>4. RecordTypes /\ ServiceTypes /\ TaskTypes
    BY DEF FInv, TypeInv
  <2>5. (\A n \in Cached(cache) : cache.val[n] \in Decisions) /\ Len(cache.order) <= CacheCapacity
    BY DEF TypeInv, DictTypes
  <2> QED
    BY <2>2, <2>3, <2>4, <2>5 DEF TypeOK, RecordTypes, ServiceTypes, TaskTypes
<1> QED
  BY <1>1, TypeInit, TypeNext, FInvariant, PTL DEF Spec

==============================================================================
