--------------------------- MODULE TierPromotion ---------------------------
(***************************************************************************)
(* Promotion of documents from the cold tier (SQLite) to the warm tier     *)
(* (the Graphiti knowledge graph): tier_manager.TierManager as the         *)
(* handlers of one MCP server drive it.                                    *)
(*                                                                         *)
(* The server runs handlers on the thread of its event loop, so a handler  *)
(* is one atomic step; the background promoter is a task of the same loop  *)
(* and takes one step per await.  Redis and Graphiti are outside the       *)
(* program: a call succeeds, fails, or takes effect and reports a failure. *)
(***************************************************************************)
EXTENDS AccessTracker, Functions

CONSTANTS Short,        \* documents below min_size_for_extraction
          Oversize,     \* documents _validate_content_size refuses
          Threshold,    \* TierPromotionConfig.promotion_threshold
          MaxQueue,     \* maxsize of the promotion queue
          MaxAccess,    \* bound: accesses recorded in all
          NoDoc         \* the promoter holds no document

ASSUME PromotionAssumption ==
    /\ Short \subseteq Docs
    /\ Oversize \subseteq Docs
    /\ Threshold \in Nat \ {0}
    /\ MaxQueue \in Nat \ {0}
    /\ MaxAccess \in Nat
    /\ NoDoc \notin Docs

VARIABLES rows,       \* the SQLite row of each document
          tracker,    \* TierManager._access_tracker
          queue,      \* TierManager._promotion_queue
          promoter,   \* the background task: where it waits, what it holds
          zombies,    \* coroutines run_async has scheduled and given up on
          graph,      \* episodes of each document in the knowledge graph
          accesses,   \* history: calls of record_access for each document
          triggers,   \* history: promotions asked for, for each document
          forced      \* history: documents queued whatever their count

vars == <<rows, tracker, queue, promoter, zombies, graph, accesses, triggers,
          forced>>

\* What only the promoter and the graph change, and what only requests change.
warm   == <<promoter, graph>>
client == <<rows, tracker, accesses, triggers, forced>>

Promoter == [at : {"off", "waiting", "reading", "adding"}, doc : Docs \cup {NoDoc}]
Holding(where, d) == [at |-> where, doc |-> d]

Init ==
    /\ rows = [d \in Docs |-> "absent"]
    /\ tracker = NoAccesses
    /\ queue = <<>>
    /\ promoter = Holding("off", NoDoc)
    /\ zombies = [d \in Docs |-> 0]
    /\ graph = [d \in Docs |-> 0]
    /\ accesses = [d \in Docs |-> 0]
    /\ triggers = [d \in Docs |-> 0]
    /\ forced = {}

----------------------------------------------------------------------------
(* The operations of TierManager the handlers call                         *)

ShouldPromoteToWarm(d, stats) == stats.count >= Threshold /\ d \notin Short

\* Mutant: a promotion does not look whether the row is still there.
PromotableUnread(d, row) == d \notin Oversize

\* A promotion reads the row and gives up when it is gone or too large.
Promotable(d, row) == row = "stored" /\ d \notin Oversize

QueueFull(q) == Len(q) >= MaxQueue

\* queue_promotion: a full queue refuses the document.
Queued(q, d) == IF QueueFull(q) THEN q ELSE Append(q, d)

\* promote_to_warm on the loop's own thread: run_async schedules the
\* coroutine on the loop it blocks, waits, times out and reports a failure.
\* The coroutine is not cancelled and runs when the handler has returned.
PromotedOnTheSpot(d) ==
    IF Promotable(d, rows'[d]) THEN [zombies EXCEPT ![d] = @ + 1] ELSE zombies

\* The bound on the accesses of all documents together.
WithinBound == FoldFunction(+, 0, accesses) < MaxAccess

\* An access is counted in the history as well.
CountAccess(d) ==
    /\ WithinBound
    /\ accesses' = [accesses EXCEPT ![d] = @ + 1]

\* TierManager.record_access once the statistics are read: decide, and queue
\* or else promote on the spot.  A long research text is then queued whatever
\* was decided.
RecordedWith(d, long, stats) ==
    LET asked   == ShouldPromoteToWarm(d, stats)
        decided == IF asked THEN Queued(queue, d) ELSE queue
    IN  /\ CountAccess(d)
        /\ tracker' = stats.tracker
        /\ queue' = IF long THEN Queued(decided, d) ELSE decided
        /\ zombies' = IF asked /\ QueueFull(queue) THEN PromotedOnTheSpot(d)
                      ELSE zombies
        /\ triggers' = [triggers EXCEPT ![d] = @ + (IF asked THEN 1 ELSE 0)
                                                 + (IF long THEN 1 ELSE 0)]

RecordAccess(d, long) ==
    \E after \in AfterRecord(tracker, d) :
        \E stats \in AfterRead(after, d) : RecordedWith(d, long, stats)

----------------------------------------------------------------------------
(* Handlers, which run once the promoter has been started                  *)

Serving == promoter.at # "off"

\* MemoryHandler.store: only the row matters to promotion.
Store(d) ==
    /\ Serving
    /\ rows[d] = "absent"
    /\ rows' = [rows EXCEPT ![d] = "stored"]
    /\ UNCHANGED <<tracker, queue, zombies, accesses, triggers, forced, warm>>

\* MemoryHandler.recall, and each result of ResearchHandler's search.
Recall(d) ==
    /\ Serving
    /\ rows[d] = "stored"
    /\ UNCHANGED <<rows, forced, warm>>
    /\ RecordAccess(d, FALSE)

\* A cold-tier hit of search_all_tiers is counted and decides nothing.
SearchHit(d) ==
    /\ Serving
    /\ rows[d] = "stored"
    /\ CountAccess(d)
    /\ tracker' \in AfterRecord(tracker, d)
    /\ UNCHANGED <<rows, queue, zombies, triggers, forced, warm>>

\* transcript_store and capture_store: the row, its first access and, for a
\* long text, a promotion whatever the count.
ResearchStore(d, long) ==
    /\ Serving
    /\ rows[d] = "absent"
    /\ rows' = [rows EXCEPT ![d] = "stored"]
    /\ RecordAccess(d, long)
    /\ forced' = IF long THEN forced \cup {d} ELSE forced
    /\ UNCHANGED warm

\* MemoryHandler.delete: the row and nothing else.
Delete(d) ==
    /\ Serving
    /\ rows[d] = "stored"
    /\ rows' = [rows EXCEPT ![d] = "deleted"]
    /\ UNCHANGED <<tracker, queue, zombies, accesses, triggers, forced, warm>>

----------------------------------------------------------------------------
(* The background promoter                                                 *)

\* start_background_promoter: run_stdio calls it before the first request.
StartBackgroundPromoter ==
    /\ promoter.at = "off"
    /\ promoter' = Holding("waiting", NoDoc)
    /\ UNCHANGED <<client, queue, zombies, graph>>

PromoterTakes ==
    /\ promoter.at = "waiting"
    /\ queue # <<>>
    /\ promoter' = Holding("reading", Head(queue))
    /\ queue' = Tail(queue)
    /\ UNCHANGED <<client, zombies, graph>>

\* Mutant: a promotion that fails ends the loop of the promoter.
PromoterReadsOrDies ==
    /\ promoter.at = "reading"
    /\ IF Promotable(promoter.doc, rows[promoter.doc])
       THEN promoter' = Holding("adding", promoter.doc)
       ELSE promoter' = Holding("dead", NoDoc)
    /\ UNCHANGED <<client, queue, zombies, graph>>

\* The row is read in a worker thread; a missing row, a too large one and an
\* error of SQLite all end the promotion.
PromoterReads ==
    /\ promoter.at = "reading"
    /\ \/ /\ Promotable(promoter.doc, rows[promoter.doc])
          /\ promoter' = Holding("adding", promoter.doc)
       \/ promoter' = Holding("waiting", NoDoc)
    /\ UNCHANGED <<client, queue, zombies, graph>>

\* Mutant: a promotion that timed out is tried once more.
PromoterAddsWithRetry ==
    /\ promoter.at = "adding"
    /\ \/ graph' = [graph EXCEPT ![promoter.doc] = @ + 1]
       \/ UNCHANGED graph
    /\ promoter' \in {promoter, Holding("waiting", NoDoc)}
    /\ UNCHANGED <<client, queue, zombies>>

\* add_memory adds the episode or not; it returns, with None on a failure it
\* has swallowed, or wait_for times out.
PromoterAdds ==
    /\ promoter.at = "adding"
    /\ \/ graph' = [graph EXCEPT ![promoter.doc] = @ + 1]
       \/ UNCHANGED graph
    /\ promoter' = Holding("waiting", NoDoc)
    /\ UNCHANGED <<client, queue, zombies>>

\* A coroutine run_async gave up on runs on the loop after all.
ZombieAdds(d) ==
    /\ zombies[d] > 0
    /\ zombies' = [zombies EXCEPT ![d] = @ - 1]
    /\ \/ graph' = [graph EXCEPT ![d] = @ + 1]
       \/ UNCHANGED graph
    /\ UNCHANGED <<client, queue, promoter>>

----------------------------------------------------------------------------
(* The environment                                                         *)

RedisExpires(d) ==
    /\ tracker.redis[d] > 0
    /\ tracker' = Expired(tracker, d)
    /\ UNCHANGED <<rows, queue, zombies, accesses, triggers, forced, warm>>

\* The process dies and starts again: what it held in memory is gone, and an
\* add that was under way may have reached the graph.
Restart ==
    /\ Serving
    /\ tracker' = LocalLost(tracker)
    /\ queue' = <<>>
    /\ zombies' = [d \in Docs |-> 0]
    /\ promoter' = Holding("off", NoDoc)
    /\ \/ UNCHANGED graph
       \/ /\ promoter.at = "adding"
          /\ graph' = [graph EXCEPT ![promoter.doc] = @ + 1]
    /\ UNCHANGED <<rows, accesses, triggers, forced>>

Next ==
    \/ \E d \in Docs :
          \/ Store(d) \/ Recall(d) \/ SearchHit(d) \/ Delete(d)
          \/ \E long \in BOOLEAN : ResearchStore(d, long)
          \/ ZombieAdds(d) \/ RedisExpires(d)
    \/ StartBackgroundPromoter \/ PromoterTakes \/ PromoterReads \/ PromoterAdds
    \/ Restart

PromoterStep == PromoterTakes \/ PromoterReads \/ PromoterAdds

Spec == Init /\ [][Next]_vars

\* The event loop runs every ready task, and every await of the promoter ends:
\* the queue read and the episode have timeouts, the row read is local.
FairSpec == Spec /\ WF_vars(StartBackgroundPromoter) /\ WF_vars(PromoterStep)
                 /\ \A d \in Docs : WF_vars(ZombieAdds(d))

----------------------------------------------------------------------------
(* Properties                                                              *)

TypeOK ==
    /\ rows \in [Docs -> {"absent", "stored", "deleted"}]
    /\ tracker \in Tracker
    /\ queue \in Seq(Docs)
    /\ Len(queue) <= MaxQueue
    /\ promoter \in Promoter
    /\ (promoter.doc \in Docs) = (promoter.at \in {"reading", "adding"})
    /\ zombies \in [Docs -> Nat]
    /\ graph \in [Docs -> Nat]
    /\ accesses \in [Docs -> Nat]
    /\ triggers \in [Docs -> Nat]
    /\ forced \subseteq Docs

InQueue(d) == \E i \in DOMAIN queue : queue[i] = d

\* Promotions of d that have read the row and may still add an episode.
InFlight(d) == zombies[d] + (IF promoter = Holding("adding", d) THEN 1 ELSE 0)

\* Neither count of a document exceeds the accesses it really had, although an
\* access whose answer Redis lost is counted twice and evicted or expired
\* counts start again.
CountsSound ==
    \A d \in Docs : tracker.redis[d] <= accesses[d] /\ tracker.local[d] <= accesses[d]

\* No document is on its way to the graph, or in it, before it has really been
\* accessed Threshold times, unless it is a long research text: accesses that
\* are counted in Redis, in the local cache, or in both because Redis lost an
\* answer, never make the count get_stats returns run ahead.
NeverPremature ==
    \A d \in Docs :
        (InQueue(d) \/ promoter.doc = d \/ zombies[d] > 0 \/ graph[d] > 0)
            => \/ accesses[d] >= Threshold /\ d \notin Short
               \/ d \in forced

\* What a promotion asked for can add: at most one episode, whether it waits
\* in the queue, is read or added by the promoter, or was abandoned by
\* run_async; a timeout after the episode was written is not retried.
Waiting(d) == Cardinality({i \in DOMAIN queue : queue[i] = d})
                + (IF promoter = Holding("reading", d) THEN 1 ELSE 0)

OneEpisodePerTrigger ==
    \A d \in Docs : graph[d] + InFlight(d) + Waiting(d) <= triggers[d]

\* Deleting a document stops its promotions: those still queued find no row,
\* and only the ones that had already read it can add an episode.
DeletedNotReadAgain ==
    [][\A d \in Docs : rows[d] = "deleted" =>
          /\ InFlight(d)' <= InFlight(d)
          /\ graph'[d] > graph[d] => InFlight(d)' < InFlight(d)]_vars

\* A queued document leaves the queue, whatever happened to those before it:
\* no failure or timeout of a promotion ends the background loop.
QueueIsServed == \A d \in Docs : InQueue(d) ~> ~InQueue(d)
=============================================================================
