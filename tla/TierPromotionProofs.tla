------------------------ MODULE TierPromotionProofs ------------------------
(***************************************************************************)
(* Proofs about TierPromotion: its state is well typed, and no document is *)
(* promoted before its accesses call for it.  The second needs to know     *)
(* that neither place that counts accesses ever runs ahead of them.  Each  *)
(* promotion that is asked for adds at most one episode, and a document    *)
(* that is deleted gets no new one.                                        *)
(***************************************************************************)
EXTENDS TierPromotion, FiniteSetTheorems, SequenceTheorems, TLAPS

\* Moving an entry to the end of the LRU order leaves an order of documents.
LEMMA MoveToEndType ==
    ASSUME NEW lru \in Seq(Docs), NEW d \in Docs,
           \E i \in DOMAIN lru : lru[i] = d
    PROVE  MoveToEnd(lru, d) \in Seq(Docs)
<1> DEFINE i == CHOOSE j \in DOMAIN lru : lru[j] = d
<1>1. i \in 1 .. Len(lru)
  BY LenProperties
<1>2. SubSeq(lru, 1, i - 1) \in Seq(Docs)
  BY <1>1, SubSeqProperties, LenProperties
<1>3. SubSeq(lru, i + 1, Len(lru)) \in Seq(Docs)
  BY <1>1, SubSeqProperties, LenProperties
<1>4. RemoveAt(lru, i) \in Seq(Docs)
  BY <1>2, <1>3, ConcatProperties DEF RemoveAt
<1>5. QED
  BY <1>4, AppendProperties DEF MoveToEnd

\* Counting one access locally: the document's own count grows by one at most
\* and no other count grows.
LEMMA CountLocallyFacts ==
    ASSUME NEW t \in Tracker, NEW d \in Docs
    PROVE  /\ CountLocally(t, d) \in Tracker
           /\ CountLocally(t, d).redis = t.redis
           /\ \A e \in Docs : CountLocally(t, d).local[e] <= t.local[e] + (IF e = d THEN 1 ELSE 0)
<1>1. CASE Cached(t, d)
  <2>1. MoveToEnd(t.lru, d) \in Seq(Docs)
    BY <1>1, MoveToEndType DEF Cached, Tracker
  <2>2. QED
    BY <1>1, <2>1 DEF CountLocally, WithLocal, Tracker
<1>2. CASE ~Cached(t, d)
  <2> DEFINE u == Evicted(t)
  <2>1. /\ u \in Tracker
        /\ u.redis = t.redis
        /\ \A e \in Docs : u.local[e] <= t.local[e]
    <3>1. CASE Len(t.lru) >= MaxLocal
      <4>1. t.lru # <<>>
        BY <3>1, MaxLocalAssumption, EmptySeq
      <4>2. Tail(t.lru) \in Seq(Docs) /\ Head(t.lru) \in Docs
        BY <4>1, HeadTailProperties DEF Tracker
      <4>3. u = WithLocal(t, [t.local EXCEPT ![Head(t.lru)] = 0], Tail(t.lru))
        BY <3>1 DEF Evicted
      <4>4. QED
        BY <4>2, <4>3 DEF WithLocal, Tracker
    <3>2. CASE ~(Len(t.lru) >= MaxLocal)
      BY <3>2 DEF Evicted, Tracker
    <3>3. QED
      BY <3>1, <3>2
  <2>2. Append(u.lru, d) \in Seq(Docs)
    BY <2>1, AppendProperties DEF Tracker
  <2>3. CountLocally(t, d) = WithLocal(u, [u.local EXCEPT ![d] = 1], Append(u.lru, d))
    BY <1>2 DEF CountLocally
  <2> HIDE DEF u
  <2>4. QED
    BY <2>1, <2>2, <2>3 DEF WithLocal, Tracker
<1>3. QED
  BY <1>1, <1>2

\* Whatever Redis does, recording an access adds one to a count at most.
LEMMA AfterRecordFacts ==
    ASSUME NEW t \in Tracker, NEW d \in Docs, NEW u \in AfterRecord(t, d)
    PROVE  /\ u \in Tracker
           /\ \A e \in Docs : /\ u.redis[e] <= t.redis[e] + (IF e = d THEN 1 ELSE 0)
                              /\ u.local[e] <= t.local[e] + (IF e = d THEN 1 ELSE 0)
<1> DEFINE r == CountInRedis(t, d)
<1>1. /\ r \in Tracker
      /\ r.local = t.local
      /\ \A e \in Docs : r.redis[e] <= t.redis[e] + (IF e = d THEN 1 ELSE 0)
  BY DEF CountInRedis, WithRedisCount, Tracker
<1>2. /\ CountLocally(r, d) \in Tracker
      /\ CountLocally(r, d).redis = r.redis
      /\ \A e \in Docs : CountLocally(r, d).local[e] <= r.local[e] + (IF e = d THEN 1 ELSE 0)
  BY <1>1, CountLocallyFacts
<1>3. CASE u = r
  <2>1. \A e \in Docs : t.local[e] \in Nat
    BY DEF Tracker
  <2>2. QED
    BY <1>1, <1>3, <2>1
<1>4. CASE u = CountLocally(t, d)
  <2>1. \A e \in Docs : t.redis[e] \in Nat
    BY DEF Tracker
  <2>2. QED
    BY <1>4, <2>1, CountLocallyFacts
<1>5. CASE u = CountLocally(r, d)
  BY <1>1, <1>2, <1>5
<1>6. QED
  BY <1>3, <1>4, <1>5 DEF AfterRecord

\* Reading the statistics changes no count, and what it returns is one of the
\* two counts of the document.
LEMMA AfterReadFacts ==
    ASSUME NEW t \in Tracker, NEW d \in Docs, NEW r \in AfterRead(t, d)
    PROVE  /\ r.tracker \in Tracker
           /\ r.tracker.redis = t.redis
           /\ r.tracker.local = t.local
           /\ r.count \in {t.redis[d], t.local[d]}
<1>1. Cached(t, d) => MoveToEnd(t.lru, d) \in Seq(Docs)
  BY MoveToEndType DEF Cached, Tracker
<1>2. QED
  BY <1>1 DEF AfterRead, WithLocal, Tracker

----------------------------------------------------------------------------

\* Recording an access keeps the types of what it changes.
LEMMA RecordAccessType ==
    ASSUME TypeOK, NEW d \in Docs, NEW long \in BOOLEAN, RecordAccess(d, long)
    PROVE  /\ tracker' \in Tracker
           /\ queue' \in Seq(Docs) /\ Len(queue') <= MaxQueue
           /\ zombies' \in [Docs -> Nat]
           /\ accesses' \in [Docs -> Nat]
           /\ triggers' \in [Docs -> Nat]
<1>0. PICK after \in AfterRecord(tracker, d) :
          \E stats \in AfterRead(after, d) : RecordedWith(d, long, stats)
  BY DEF RecordAccess
<1>1. PICK stats \in AfterRead(after, d) : RecordedWith(d, long, stats)
  BY <1>0
<1>2. tracker' \in Tracker
  BY <1>1, AfterRecordFacts, AfterReadFacts DEF TypeOK, RecordedWith
<1>3. ASSUME NEW q \in Seq(Docs), Len(q) <= MaxQueue
      PROVE  Queued(q, d) \in Seq(Docs) /\ Len(Queued(q, d)) <= MaxQueue
  BY <1>3, AppendProperties, LenProperties, PromotionAssumption DEF Queued, QueueFull
<1>4. queue' \in Seq(Docs) /\ Len(queue') <= MaxQueue
  BY <1>1, <1>3 DEF TypeOK, RecordedWith
<1>5. zombies' \in [Docs -> Nat]
  BY <1>1 DEF TypeOK, PromotedOnTheSpot, RecordedWith
<1>6. accesses' \in [Docs -> Nat] /\ triggers' \in [Docs -> Nat]
  BY <1>1 DEF TypeOK, CountAccess, RecordedWith
<1>7. QED
  BY <1>2, <1>4, <1>5, <1>6

\* The state of the tier manager is well typed, and the promotion queue never
\* outgrows the maxsize asyncio.Queue was given.
THEOREM TypeCorrect == Spec => []TypeOK
<1>1. Init => TypeOK
  BY PromotionAssumption DEF Init, TypeOK, NoAccesses, Tracker, Holding, Promoter
<1>2. TypeOK /\ [Next]_vars => TypeOK'
  <2> SUFFICES ASSUME TypeOK, [Next]_vars PROVE TypeOK'
    OBVIOUS
  <2> USE DEF warm, client
  <2>1. ASSUME NEW d \in Docs, Store(d) PROVE TypeOK'
    BY <2>1 DEF Store, TypeOK
  <2>2. ASSUME NEW d \in Docs, Recall(d) PROVE TypeOK'
    BY <2>2, RecordAccessType DEF Recall, TypeOK
  <2>3. ASSUME NEW d \in Docs, SearchHit(d) PROVE TypeOK'
    BY <2>3, AfterRecordFacts DEF SearchHit, TypeOK, CountAccess
  <2>4. ASSUME NEW d \in Docs, Delete(d) PROVE TypeOK'
    BY <2>4 DEF Delete, TypeOK
  <2>5. ASSUME NEW d \in Docs, NEW long \in BOOLEAN, ResearchStore(d, long)
        PROVE  TypeOK'
    BY <2>5, RecordAccessType DEF ResearchStore, TypeOK
  <2>6. ASSUME NEW d \in Docs, ZombieAdds(d) PROVE TypeOK'
    <3>1. zombies' \in [Docs -> Nat] /\ graph' \in [Docs -> Nat]
      BY <2>6 DEF ZombieAdds, TypeOK
    <3>2. QED
      BY <2>6, <3>1 DEF ZombieAdds, TypeOK
  <2>7. ASSUME NEW d \in Docs, RedisExpires(d) PROVE TypeOK'
    BY <2>7 DEF RedisExpires, Expired, WithRedisCount, Tracker, TypeOK
  <2>8. CASE StartBackgroundPromoter
    BY <2>8, PromotionAssumption DEF StartBackgroundPromoter, TypeOK, Holding, Promoter
  <2>9. CASE PromoterTakes
    <3>1. Head(queue) \in Docs /\ Tail(queue) \in Seq(Docs) /\ Len(Tail(queue)) <= MaxQueue
      BY <2>9, HeadTailProperties, LenProperties, PromotionAssumption
      DEF PromoterTakes, TypeOK
    <3>2. QED
      BY <2>9, <3>1 DEF PromoterTakes, TypeOK, Holding, Promoter
  <2>10. CASE PromoterReads
    BY <2>10, PromotionAssumption DEF PromoterReads, TypeOK, Holding, Promoter
  <2>11. CASE PromoterAdds
    <3>1. graph' = graph \/ graph' = [graph EXCEPT ![promoter.doc] = @ + 1]
      BY <2>11 DEF PromoterAdds
    <3>2. graph' \in [Docs -> Nat]
      BY <3>1 DEF TypeOK
    <3>3. QED
      BY <2>11, <3>2, PromotionAssumption DEF PromoterAdds, TypeOK, Holding, Promoter
  <2>12. CASE Restart
    <3>1. LocalLost(tracker) \in Tracker
      BY DEF LocalLost, NoAccesses, WithLocal, Tracker, TypeOK
    <3>2. graph' = graph \/ graph' = [graph EXCEPT ![promoter.doc] = @ + 1]
      BY <2>12 DEF Restart
    <3>3. graph' \in [Docs -> Nat]
      BY <3>2 DEF TypeOK
    <3>4. QED
      BY <2>12, <3>1, <3>3, PromotionAssumption
      DEF Restart, TypeOK, Holding, Promoter
  <2>13. CASE UNCHANGED vars
    BY <2>13 DEF vars, TypeOK
  <2>14. QED
    BY <2>1, <2>2, <2>3, <2>4, <2>5, <2>6, <2>7, <2>8, <2>9, <2>10, <2>11,
       <2>12, <2>13 DEF Next
<1>3. QED
  BY <1>1, <1>2, PTL DEF Spec

----------------------------------------------------------------------------

\* An access never makes a count run ahead of the accesses.
LEMMA CountsStaySound ==
    ASSUME TypeOK, CountsSound, NEW d \in Docs, CountAccess(d),
           NEW after \in AfterRecord(tracker, d),
           tracker'.redis = after.redis, tracker'.local = after.local
    PROVE  CountsSound'
<1>1. accesses' = [accesses EXCEPT ![d] = @ + 1] /\ accesses \in [Docs -> Nat]
  BY DEF CountAccess, TypeOK
<1>2. /\ after \in Tracker
      /\ \A e \in Docs : /\ after.redis[e] <= tracker.redis[e] + (IF e = d THEN 1 ELSE 0)
                         /\ after.local[e] <= tracker.local[e] + (IF e = d THEN 1 ELSE 0)
  BY AfterRecordFacts DEF TypeOK
<1>3. \A e \in Docs : /\ tracker.redis[e] \in Nat /\ tracker.local[e] \in Nat
                      /\ after.redis[e] \in Nat /\ after.local[e] \in Nat
  BY <1>2 DEF TypeOK, Tracker
<1>4. QED
  BY <1>1, <1>2, <1>3 DEF CountsSound

\* What makes a document eligible: its accesses, or that it was forced.
Eligible(d) == (accesses[d] >= Threshold /\ d \notin Short) \/ d \in forced

\* Documents that are promoted, or about to be.
OnTheWay(d) == InQueue(d) \/ promoter.doc = d \/ zombies[d] > 0 \/ graph[d] > 0

\* A document TierManager.record_access queues or promotes is eligible.
LEMMA RecordAccessEligible ==
    ASSUME TypeOK, CountsSound, NeverPremature, NEW d \in Docs, NEW long \in BOOLEAN,
           RecordAccess(d, long),
           forced' = IF long THEN forced \cup {d} ELSE forced, UNCHANGED warm
    PROVE  CountsSound' /\ NeverPremature'
<1>1. PICK after \in AfterRecord(tracker, d) :
          \E stats \in AfterRead(after, d) : RecordedWith(d, long, stats)
  BY DEF RecordAccess
<1>2. PICK stats \in AfterRead(after, d) : RecordedWith(d, long, stats)
  BY <1>1
<1> DEFINE asked == ShouldPromoteToWarm(d, stats)
           decided == IF asked THEN Queued(queue, d) ELSE queue
<1>3. /\ CountAccess(d)
      /\ tracker' = stats.tracker
      /\ queue' = IF long THEN Queued(decided, d) ELSE decided
      /\ zombies' = IF asked /\ QueueFull(queue) THEN PromotedOnTheSpot(d) ELSE zombies
  BY <1>2 DEF RecordedWith
<1>4. /\ after \in Tracker
      /\ tracker'.redis = after.redis /\ tracker'.local = after.local
      /\ stats.count \in {after.redis[d], after.local[d]}
  BY <1>3, AfterRecordFacts, AfterReadFacts DEF TypeOK
<1>5. CountsSound'
  BY <1>3, <1>4, CountsStaySound
<1>6. /\ accesses' = [accesses EXCEPT ![d] = @ + 1]
      /\ accesses \in [Docs -> Nat] /\ accesses' \in [Docs -> Nat]
  BY <1>3 DEF CountAccess, TypeOK
<1>7. asked \/ long => Eligible(d)'
  <2>1. CASE asked
    <3>1. stats.count >= Threshold /\ d \notin Short
      BY <2>1 DEF ShouldPromoteToWarm
    <3>2. stats.count \in Nat /\ stats.count <= accesses'[d]
      BY <1>4, <1>5, <1>6 DEF CountsSound, Tracker
    <3>3. QED
      BY <1>6, <3>1, <3>2, PromotionAssumption DEF Eligible
  <2>2. CASE long
    BY <2>2 DEF Eligible
  <2>3. QED
    BY <2>1, <2>2
<1>8. \A e \in Docs : Eligible(e) => Eligible(e)'
  BY <1>6, PromotionAssumption DEF Eligible
<1>9. ASSUME NEW q \in Seq(Docs), NEW e \in Docs, NEW i \in DOMAIN Queued(q, d),
             Queued(q, d)[i] = e, e # d
      PROVE  \E j \in DOMAIN q : q[j] = e
  BY <1>9, AppendProperties, LenProperties DEF Queued
<1>10. decided \in Seq(Docs)
  BY AppendProperties DEF Queued, TypeOK
<1>11. ASSUME NEW e \in Docs, e # d, OnTheWay(e)' PROVE OnTheWay(e)
  <2>1. InQueue(e)' => InQueue(e)
    BY <1>3, <1>9, <1>10, <1>11 DEF InQueue, TypeOK
  <2>2. zombies'[e] = zombies[e]
    BY <1>3, <1>11 DEF PromotedOnTheSpot, TypeOK
  <2>3. QED
    BY <1>11, <2>1, <2>2 DEF OnTheWay, warm
<1>12. ASSUME OnTheWay(d)', ~OnTheWay(d) PROVE asked \/ long
  BY <1>3, <1>12 DEF OnTheWay, InQueue, warm
<1>13. \A e \in Docs : OnTheWay(e) => Eligible(e)
  BY DEF NeverPremature, OnTheWay, Eligible
<1>14. \A e \in Docs : OnTheWay(e)' => Eligible(e)'
  BY <1>7, <1>8, <1>11, <1>12, <1>13
<1>15. QED
  BY <1>5, <1>14 DEF NeverPremature, OnTheWay, Eligible

\* The invariant that is inductive: NeverPremature alone is not, as a count
\* that ran ahead would break it at the next access.
IInv == TypeOK /\ CountsSound /\ NeverPremature

\* The steps that count no access only move documents along.
LEMMA MovingAlong ==
    ASSUME TypeOK, CountsSound, NeverPremature,
           accesses' = accesses, forced' = forced,
           \A e \in Docs : /\ tracker'.redis[e] \in {0, tracker.redis[e]}
                           /\ tracker'.local[e] \in {0, tracker.local[e]},
           \A e \in Docs : OnTheWay(e)' => OnTheWay(e)
    PROVE  CountsSound' /\ NeverPremature'
<1>1. CountsSound'
  <2>1. \A e \in Docs : accesses[e] \in Nat
    BY DEF TypeOK
  <2>2. \A e \in Docs : /\ tracker'.redis[e] = 0 \/ tracker'.redis[e] <= accesses[e]
                        /\ tracker'.local[e] = 0 \/ tracker'.local[e] <= accesses[e]
    BY DEF CountsSound
  <2>3. QED
    BY <2>1, <2>2 DEF CountsSound
<1>2. NeverPremature'
  BY DEF NeverPremature, OnTheWay
<1>3. QED
  BY <1>1, <1>2

\* No document is promoted before its accesses call for it, and no count of
\* accesses runs ahead, for any documents, thresholds and queue sizes.
THEOREM PromotionIsEarned == Spec => [](CountsSound /\ NeverPremature)
<1>1. Init => CountsSound /\ NeverPremature
  BY PromotionAssumption DEF Init, CountsSound, NeverPremature, NoAccesses, InQueue, Holding
<1>2. IInv /\ [Next]_vars => CountsSound' /\ NeverPremature'
  <2> SUFFICES ASSUME TypeOK, CountsSound, NeverPremature, [Next]_vars
               PROVE  CountsSound' /\ NeverPremature'
    BY DEF IInv
  <2> USE DEF warm, client
  <2>1. ASSUME NEW d \in Docs, Store(d) \/ Delete(d)
        PROVE  CountsSound' /\ NeverPremature'
    BY <2>1, MovingAlong DEF Store, Delete, OnTheWay, InQueue
  <2>2. ASSUME NEW d \in Docs, Recall(d)
        PROVE  CountsSound' /\ NeverPremature'
    BY <2>2, RecordAccessEligible DEF Recall
  <2>3. ASSUME NEW d \in Docs, SearchHit(d)
        PROVE  CountsSound' /\ NeverPremature'
    <3>1. CountsSound'
      BY <2>3, CountsStaySound DEF SearchHit
    <3>2. accesses' = [accesses EXCEPT ![d] = @ + 1] /\ accesses \in [Docs -> Nat]
      BY <2>3 DEF SearchHit, CountAccess, TypeOK
    <3>3. QED
      BY <2>3, <3>1, <3>2, PromotionAssumption DEF SearchHit, NeverPremature, InQueue
  <2>4. ASSUME NEW d \in Docs, NEW long \in BOOLEAN, ResearchStore(d, long)
        PROVE  CountsSound' /\ NeverPremature'
    BY <2>4, RecordAccessEligible DEF ResearchStore
  <2>5. ASSUME NEW d \in Docs, ZombieAdds(d)
        PROVE  CountsSound' /\ NeverPremature'
    <3>1. \A e \in Docs : OnTheWay(e)' => OnTheWay(e)
      BY <2>5 DEF ZombieAdds, OnTheWay, InQueue, TypeOK
    <3>2. QED
      BY <2>5, <3>1, MovingAlong DEF ZombieAdds
  <2>6. ASSUME NEW d \in Docs, RedisExpires(d)
        PROVE  CountsSound' /\ NeverPremature'
    <3>1. \A e \in Docs : /\ tracker'.redis[e] \in {0, tracker.redis[e]}
                          /\ tracker'.local[e] = tracker.local[e]
      BY <2>6 DEF RedisExpires, Expired, WithRedisCount, TypeOK, Tracker
    <3>2. QED
      BY <2>6, <3>1, MovingAlong DEF RedisExpires, OnTheWay, InQueue
  <2>7. CASE StartBackgroundPromoter
    BY <2>7, MovingAlong, PromotionAssumption
    DEF StartBackgroundPromoter, OnTheWay, InQueue, Holding
  <2>8. CASE PromoterTakes
    <3>1. \A e \in Docs : OnTheWay(e)' => OnTheWay(e)
      <4>1. /\ queue \in Seq(Docs) /\ queue # <<>>
            /\ queue' = Tail(queue) /\ promoter'.doc = Head(queue)
        BY <2>8 DEF PromoterTakes, TypeOK, Holding
      <4>2. ASSUME NEW e \in Docs, InQueue(e)' PROVE InQueue(e)
        BY <4>1, <4>2, HeadTailProperties, LenProperties DEF InQueue
      <4>3. InQueue(Head(queue))
        BY <4>1, LenProperties DEF InQueue
      <4>4. QED
        BY <2>8, <4>1, <4>2, <4>3 DEF PromoterTakes, OnTheWay
    <3>2. QED
      BY <2>8, <3>1, MovingAlong DEF PromoterTakes
  <2>9. CASE PromoterReads
    BY <2>9, MovingAlong, PromotionAssumption
    DEF PromoterReads, OnTheWay, InQueue, Holding
  <2>10. CASE PromoterAdds
    <3>1. promoter'.doc = NoDoc /\ zombies' = zombies /\ queue' = queue
      BY <2>10 DEF PromoterAdds, Holding
    <3>2. \A e \in Docs : graph'[e] > 0 => graph[e] > 0 \/ promoter.doc = e
      BY <2>10 DEF PromoterAdds, TypeOK
    <3>3. \A e \in Docs : OnTheWay(e)' => OnTheWay(e)
      BY <3>1, <3>2, PromotionAssumption DEF OnTheWay, InQueue
    <3>4. QED
      BY <2>10, <3>3, MovingAlong DEF PromoterAdds
  <2>11. CASE Restart
    <3>1. /\ promoter'.doc = NoDoc /\ queue' = <<>>
          /\ \A e \in Docs : zombies'[e] = 0
      BY <2>11 DEF Restart, Holding
    <3>2. \A e \in Docs : graph'[e] > 0 => graph[e] > 0 \/ promoter.doc = e
      BY <2>11 DEF Restart, TypeOK
    <3>3. \A e \in Docs : OnTheWay(e)' => OnTheWay(e)
      BY <3>1, <3>2, PromotionAssumption DEF OnTheWay, InQueue
    <3>4. \A e \in Docs : /\ tracker'.redis[e] = tracker.redis[e]
                          /\ tracker'.local[e] = 0
      BY <2>11 DEF Restart, LocalLost, WithLocal, NoAccesses
    <3>5. QED
      BY <2>11, <3>3, <3>4, MovingAlong DEF Restart
  <2>12. CASE UNCHANGED vars
    BY <2>12, MovingAlong DEF vars, OnTheWay, InQueue
  <2>13. QED
    BY <2>1, <2>2, <2>3, <2>4, <2>5, <2>6, <2>7, <2>8, <2>9, <2>10, <2>11,
       <2>12 DEF Next
<1>3. QED
  BY <1>1, <1>2, TypeCorrect, PTL DEF Spec, IInv

----------------------------------------------------------------------------

\* A document that was deleted gets no new promotion, and each episode it still gets
\* uses up one that had read the row.
Dwindles(e) ==
    /\ InFlight(e)' <= InFlight(e)
    /\ graph'[e] > graph[e] => InFlight(e)' < InFlight(e)

\* The promoter, the abandoned coroutines and a restart use up what they add.
LEMMA PromotionsAreUsedUp ==
    ASSUME TypeOK, NEW e \in Docs, rows[e] = "deleted",
           \/ PromoterTakes \/ PromoterReads \/ PromoterAdds \/ Restart
           \/ StartBackgroundPromoter \/ \E d \in Docs : ZombieAdds(d)
    PROVE  Dwindles(e)
<1> USE DEF Dwindles, InFlight, Holding
<1>1. /\ zombies[e] \in Nat /\ graph \in [Docs -> Nat] /\ graph[e] \in Nat
      /\ promoter \in Promoter /\ zombies \in [Docs -> Nat]
  BY DEF TypeOK
<1>2. CASE PromoterTakes \/ StartBackgroundPromoter
  <2>1. zombies' = zombies /\ graph' = graph /\ promoter'.at # "adding"
    BY <1>2 DEF PromoterTakes, StartBackgroundPromoter
  <2> QED
    BY <1>1, <2>1
<1>3. CASE PromoterReads
  <2>1. zombies' = zombies /\ graph' = graph /\ promoter' # [at |-> "adding", doc |-> e]
    BY <1>3 DEF PromoterReads, Promotable
  <2> QED
    BY <1>1, <2>1
<1>4. CASE PromoterAdds
  <2>1. /\ zombies' = zombies /\ promoter'.at # "adding" /\ promoter.at = "adding"
        /\ graph' = graph \/ graph' = [graph EXCEPT ![promoter.doc] = @ + 1]
    BY <1>4 DEF PromoterAdds
  <2>2. graph'[e] > graph[e] => promoter = [at |-> "adding", doc |-> e]
    BY <1>1, <2>1 DEF Promoter
  <2> QED
    BY <1>1, <2>1, <2>2
<1>5. CASE Restart
  <2>1. /\ zombies'[e] = 0 /\ promoter'.at # "adding"
        /\ \/ graph' = graph
           \/ promoter.at = "adding" /\ graph' = [graph EXCEPT ![promoter.doc] = @ + 1]
    BY <1>5 DEF Restart
  <2>2. graph'[e] > graph[e] => promoter = [at |-> "adding", doc |-> e]
    BY <1>1, <2>1 DEF Promoter
  <2> QED
    BY <1>1, <2>1, <2>2
<1>6. ASSUME NEW d \in Docs, ZombieAdds(d) PROVE Dwindles(e)
  <2>1. /\ promoter' = promoter /\ zombies[d] > 0
        /\ zombies' = [zombies EXCEPT ![d] = @ - 1]
        /\ graph' = graph \/ graph' = [graph EXCEPT ![d] = @ + 1]
    BY <1>6 DEF ZombieAdds
  <2> QED
    BY <1>1, <2>1
<1> QED
  BY <1>2, <1>3, <1>4, <1>5, <1>6

\* A request starts no promotion of a document but its own, which has a row.
LEMMA RequestsStartNone ==
    ASSUME TypeOK, NEW e \in Docs, rows[e] = "deleted",
           NEW d \in Docs,
           \/ Store(d) \/ Recall(d) \/ SearchHit(d) \/ Delete(d) \/ RedisExpires(d)
           \/ \E long \in BOOLEAN : ResearchStore(d, long)
    PROVE  Dwindles(e)
<1>1. zombies[e] \in Nat /\ graph[e] \in Nat /\ zombies \in [Docs -> Nat]
  BY DEF TypeOK
<1>2. promoter' = promoter /\ graph' = graph
  BY DEF Store, Recall, SearchHit, Delete, RedisExpires, ResearchStore, warm
<1>3. zombies'[e] = zombies[e]
  <2>1. CASE UNCHANGED zombies
    BY <2>1
  <2>2. CASE d # e /\ \E long \in BOOLEAN : RecordAccess(d, long)
    BY <1>1, <2>2 DEF RecordAccess, RecordedWith, PromotedOnTheSpot
  <2> QED
    BY <2>1, <2>2 DEF Store, Recall, SearchHit, Delete, RedisExpires, ResearchStore
<1> QED
  BY <1>1, <1>2, <1>3 DEF Dwindles, InFlight, Holding

\* Once a document is deleted, only promotions that had read its row can add an episode,
\* for any documents, thresholds and queue sizes: what is queued finds no row, and no
\* request, time-out or restart begins another.
THEOREM DeletionStopsPromotion == Spec => DeletedNotReadAgain
<1>1. TypeOK /\ [Next]_vars =>
        [\A d \in Docs : rows[d] = "deleted" =>
            /\ InFlight(d)' <= InFlight(d)
            /\ graph'[d] > graph[d] => InFlight(d)' < InFlight(d)]_vars
  <2> SUFFICES ASSUME TypeOK, Next, NEW e \in Docs, rows[e] = "deleted" PROVE Dwindles(e)
    BY DEF Dwindles
  <2> QED
    BY PromotionsAreUsedUp, RequestsStartNone DEF Next
<1> QED
  BY <1>1, TypeCorrect, PTL DEF Spec, DeletedNotReadAgain

----------------------------------------------------------------------------

\* The places of a document in the queue.
Places(q, e) == {i \in DOMAIN q : q[i] = e}

\* There are finitely many of them.
LEMMA PlacesAreFinite ==
    ASSUME NEW q \in Seq(Docs), NEW e \in Docs
    PROVE  IsFiniteSet(Places(q, e)) /\ Cardinality(Places(q, e)) \in Nat
<1>1. DOMAIN q = 1 .. Len(q) /\ Len(q) \in Nat
  OBVIOUS
<1>2. IsFiniteSet(1 .. Len(q))
  BY <1>1, FS_Interval
<1> QED
  BY <1>1, <1>2, FS_Subset, FS_CardinalityType DEF Places

\* queue_promotion adds at most one place, and only to the document it is given.
LEMMA PlacesQueued ==
    ASSUME NEW q \in Seq(Docs), NEW d \in Docs, NEW e \in Docs
    PROVE  /\ Queued(q, d) \in Seq(Docs)
           /\ Cardinality(Places(Queued(q, d), e)) <=
                 Cardinality(Places(q, e)) + (IF e = d /\ ~QueueFull(q) THEN 1 ELSE 0)
<1>1. IsFiniteSet(Places(q, e)) /\ Cardinality(Places(q, e)) \in Nat
  BY PlacesAreFinite
<1>2. CASE QueueFull(q)
  BY <1>1, <1>2 DEF Queued
<1>3. CASE ~QueueFull(q)
  <2>1. /\ Queued(q, d) = Append(q, d) /\ Append(q, d) \in Seq(Docs) /\ Len(q) \in Nat
        /\ DOMAIN q = 1 .. Len(q) /\ DOMAIN Append(q, d) = 1 .. Len(q) + 1
        /\ \A i \in 1 .. Len(q) : Append(q, d)[i] = q[i]
        /\ Append(q, d)[Len(q) + 1] = d
    BY <1>3 DEF Queued
  <2>2. CASE e = d
    <3>1. Places(Append(q, d), e) = Places(q, e) \cup {Len(q) + 1}
      BY <2>1, <2>2 DEF Places
    <3>2. Len(q) + 1 \notin Places(q, e)
      BY <2>1 DEF Places
    <3>3. Cardinality(Places(q, e) \cup {Len(q) + 1}) = Cardinality(Places(q, e)) + 1
      BY <1>1, <3>2, FS_AddElement
    <3> QED
      BY <1>1, <1>3, <2>1, <2>2, <3>1, <3>3
  <2>3. CASE e # d
    <3>1. Places(Append(q, d), e) = Places(q, e)
      BY <2>1, <2>3 DEF Places
    <3> QED
      BY <1>1, <2>1, <2>3, <3>1
  <2> QED
    BY <2>2, <2>3
<1> QED
  BY <1>2, <1>3

\* What is taken leaves one place less.
LEMMA PlacesTaken ==
    ASSUME NEW q \in Seq(Docs), q # <<>>, NEW e \in Docs
    PROVE  Cardinality(Places(q, e)) =
              Cardinality(Places(Tail(q), e)) + (IF e = Head(q) THEN 1 ELSE 0)
<1> DEFINE Rest == {i \in Places(q, e) : i # 1}
           f == [i \in Places(Tail(q), e) |-> i + 1]
<1>1. /\ Tail(q) \in Seq(Docs) /\ Len(q) \in Nat /\ Len(q) # 0 /\ Len(Tail(q)) = Len(q) - 1
      /\ DOMAIN q = 1 .. Len(q) /\ DOMAIN Tail(q) = 1 .. Len(q) - 1
      /\ \A i \in 1 .. Len(q) - 1 : Tail(q)[i] = q[i + 1]
      /\ Head(q) = q[1]
  OBVIOUS
<1>2. IsFiniteSet(Places(Tail(q), e)) /\ Cardinality(Places(Tail(q), e)) \in Nat
  BY <1>1, PlacesAreFinite
<1>3. /\ f \in [Places(Tail(q), e) -> Rest]
      /\ \A i, j \in Places(Tail(q), e) : f[i] = f[j] => i = j
  BY <1>1 DEF Places
<1>4. ASSUME NEW j \in Rest PROVE \E i \in Places(Tail(q), e) : f[i] = j
  <2>1. j - 1 \in Places(Tail(q), e) /\ f[j - 1] = j
    BY <1>1, <1>4 DEF Places
  <2> QED
    BY <2>1
<1>5. f \in Bijection(Places(Tail(q), e), Rest)
  BY <1>3, <1>4 DEF Bijection, Injection, Surjection, IsInjective
<1>6. IsFiniteSet(Rest) /\ Cardinality(Rest) = Cardinality(Places(Tail(q), e))
  BY <1>2, <1>5, FS_Bijection DEF ExistsBijection
<1>7. CASE e = Head(q)
  <2>1. Places(q, e) = Rest \cup {1} /\ 1 \notin Rest
    BY <1>1, <1>7 DEF Places
  <2> QED
    BY <1>6, <1>7, <2>1, FS_AddElement
<1>8. CASE e # Head(q)
  <2>1. Places(q, e) = Rest
    BY <1>1, <1>8 DEF Places
  <2> HIDE DEF Rest
  <2> QED
    BY <1>2, <1>6, <1>8, <2>1
<1> QED
  BY <1>7, <1>8

\* What a promotion that was asked for has become: an episode, or one that may come.
Reading(e) == IF promoter = Holding("reading", e) THEN 1 ELSE 0
Adding(e) == IF promoter = Holding("adding", e) THEN 1 ELSE 0

\* The same, as the property counts it...
LEMMA CountsOfPromotions ==
    ASSUME TypeOK, NEW e \in Docs
    PROVE  /\ graph[e] \in Nat /\ zombies[e] \in Nat /\ triggers[e] \in Nat
           /\ Cardinality(Places(queue, e)) \in Nat
           /\ Reading(e) \in {0, 1} /\ Adding(e) \in {0, 1}
           /\ InFlight(e) = zombies[e] + Adding(e)
           /\ Waiting(e) = Cardinality(Places(queue, e)) + Reading(e)
  BY PlacesAreFinite DEF TypeOK, Reading, Adding, InFlight, Waiting, Places

\* ...and in the next state.
LEMMA CountsOfPromotionsNext ==
    ASSUME TypeOK', NEW e \in Docs
    PROVE  /\ graph'[e] \in Nat /\ zombies'[e] \in Nat /\ triggers'[e] \in Nat
           /\ Cardinality(Places(queue', e)) \in Nat
           /\ Reading(e)' \in {0, 1} /\ Adding(e)' \in {0, 1}
           /\ InFlight(e)' = zombies'[e] + Adding(e)'
           /\ Waiting(e)' = Cardinality(Places(queue', e)) + Reading(e)'
  BY PlacesAreFinite DEF TypeOK, Reading, Adding, InFlight, Waiting, Places

\* An access adds at most as many promotions as it asks for.
LEMMA AsksForWhatItAdds ==
    ASSUME TypeOK, OneEpisodePerTrigger, TypeOK', NEW d \in Docs, NEW long \in BOOLEAN,
           RecordAccess(d, long), UNCHANGED warm
    PROVE  OneEpisodePerTrigger'
<1> SUFFICES ASSUME NEW e \in Docs
             PROVE  graph'[e] + InFlight(e)' + Waiting(e)' <= triggers'[e]
  BY DEF OneEpisodePerTrigger
<1>1. PICK after \in AfterRecord(tracker, d) :
          \E stats \in AfterRead(after, d) : RecordedWith(d, long, stats)
  BY DEF RecordAccess
<1>2. PICK stats \in AfterRead(after, d) : RecordedWith(d, long, stats)
  BY <1>1
<1> DEFINE asked == ShouldPromoteToWarm(d, stats)
           decided == IF asked THEN Queued(queue, d) ELSE queue
<1>3. /\ queue' = IF long THEN Queued(decided, d) ELSE decided
      /\ zombies' = IF asked /\ QueueFull(queue) THEN PromotedOnTheSpot(d) ELSE zombies
      /\ triggers' = [triggers EXCEPT ![d] = @ + (IF asked THEN 1 ELSE 0)
                                               + (IF long THEN 1 ELSE 0)]
      /\ promoter' = promoter /\ graph' = graph
  BY <1>2 DEF RecordedWith, warm
<1> DEFINE own(b) == IF b /\ e = d THEN 1 ELSE 0
           n(q) == Cardinality(Places(q, e))
<1>4. queue \in Seq(Docs) /\ decided \in Seq(Docs)
  BY PlacesQueued DEF TypeOK
<1>5. n(queue) \in Nat /\ n(decided) \in Nat /\ n(queue') \in Nat
  BY <1>4, PlacesAreFinite DEF TypeOK
<1>6. n(decided) <= n(queue) + own(asked /\ ~QueueFull(queue))
  <2>1. CASE asked
    <3>1. decided = Queued(queue, d)
      BY <2>1
    <3> HIDE DEF asked, decided
    <3> QED
      BY <1>4, <1>5, <2>1, <3>1, PlacesQueued
  <2>2. CASE ~asked
    <3>1. decided = queue
      BY <2>2
    <3> HIDE DEF asked, decided
    <3> QED
      BY <1>5, <2>2, <3>1
  <2> QED
    BY <2>1, <2>2
<1>7. n(queue') <= n(decided) + own(long)
  <2> HIDE DEF asked, decided
  <2>1. CASE long
    <3>1. queue' = Queued(decided, d)
      BY <1>3, <2>1
    <3>2. n(Queued(decided, d)) <= n(decided) + (IF e = d /\ ~QueueFull(decided) THEN 1 ELSE 0)
      BY <1>4, PlacesQueued
    <3>3. n(queue') \in Nat /\ n(decided) \in Nat
      BY <1>5
    <3> HIDE DEF n
    <3> QED
      BY <2>1, <3>1, <3>2, <3>3
  <2>2. CASE ~long
    BY <1>3, <1>5, <2>2
  <2> QED
    BY <2>1, <2>2
<1>8. zombies'[e] <= zombies[e] + own(asked /\ QueueFull(queue))
  <2>1. zombies \in [Docs -> Nat] /\ zombies[e] \in Nat
    BY DEF TypeOK
  <2> HIDE DEF asked, decided
  <2> QED
    BY <1>3, <2>1 DEF PromotedOnTheSpot
<1>9. triggers'[e] = triggers[e] + own(asked) + own(long)
  <2>1. triggers \in [Docs -> Nat] /\ triggers[e] \in Nat
    BY DEF TypeOK
  <2> HIDE DEF asked, decided
  <2> QED
    BY <1>3, <2>1
<1>10. own(asked) = own(asked /\ QueueFull(queue)) + own(asked /\ ~QueueFull(queue))
       /\ \A b \in BOOLEAN : own(b) \in Nat
  OBVIOUS
<1>11. Reading(e)' = Reading(e) /\ Adding(e)' = Adding(e)
  BY <1>3 DEF Reading, Adding, Holding
<1>12. /\ graph[e] \in Nat /\ zombies[e] \in Nat /\ triggers[e] \in Nat
       /\ Reading(e) \in {0, 1} /\ Adding(e) \in {0, 1}
       /\ InFlight(e) = zombies[e] + Adding(e) /\ Waiting(e) = n(queue) + Reading(e)
  BY CountsOfPromotions
<1>13. /\ graph'[e] \in Nat /\ zombies'[e] \in Nat /\ triggers'[e] \in Nat
       /\ InFlight(e)' = zombies'[e] + Adding(e)' /\ Waiting(e)' = n(queue') + Reading(e)'
  BY CountsOfPromotionsNext
<1>14. graph[e] + InFlight(e) + Waiting(e) <= triggers[e]
  BY DEF OneEpisodePerTrigger
<1>15. asked \in BOOLEAN /\ QueueFull(queue) \in BOOLEAN
  BY DEF ShouldPromoteToWarm, QueueFull
<1>16. own(asked /\ QueueFull(queue)) \in Nat /\ own(asked /\ ~QueueFull(queue)) \in Nat
       /\ own(asked) \in Nat /\ own(long) \in Nat
  OBVIOUS
<1> HIDE DEF asked, decided, own, n
<1> QED
  BY <1>3, <1>5, <1>6, <1>7, <1>8, <1>9, <1>10, <1>11, <1>12, <1>13, <1>14, <1>16

\* A step that moves promotions along adds none.
LEMMA NoneIsAdded ==
    ASSUME TypeOK, TypeOK', OneEpisodePerTrigger, triggers' = triggers,
           \A e \in Docs :
              graph'[e] + zombies'[e] + Adding(e)' + Cardinality(Places(queue', e)) + Reading(e)'
                 <= graph[e] + zombies[e] + Adding(e) + Cardinality(Places(queue, e)) + Reading(e)
    PROVE  OneEpisodePerTrigger'
<1> SUFFICES ASSUME NEW e \in Docs
             PROVE  graph'[e] + InFlight(e)' + Waiting(e)' <= triggers'[e]
  BY DEF OneEpisodePerTrigger
<1> DEFINE n == Cardinality(Places(queue, e))
           k == Cardinality(Places(queue', e))
<1>1. /\ graph[e] \in Nat /\ zombies[e] \in Nat /\ triggers[e] \in Nat /\ n \in Nat
      /\ Reading(e) \in {0, 1} /\ Adding(e) \in {0, 1}
      /\ InFlight(e) = zombies[e] + Adding(e) /\ Waiting(e) = n + Reading(e)
  BY CountsOfPromotions
<1>2. /\ graph'[e] \in Nat /\ zombies'[e] \in Nat /\ k \in Nat
      /\ Reading(e)' \in {0, 1} /\ Adding(e)' \in {0, 1}
      /\ InFlight(e)' = zombies'[e] + Adding(e)' /\ Waiting(e)' = k + Reading(e)'
  BY CountsOfPromotionsNext
<1>3. graph[e] + InFlight(e) + Waiting(e) <= triggers[e]
  BY DEF OneEpisodePerTrigger
<1>4. graph'[e] + zombies'[e] + Adding(e)' + k + Reading(e)'
         <= graph[e] + zombies[e] + Adding(e) + n + Reading(e)
  OBVIOUS
<1> HIDE DEF n, k
<1> QED
  BY <1>1, <1>2, <1>3, <1>4

\* The promoter and the abandoned coroutines turn each promotion into an episode at most.
LEMMA MovingAddsNone ==
    ASSUME TypeOK, TypeOK', OneEpisodePerTrigger,
           \/ PromoterTakes \/ PromoterReads \/ PromoterAdds \/ Restart
           \/ StartBackgroundPromoter \/ \E d \in Docs : ZombieAdds(d)
    PROVE  OneEpisodePerTrigger'
<1> DEFINE n(q, e) == Cardinality(Places(q, e))
           Fewer == \A e \in Docs :
              graph'[e] + zombies'[e] + Adding(e)' + n(queue', e) + Reading(e)'
                 <= graph[e] + zombies[e] + Adding(e) + n(queue, e) + Reading(e)
<1>1. /\ \A e \in Docs : /\ n(queue, e) \in Nat /\ zombies[e] \in Nat /\ graph[e] \in Nat
                         /\ n(queue', e) \in Nat /\ zombies'[e] \in Nat /\ graph'[e] \in Nat
      /\ graph \in [Docs -> Nat] /\ zombies \in [Docs -> Nat]
  BY PlacesAreFinite DEF TypeOK
<1>2. promoter \in Promoter
  BY DEF TypeOK
<1>3. CASE StartBackgroundPromoter
  <2>1. Fewer
    <3> HIDE DEF n
    <3> QED
      BY <1>1, <1>3 DEF StartBackgroundPromoter, client, Reading, Adding, Holding
  <2> QED
    BY <1>3, <2>1, NoneIsAdded DEF StartBackgroundPromoter, client
<1>4. CASE PromoterTakes
  <2>1. /\ queue \in Seq(Docs) /\ queue # <<>> /\ queue' = Tail(queue)
        /\ promoter.at = "waiting" /\ promoter' = [at |-> "reading", doc |-> Head(queue)]
        /\ zombies' = zombies /\ graph' = graph /\ triggers' = triggers
    BY <1>4 DEF PromoterTakes, TypeOK, client, Holding
  <2>2. \A e \in Docs : n(queue, e) = n(queue', e) + (IF e = Head(queue) THEN 1 ELSE 0)
    BY <2>1, PlacesTaken
  <2>3. ASSUME NEW e \in Docs
        PROVE  /\ Reading(e) = 0 /\ Adding(e) = 0 /\ Adding(e)' = 0
               /\ Reading(e)' = IF e = Head(queue) THEN 1 ELSE 0
    BY <2>1 DEF Reading, Adding, Holding
  <2>4. ASSUME NEW e \in Docs, NEW a, a = n(queue, e), NEW b, b = n(queue', e)
        PROVE  graph'[e] + zombies'[e] + Adding(e)' + b + Reading(e)'
                  <= graph[e] + zombies[e] + Adding(e) + a + Reading(e)
    <3>1. a \in Nat /\ b \in Nat /\ a = b + (IF e = Head(queue) THEN 1 ELSE 0)
      BY <1>1, <2>2, <2>4
    <3>2. /\ graph'[e] = graph[e] /\ graph[e] \in Nat
          /\ zombies'[e] = zombies[e] /\ zombies[e] \in Nat
      BY <1>1, <2>1
    <3> HIDE DEF n
    <3> QED
      BY <2>3, <3>1, <3>2
  <2>5. Fewer
    BY <2>4
  <2> QED
    BY <2>1, <2>5, NoneIsAdded
<1>5. CASE PromoterReads
  <2>1. /\ promoter.at = "reading"
        /\ promoter' \in {[at |-> "adding", doc |-> promoter.doc],
                          [at |-> "waiting", doc |-> NoDoc]}
        /\ queue' = queue /\ zombies' = zombies /\ graph' = graph /\ triggers' = triggers
    BY <1>5 DEF PromoterReads, client, Holding
  <2>2. Fewer
    <3> HIDE DEF n
    <3> QED
      BY <1>1, <1>2, <2>1 DEF Reading, Adding, Holding, Promoter
  <2> QED
    BY <2>1, <2>2, NoneIsAdded
<1>6. CASE PromoterAdds
  <2>1. /\ promoter.at = "adding" /\ promoter' = [at |-> "waiting", doc |-> NoDoc]
        /\ queue' = queue /\ zombies' = zombies /\ triggers' = triggers
        /\ graph' = graph \/ graph' = [graph EXCEPT ![promoter.doc] = @ + 1]
    BY <1>6 DEF PromoterAdds, client, Holding
  <2>2. Fewer
    <3> HIDE DEF n
    <3> QED
      BY <1>1, <1>2, <2>1 DEF Reading, Adding, Holding, Promoter
  <2> QED
    BY <2>1, <2>2, NoneIsAdded
<1>7. CASE Restart
  <2>1. /\ promoter' = [at |-> "off", doc |-> NoDoc] /\ queue' = <<>> /\ triggers' = triggers
        /\ \A e \in Docs : zombies'[e] = 0
        /\ \/ graph' = graph
           \/ promoter.at = "adding" /\ graph' = [graph EXCEPT ![promoter.doc] = @ + 1]
    BY <1>7 DEF Restart, Holding
  <2>2. \A e \in Docs : n(queue', e) = 0
    <3>1. \A e \in Docs : Places(queue', e) = {}
      BY <2>1 DEF Places
    <3> QED
      BY <3>1, FS_EmptySet
  <2>3. ASSUME NEW e \in Docs
        PROVE  graph'[e] + zombies'[e] + Adding(e)' + n(queue', e) + Reading(e)'
                  <= graph[e] + zombies[e] + Adding(e) + n(queue, e) + Reading(e)
    <3>1. Adding(e)' = 0 /\ Reading(e)' = 0 /\ n(queue', e) = 0 /\ zombies'[e] = 0
      BY <2>1, <2>2 DEF Adding, Reading, Holding
    <3>2. Adding(e) \in {0, 1} /\ Reading(e) \in {0, 1}
      BY DEF Adding, Reading
    <3>3. graph'[e] <= graph[e] + Adding(e) /\ graph[e] \in Nat /\ graph'[e] \in Nat
      <4>1. CASE graph' = graph
        BY <1>1, <3>2, <4>1
      <4>2. CASE promoter.at = "adding" /\ graph' = [graph EXCEPT ![promoter.doc] = @ + 1]
        <5>1. graph'[e] = IF e = promoter.doc THEN graph[e] + 1 ELSE graph[e]
          BY <1>1, <4>2
        <5>2. Adding(e) = IF e = promoter.doc THEN 1 ELSE 0
          BY <1>2, <4>2 DEF Adding, Holding, Promoter
        <5>3. graph[e] \in Nat
          BY <1>1
        <5> QED
          BY <5>1, <5>2, <5>3
      <4> QED
        BY <2>1, <4>1, <4>2
    <3>4. n(queue, e) \in Nat /\ zombies[e] \in Nat
      BY <1>1, <1>2
    <3> HIDE DEF n
    <3> QED
      BY <3>1, <3>2, <3>3, <3>4
  <2>4. Fewer
    BY <2>3
  <2> QED
    BY <2>1, <2>4, NoneIsAdded
<1>8. ASSUME NEW d \in Docs, ZombieAdds(d) PROVE OneEpisodePerTrigger'
  <2>1. /\ promoter' = promoter /\ queue' = queue /\ triggers' = triggers
        /\ zombies[d] > 0 /\ zombies' = [zombies EXCEPT ![d] = @ - 1]
        /\ graph' = graph \/ graph' = [graph EXCEPT ![d] = @ + 1]
    BY <1>8 DEF ZombieAdds, client
  <2>2. Fewer
    <3> HIDE DEF n
    <3> QED
      BY <1>1, <2>1 DEF Reading, Adding, Holding
  <2> QED
    BY <2>1, <2>2, NoneIsAdded
<1> QED
  BY <1>3, <1>4, <1>5, <1>6, <1>7, <1>8

\* However often a promotion is refused by a full queue, given up by run_async and run
\* after all, or cut off by a restart, it adds at most one episode for each time it was
\* asked for: for any documents, thresholds and queue sizes.
THEOREM PromotedOnce == Spec => []OneEpisodePerTrigger
<1>1. Init => OneEpisodePerTrigger
  <2> SUFFICES ASSUME Init, NEW e \in Docs
               PROVE  graph[e] + InFlight(e) + Waiting(e) <= triggers[e]
    BY DEF OneEpisodePerTrigger
  <2>1. {i \in DOMAIN queue : queue[i] = e} = {}
    BY DEF Init
  <2>2. Waiting(e) = 0 /\ InFlight(e) = 0 /\ graph[e] = 0 /\ triggers[e] = 0
    BY <2>1, FS_EmptySet DEF Init, Waiting, InFlight, Holding
  <2> QED
    BY <2>2
<1>2. (TypeOK /\ TypeOK' /\ OneEpisodePerTrigger) /\ [Next]_vars => OneEpisodePerTrigger'
  <2> SUFFICES ASSUME TypeOK, TypeOK', OneEpisodePerTrigger, [Next]_vars
               PROVE  OneEpisodePerTrigger'
    OBVIOUS
  <2>1. ASSUME UNCHANGED <<queue, zombies, triggers, warm>> PROVE OneEpisodePerTrigger'
    BY <2>1 DEF OneEpisodePerTrigger, InFlight, Waiting, Holding, warm
  <2>2. ASSUME NEW d \in Docs, Recall(d) PROVE OneEpisodePerTrigger'
    BY <2>2, AsksForWhatItAdds DEF Recall
  <2>3. ASSUME NEW d \in Docs, NEW long \in BOOLEAN, ResearchStore(d, long)
        PROVE  OneEpisodePerTrigger'
    BY <2>3, AsksForWhatItAdds DEF ResearchStore
  <2>4. ASSUME NEW d \in Docs, Store(d) \/ SearchHit(d) \/ Delete(d) \/ RedisExpires(d)
        PROVE  OneEpisodePerTrigger'
    BY <2>1, <2>4 DEF Store, SearchHit, Delete, RedisExpires
  <2>5. CASE UNCHANGED vars
    BY <2>1, <2>5 DEF vars, warm
  <2> QED
    BY <2>2, <2>3, <2>4, <2>5, MovingAddsNone DEF Next
<1> QED
  BY <1>1, <1>2, TypeCorrect, PTL DEF Spec
=============================================================================
