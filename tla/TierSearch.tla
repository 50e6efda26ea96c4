----------------------------- MODULE TierSearch -----------------------------
(***************************************************************************)
(* A search over the tiers: memory_search, which asks them one after the   *)
(* other (search_all_tiers) or SQLite alone, and research_search, which    *)
(* asks them at once (search_all_tiers_parallel) and falls back on SQLite. *)
(* Documents are stored and deleted meanwhile.                             *)
(*                                                                         *)
(* A result is the tier it is from, the thing it found, the fields that    *)
(* are in it and its score in tenths.  The query matches every thing here. *)
(* The hot tier answers with nothing: see HotTier.  The accesses that a    *)
(* search counts are in TierPromotion.                                     *)
(***************************************************************************)
EXTENDS Naturals, Sequences, FiniteSets, SequencesExt

CONSTANTS Documents,    \* each a record: its type and its group
          Entities, Notes, Lines,  \* of the graph, the vault and livegrep
          Limit, NoFilter

\* The ids are of different forms: the first 16 characters of a UUID, whole UUIDs of the
\* graph, hashes of the notes' paths, and livegrep's lines have none.
ASSUME SearchAssumption ==
    /\ Limit \in Nat
    /\ Documents \cap Entities = {} /\ Documents \cap Notes = {} /\ Entities \cap Notes = {}

VARIABLES
    docs,       \* the documents in SQLite
    at,         \* "idle", "ask", "fallback", "merge", "filter" or "done"
    kind,       \* which search
    filter,     \* what the results must have: a field and its value, or NoFilter
    asked,      \* the tiers that have been asked
    answers,    \* the results of each
    results,    \* the results so far
    steady      \* history: documents that were there all the time

searchVars == <<docs, at, kind, filter, asked, answers, results, steady>>

Tiers == {"warm", "cold", "archive", "code"}
Kinds == {"text", "hybrid", "research", "all"}

\* hybrid goes from tier to tier; research and all (the default of the parallel search)
\* ask theirs at once.
Asks(k) ==
    CASE k = "text"     -> <<"cold">>
      [] k = "hybrid"   -> <<"warm", "cold", "code">>
      [] k = "research" -> <<"cold", "warm">>
      [] k = "all"      -> <<"warm", "cold", "archive">>
Parallel(k) == k \in {"research", "all"}
Fetch == IF kind = "all" THEN Limit ELSE 2 * Limit

Filters == {NoFilter} \cup {<<f, d[f]>> : f \in {"type", "group"}, d \in Documents}

\* _doc_to_result has the type of a document and neither its project nor its tags and
\* metadata, which the direct search has; the others have a score in sequence only.
Result(tier, thing) ==
    [tier |-> tier, thing |-> thing,
     fields |-> CASE tier = "cold" /\ kind = "text" -> {"type", "group"}
                  [] tier = "cold" /\ at = "fallback" -> {"type", "group"}
                  [] tier = "cold" -> {"type"}
                  [] OTHER -> {},
     score |-> CASE tier = "cold" -> IF kind = "text" THEN 10 ELSE 7
                 [] tier = "warm" /\ kind = "hybrid" -> 8
                 [] tier = "archive" -> 6
                 [] OTHER -> 0]

Things(tier) ==
    CASE tier = "warm" -> Entities [] tier = "cold" -> docs
      [] tier = "archive" -> Notes [] tier = "code" -> Lines

\* The best n things of a tier, in an order that is the tier's own; the graph may give
\* an entity twice.
Lists(things, n) ==
    {s \in UNION {[1..k -> things] : k \in 0..n} :
        IsInjective(s) /\ (Len(s) = n \/ ToSet(s) = things)}
Twice(s) == IF s = <<>> THEN s ELSE <<Head(s)>> \o s
Found(tier, n) ==
    {[i \in DOMAIN s |-> Result(tier, s[i])] :
        s \in Lists(Things(tier), n)
                \cup IF tier = "warm" THEN {Twice(l) : l \in Lists(Things(tier), n - 1)} ELSE {}}

First(s, n) == SubSeq(s, 1, IF Len(s) < n THEN Len(s) ELSE n)

\* What is in s at these places, in this order: the pairs of which the first is before the
\* second.
Arranged(s, places, before) ==
    LET Under(i) == {j \in places : <<j, i>> \in before}
    IN  [n \in 1 .. Cardinality(places) |->
            s[CHOOSE i \in places : Cardinality(Under(i)) = n - 1]]

\* What is seen already is left out.
FirstPlaces(s) == {i \in DOMAIN s : \A j \in 1 .. i - 1 : s[j].thing # s[i].thing}
Distinct(s) ==
    LET places == FirstPlaces(s)
    IN  Arranged(s, places, {p \in places \X places : p[1] < p[2]})

SearchInit ==
    /\ docs \in SUBSET Documents
    /\ at = "idle" /\ kind = "text" /\ filter = NoFilter
    /\ asked = {} /\ answers = [t \in Tiers |-> <<>>] /\ results = <<>> /\ steady = {}

Store(d) ==
    /\ d \notin docs /\ docs' = docs \cup {d}
    /\ UNCHANGED <<at, kind, filter, asked, answers, results, steady>>
Delete(d) ==
    /\ d \in docs /\ docs' = docs \ {d} /\ steady' = steady \ {d}
    /\ UNCHANGED <<at, kind, filter, asked, answers, results>>

Search(k, f) ==
    /\ at = "idle" /\ at' = "ask" /\ kind' = k
    /\ filter' = IF k = "all" THEN NoFilter ELSE f
    /\ steady' = docs
    /\ UNCHANGED <<docs, asked, answers, results>>

NotAsked == ToSet(Asks(kind)) \ asked

\* One tier after the other, for as many results as are missing.  A tier that fails is
\* one that found nothing.
AskNext(tier) ==
    /\ at = "ask" /\ ~Parallel(kind)
    /\ \E i \in DOMAIN Asks(kind) :
         tier = Asks(kind)[i] /\ asked = ToSet(SubSeq(Asks(kind), 1, i - 1))
    /\ asked' = asked \cup {tier}
    /\ IF Len(results) < Fetch
       THEN \E s \in Found(tier, Fetch - Len(results)) \cup {<<>>} :
                /\ results' = Distinct(results \o s)
                /\ answers' = [answers EXCEPT ![tier] = s]
                /\ steady' = IF tier = "cold" /\ s = <<>> THEN {} ELSE steady
       ELSE UNCHANGED <<results, answers, steady>>
    /\ at' = IF NotAsked = {tier} THEN "filter" ELSE at
    /\ UNCHANGED <<docs, kind, filter>>

\* The tiers answer in any order, or fail.
Answer(tier) ==
    /\ at = "ask" /\ Parallel(kind) /\ tier \in NotAsked
    /\ asked' = asked \cup {tier}
    /\ \E s \in Found(tier, Fetch) \cup {<<>>} :
           /\ answers' = [answers EXCEPT ![tier] = s]
           /\ steady' = IF tier = "cold" /\ s = <<>> THEN {} ELSE steady
    /\ at' = IF NotAsked = {tier} THEN "merge" ELSE at
    /\ UNCHANGED <<docs, kind, filter, results>>

\* Mutant: each tier's results are cut before they are sorted.
RankedInOrder(s) == First(Distinct(s), Fetch)

\* Sorted by score, the best first, those of one score in their order.
Better(s, i, j) == s[i].score > s[j].score \/ (s[i].score = s[j].score /\ i < j)
Ranked(s) ==
    LET places == FirstPlaces(s)
    IN  First(Arranged(s, places, {p \in places \X places : Better(s, p[1], p[2])}), Fetch)

\* What the tiers have answered, tier by tier.
AllAnswers ==
    IF kind = "all" THEN answers["warm"] \o answers["cold"] \o answers["archive"]
    ELSE answers["cold"] \o answers["warm"]

Merge ==
    /\ at = "merge" /\ at' = IF kind = "all" THEN "done" ELSE "filter"
    /\ results' = Ranked(AllAnswers)
    /\ UNCHANGED <<docs, kind, filter, asked, answers, steady>>

\* The parallel search takes too long, or there is no loop for it: research_search asks
\* SQLite itself.
Fallback ==
    /\ at = "ask" /\ kind = "research" /\ at' = "fallback"
    /\ asked' = Tiers
    /\ UNCHANGED <<docs, kind, filter, answers, results, steady>>
AskSqlite ==
    /\ at = "fallback" /\ at' = "filter"
    /\ \E s \in Found("cold", Fetch) : results' = s
    /\ UNCHANGED <<docs, kind, filter, asked, answers, steady>>

Passes(r) ==
    \/ filter = NoFilter
    \/ filter[1] \in r.fields /\ r.thing[filter[1]] = filter[2]

\* research_search shows documents of its own types only.
Shown(r) == Passes(r) /\ (kind = "research" => r.tier = "cold")

FilterResults ==
    /\ at = "filter" /\ at' = "done"
    /\ results' = First(SelectSeq(results, Shown), Limit)
    /\ UNCHANGED <<docs, kind, filter, asked, answers, steady>>

Answered ==
    /\ at = "done" /\ at' = "idle" /\ asked' = {}
    /\ answers' = [t \in Tiers |-> <<>>] /\ results' = <<>> /\ steady' = {}
    /\ UNCHANGED <<docs, kind, filter>>

SearchNext ==
    \/ \E d \in Documents : Store(d) \/ Delete(d)
    \/ \E k \in Kinds, f \in Filters : Search(k, f)
    \/ \E t \in Tiers : AskNext(t) \/ Answer(t)
    \/ Merge \/ Fallback \/ AskSqlite \/ FilterResults \/ Answered

SearchSpec == SearchInit /\ [][SearchNext]_searchVars
-----------------------------------------------------------------------------
InResults(r) == \E i \in DOMAIN results : results[i] = r

\* Whatever order the tiers answer in, the parallel search gives no thing twice, and what
\* it leaves out of the tiers' answers scores no more than what it gives.
BestAreGiven ==
    at = "done" /\ kind = "all" =>
        /\ \A i, j \in DOMAIN results : results[i].thing = results[j].thing => i = j
        /\ \A t \in Tiers : \A i \in DOMAIN answers[t] :
             \/ InResults(answers[t][i])
             \/ Len(results) = Limit
                /\ \A j \in DOMAIN results : results[j].score >= answers[t][i].score

\* memory_search: "filters (optional): Dict with doc_type, project, tags filters".  A
\* document that passes the filter is found if there is room for all there are.
FilteredAreFound ==
    at = "done" /\ kind \in {"text", "hybrid"} /\ filter # NoFilter
        /\ Cardinality(Documents \cup Entities) <= Limit =>
        \A d \in steady : d[filter[1]] = filter[2] =>
            \E i \in DOMAIN results : results[i].thing = d
=============================================================================
