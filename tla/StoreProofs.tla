----------------------------- MODULE StoreProofs -----------------------------
(***************************************************************************)
(* Proofs about what the servers keep between calls.                       *)
(***************************************************************************)
EXTENDS HotTier, LLMCache, EmbeddingCache, EmbeddingProviders, StatsFile, VaultNotes, Integers,
        TLAPS

----------------------------------------------------------------------------
(* The cache of the model's answers                                        *)

TouchSteps == {"touch only", "touch exact", "touch close"}

LlmTyped ==
    /\ entry \in [Prompts -> Answers \cup {NoAnswer}] /\ index \subseteq Prompts
    /\ where \in [Askers -> {"idle", "match", "generate", "store", "index", "pop", "clear"}
                                \cup Lookups \cup TouchSteps]
    /\ want \in [Askers -> Prompts] /\ look \in [Askers -> Prompts]
    /\ got \in [Askers -> Answers \cup {NoAnswer}]
    /\ left \in [Askers -> SUBSET Prompts]
    /\ answers \in 0 .. MaxAnswers
    /\ buried \subseteq Answers

\* Answers that were given so far.
Given == {n \in Answers : n.number <= answers}

\* Each entry is an answer to its prompt.
EntriesAreOwn == \A p \in Prompts : entry[p] # NoAnswer => entry[p] \in Given /\ entry[p].prompt = p

\* What an asker holds answers the prompt it has looked up, and then its own.
HoldsItsOwn(a) ==
    /\ Fits(want[a], look[a])
    /\ got[a] # NoAnswer =>
          /\ got[a] \in Given
          /\ \/ where[a] \in TouchSteps /\ got[a].prompt = look[a]
             \/ where[a] \in {"store", "index"} /\ got[a].prompt = want[a]

LlmInv ==
    /\ LlmTyped /\ EntriesAreOwn /\ (\A a \in Askers : HoldsItsOwn(a))
    /\ buried \subseteq Given /\ RemovedStaysGone
LEMMA LlmFacts ==
    ASSUME LlmInv
    PROVE  /\ \A p \in Prompts : entry[p] \in Answers \cup {NoAnswer}
           /\ \A a \in Askers : /\ where[a] # "idle" \/ got[a] = NoAnswer
                                /\ want[a] \in Prompts /\ look[a] \in Prompts
                                /\ got[a] \in Answers \cup {NoAnswer}
                                /\ Fits(want[a], look[a])
           /\ answers \in Nat /\ answers <= MaxAnswers /\ NoAnswer \notin Answers
<1>1. answers \in Nat /\ answers <= MaxAnswers /\ NoAnswer \notin Answers
  BY LlmAssumption DEF LlmInv, LlmTyped
<1>2. \A a \in Askers : where[a] # "idle" \/ got[a] = NoAnswer
  BY DEF LlmInv, HoldsItsOwn, TouchSteps
<1> QED
  BY <1>1, <1>2 DEF LlmInv, LlmTyped, HoldsItsOwn

\* A step of one asker, which may store what it holds but removes nothing for good.
LEMMA AskerKeeps ==
    ASSUME LlmInv, NEW a \in Askers, LlmTyped', buried' = buried, answers' >= answers,
           \A b \in Askers \ {a} : /\ where'[b] = where[b] /\ want'[b] = want[b]
                                   /\ look'[b] = look[b] /\ got'[b] = got[b],
           \A p \in Prompts : \/ entry'[p] \in {NoAnswer, entry[p]}
                              \/ entry'[p] = got[a] /\ got[a].prompt = p,
           HoldsItsOwn(a)', got'[a] \notin buried
    PROVE  LlmInv'
<1>1. Given \subseteq Given'
  BY LlmFacts DEF Given, LlmTyped, Answers
<1>2. NoAnswer \notin buried
  BY LlmAssumption DEF LlmInv, LlmTyped
<1>3. EntriesAreOwn' /\ \A p \in Prompts : entry'[p] \notin buried
  <2> SUFFICES ASSUME NEW p \in Prompts
               PROVE  /\ entry'[p] # NoAnswer => entry'[p] \in Given' /\ entry'[p].prompt = p
                      /\ entry'[p] \notin buried
    BY DEF EntriesAreOwn
  <2>1. CASE entry'[p] \in {NoAnswer, entry[p]}
    BY <1>1, <1>2, <2>1 DEF LlmInv, EntriesAreOwn, RemovedStaysGone
  <2>2. CASE entry'[p] = got[a] /\ got[a].prompt = p
    BY <1>1, <2>2 DEF LlmInv, HoldsItsOwn, RemovedStaysGone
  <2> QED
    BY <2>1, <2>2
<1>4. \A b \in Askers : HoldsItsOwn(b)' /\ got'[b] \notin buried
  <2> SUFFICES ASSUME NEW b \in Askers \ {a} PROVE HoldsItsOwn(b)' /\ got'[b] \notin buried
    OBVIOUS
  <2>1. HoldsItsOwn(b) /\ got[b] \notin buried
    BY DEF LlmInv, RemovedStaysGone
  <2> QED
    BY <1>1, <2>1 DEF HoldsItsOwn
<1>5. buried' \subseteq Given'
  BY <1>1 DEF LlmInv
<1> QED
  BY <1>3, <1>4, <1>5 DEF LlmInv, RemovedStaysGone

\* An asker that has nothing in its hands yet or any more.
LEMMA EmptyHanded ==
    ASSUME LlmInv, NEW a \in Askers, LlmTyped', buried' = buried, answers' = answers,
           \A b \in Askers \ {a} : /\ where'[b] = where[b] /\ want'[b] = want[b]
                                   /\ look'[b] = look[b] /\ got'[b] = got[b],
           \A p \in Prompts : \/ entry'[p] \in {NoAnswer, entry[p]}
                              \/ entry'[p] = got[a] /\ got[a].prompt = p,
           got'[a] = NoAnswer, Fits(want'[a], look'[a])
    PROVE  LlmInv'
<1>1. HoldsItsOwn(a)'
  BY DEF HoldsItsOwn, Fits
<1>2. got'[a] \notin buried
  BY LlmAssumption DEF LlmInv, LlmTyped
<1>3. answers' >= answers
  BY LlmFacts
<1> QED
  BY <1>1, <1>2, <1>3, AskerKeeps

LEMMA LookupsKeep ==
    ASSUME LlmInv, NEW a \in Askers,
           \/ \E p \in Prompts : Ask(a, p, "only") \/ Ask(a, p, "exact")
           \/ \E s \in Lookups : Lookup(a, s)
           \/ Match(a)
    PROVE  LlmInv'
<1>1. /\ UNCHANGED <<entry, index, answers, buried, left>>
      /\ got \in [Askers -> Answers \cup {NoAnswer}] /\ want \in [Askers -> Prompts]
      /\ look \in [Askers -> Prompts]
  BY DEF LlmInv, LlmTyped, Ask, Lookup, Match
<1>2. \A p \in Prompts : entry'[p] = entry[p]
  BY <1>1
<1>3. ASSUME NEW p \in Prompts, Ask(a, p, "only") \/ Ask(a, p, "exact") PROVE LlmInv'
  <2>1. /\ where[a] = "idle" /\ \E s \in {"only", "exact"} : where' = [where EXCEPT ![a] = s]
        /\ want' = [want EXCEPT ![a] = p] /\ look' = [look EXCEPT ![a] = p] /\ got' = got
    BY <1>3 DEF Ask, AskerGoes
  <2>2. LlmTyped'
    BY <1>1, <2>1 DEF LlmInv, LlmTyped, Lookups
  <2>3. got'[a] = NoAnswer
    BY <2>1, LlmFacts
  <2>4. want'[a] = p /\ look'[a] = p
    BY <1>1, <2>1
  <2>5. \A b \in Askers \ {a} : /\ where'[b] = where[b] /\ want'[b] = want[b]
                                /\ look'[b] = look[b] /\ got'[b] = got[b]
    BY <1>1, <2>1 DEF LlmInv, LlmTyped
  <2> QED
    BY <1>1, <1>2, <2>2, <2>3, <2>4, <2>5, EmptyHanded DEF Fits
<1>4. ASSUME NEW s \in Lookups, Lookup(a, s) PROVE LlmInv'
  <2>1. want' = want
    BY <1>4 DEF Lookup
  <2>2. CASE Missed(a, s)
    <3>1. /\ \E t \in {"idle", "match", "generate"} : where' = [where EXCEPT ![a] = t]
          /\ got' = [got EXCEPT ![a] = NoAnswer]
          /\ look' = look \/ look' = [look EXCEPT ![a] = want[a]]
      BY <2>2 DEF Missed, AskerLeaves, AskerGoes
    <3>2. LlmTyped'
      BY <1>1, <2>1, <3>1 DEF LlmInv, LlmTyped
    <3>3. got'[a] = NoAnswer
      BY <1>1, <3>1
    <3>4. look'[a] \in {look[a], want[a]}
      BY <1>1, <3>1
    <3>5. Fits(want'[a], look'[a])
      BY <2>1, <3>4, LlmFacts DEF Fits
    <3>6. \A b \in Askers \ {a} : /\ where'[b] = where[b] /\ want'[b] = want[b]
                                  /\ look'[b] = look[b] /\ got'[b] = got[b]
      BY <1>1, <2>1, <3>1 DEF LlmInv, LlmTyped
    <3> QED
      BY <1>1, <1>2, <3>2, <3>3, <3>5, <3>6, EmptyHanded
  <2>3. CASE /\ entry[look[a]] # NoAnswer
             /\ got' = [got EXCEPT ![a] = entry[look[a]]]
             /\ AskerGoes(a, Touching(s)) /\ UNCHANGED look
    <3>1. Touching(s) \in TouchSteps
      BY DEF Touching, TouchSteps, Lookups
    <3>2. where' = [where EXCEPT ![a] = Touching(s)]
      BY <2>3 DEF AskerGoes
    <3>3. /\ look[a] \in Prompts /\ entry[look[a]] \in Given /\ entry[look[a]].prompt = look[a]
          /\ entry[look[a]] \notin buried /\ entry[look[a]] \in Answers
      BY <2>3, LlmFacts DEF LlmInv, EntriesAreOwn, RemovedStaysGone
    <3>4. LlmTyped'
      BY <1>1, <2>1, <2>3, <3>1, <3>2, <3>3 DEF LlmInv, LlmTyped
    <3>5. got'[a] = entry[look[a]] /\ where'[a] = Touching(s)
      BY <1>1, <2>3, <3>2 DEF LlmInv, LlmTyped
    <3>6. HoldsItsOwn(a)'
      BY <1>1, <2>1, <2>3, <3>1, <3>3, <3>5, LlmFacts DEF HoldsItsOwn, Given, Fits
    <3>7. \A b \in Askers \ {a} : /\ where'[b] = where[b] /\ want'[b] = want[b]
                                  /\ look'[b] = look[b] /\ got'[b] = got[b]
      BY <1>1, <2>1, <2>3, <3>2 DEF LlmInv, LlmTyped
    <3>8. answers' >= answers
      BY <1>1, LlmFacts
    <3> QED
      BY <1>1, <1>2, <3>3, <3>4, <3>5, <3>6, <3>7, <3>8, AskerKeeps
  <2> QED
    BY <1>4, <2>2, <2>3 DEF Lookup
<1>5. CASE Match(a)
  <2>1. /\ where[a] = "match" /\ UNCHANGED <<want, got>>
        /\ \E t \in {"close", "generate"} : where' = [where EXCEPT ![a] = t]
        /\ \/ look' = look
           \/ \E q \in Closest(want[a]) : look' = [look EXCEPT ![a] = q]
    BY <1>5 DEF Match, AskerGoes
  <2>2. \A q \in Closest(want[a]) : q \in Prompts /\ Fits(want[a], q)
    BY DEF LlmInv, LlmTyped, Closest, Fits
  <2>3. look' \in [Askers -> Prompts] /\ Fits(want'[a], look'[a])
    BY <1>1, <2>1, <2>2, LlmFacts DEF Fits
  <2>4. LlmTyped'
    BY <1>1, <2>1, <2>3 DEF LlmInv, LlmTyped, Lookups
  <2>5. got'[a] = NoAnswer
    BY <2>1 DEF LlmInv, HoldsItsOwn, TouchSteps
  <2>6. \A b \in Askers \ {a} : /\ where'[b] = where[b] /\ want'[b] = want[b]
                                /\ look'[b] = look[b] /\ got'[b] = got[b]
    BY <1>1, <2>1 DEF LlmInv, LlmTyped
  <2> QED
    BY <1>1, <1>2, <2>3, <2>4, <2>5, <2>6, EmptyHanded
<1> QED
  BY <1>3, <1>4, <1>5

LEMMA TouchKeeps ==
    ASSUME LlmInv, NEW a \in Askers, NEW s \in Lookups, Touch(a, s) PROVE LlmInv'
<1>1. /\ UNCHANGED <<index, want, left, answers, buried>> /\ where[a] = Touching(s)
      /\ got \in [Askers -> Answers \cup {NoAnswer}] /\ want \in [Askers -> Prompts]
      /\ look \in [Askers -> Prompts] /\ entry \in [Prompts -> Answers \cup {NoAnswer}]
  BY DEF LlmInv, LlmTyped, Touch
<1>2. /\ \E t \in {"idle", "match", "generate"} : where' = [where EXCEPT ![a] = t]
      /\ got' = [got EXCEPT ![a] = NoAnswer]
      /\ look' = look \/ look' = [look EXCEPT ![a] = want[a]]
  BY DEF Touch, Missed, AskerLeaves, AskerGoes
<1>3. /\ entry' \in [Prompts -> Answers \cup {NoAnswer}]
      /\ \A p \in Prompts : \/ entry'[p] \in {NoAnswer, entry[p]}
                            \/ entry'[p] = got[a] /\ got[a].prompt = p
  <2>1. CASE entry' = [entry EXCEPT ![look[a]] = got[a]]
    <3>1. got[a] # NoAnswer => got[a].prompt = look[a]
      <4>1. where[a] \notin {"store", "index"}
        BY <1>1 DEF Touching, Lookups
      <4> QED
        BY <4>1 DEF LlmInv, HoldsItsOwn
    <3>2. got[a] \in Answers \cup {NoAnswer} /\ look[a] \in Prompts
      BY <1>1
    <3>3. \A p \in Prompts : entry'[p] = IF p = look[a] THEN got[a] ELSE entry[p]
      BY <1>1, <2>1
    <3> QED
      BY <1>1, <2>1, <3>1, <3>2, <3>3
  <2>2. CASE entry' = entry
    BY <1>1, <2>2
  <2> QED
    BY <2>1, <2>2 DEF Touch
<1>4. LlmTyped'
  BY <1>1, <1>2, <1>3 DEF LlmInv, LlmTyped
<1>5. got'[a] = NoAnswer
  BY <1>1, <1>2
<1>6. Fits(want'[a], look'[a])
  <2>1. look'[a] \in {look[a], want[a]}
    BY <1>1, <1>2
  <2> QED
    BY <1>1, <2>1, LlmFacts DEF Fits
<1>7. \A b \in Askers \ {a} : /\ where'[b] = where[b] /\ want'[b] = want[b]
                              /\ look'[b] = look[b] /\ got'[b] = got[b]
  BY <1>1, <1>2 DEF LlmInv, LlmTyped
<1> QED
  BY <1>1, <1>3, <1>4, <1>5, <1>6, <1>7, EmptyHanded

LEMMA GenerateKeeps == ASSUME LlmInv, NEW a \in Askers, Generate(a) PROVE LlmInv'
<1>1. /\ UNCHANGED <<entry, index, want, left, buried>> /\ where[a] = "generate"
      /\ got \in [Askers -> Answers \cup {NoAnswer}] /\ want \in [Askers -> Prompts]
      /\ look \in [Askers -> Prompts] /\ want[a] \in Prompts
  BY DEF LlmInv, LlmTyped, Generate
<1>2. CASE AskerLeaves(a) /\ UNCHANGED answers
  <2>1. /\ where' = [where EXCEPT ![a] = "idle"] /\ got' = [got EXCEPT ![a] = NoAnswer]
        /\ look' = [look EXCEPT ![a] = want[a]]
    BY <1>2 DEF AskerLeaves, AskerGoes
  <2>2. LlmTyped'
    BY <1>1, <1>2, <2>1 DEF LlmInv, LlmTyped
  <2>3. got'[a] = NoAnswer /\ look'[a] = want'[a]
    BY <1>1, <2>1
  <2>4. \A b \in Askers \ {a} : /\ where'[b] = where[b] /\ want'[b] = want[b]
                                /\ look'[b] = look[b] /\ got'[b] = got[b]
    BY <1>1, <2>1 DEF LlmInv, LlmTyped
  <2> QED
    BY <1>1, <1>2, <2>2, <2>3, <2>4, EmptyHanded DEF Fits
<1>3. CASE /\ answers < MaxAnswers /\ answers' = answers + 1
           /\ got' = [got EXCEPT ![a] = [prompt |-> want[a], number |-> answers']]
           /\ AskerGoes(a, "store") /\ UNCHANGED look
  <2> DEFINE n == [prompt |-> want[a], number |-> answers + 1]
  <2>1. where' = [where EXCEPT ![a] = "store"] /\ got' = [got EXCEPT ![a] = n]
    BY <1>3 DEF AskerGoes
  <2>2. answers' \in 0 .. MaxAnswers /\ answers + 1 \in 1 .. MaxAnswers /\ answers' >= answers
    BY <1>3, LlmFacts, LlmAssumption
  <2>3. n \in Answers /\ n.prompt = want[a] /\ n.number = answers + 1
    BY <1>1, <2>2 DEF Answers
  <2>4. n \notin Given /\ n \in Given'
    BY <1>3, <2>3, LlmFacts DEF Given, Answers
  <2> HIDE DEF n
  <2>5. LlmTyped'
    BY <1>1, <1>3, <2>1, <2>2, <2>3 DEF LlmInv, LlmTyped
  <2>6. got'[a] = n /\ where'[a] = "store"
    BY <1>1, <2>1 DEF LlmInv, LlmTyped
  <2>7. HoldsItsOwn(a)'
    BY <1>1, <1>3, <2>3, <2>4, <2>6, LlmFacts DEF HoldsItsOwn
  <2>8. got'[a] \notin buried
    BY <2>4, <2>6 DEF LlmInv
  <2>9. \A b \in Askers \ {a} : /\ where'[b] = where[b] /\ want'[b] = want[b]
                                /\ look'[b] = look[b] /\ got'[b] = got[b]
    BY <1>1, <1>3, <2>1 DEF LlmInv, LlmTyped
  <2>10. \A p \in Prompts : entry'[p] = entry[p]
    BY <1>1
  <2> QED
    BY <1>1, <2>2, <2>5, <2>7, <2>8, <2>9, <2>10, AskerKeeps
<1> QED
  BY <1>2, <1>3 DEF Generate

LEMMA StoreKeeps == ASSUME LlmInv, NEW a \in Askers, Store(a) PROVE LlmInv'
<1>1. /\ UNCHANGED <<index, want, left, answers, buried>> /\ where[a] = "store"
      /\ got \in [Askers -> Answers \cup {NoAnswer}] /\ want \in [Askers -> Prompts]
      /\ look \in [Askers -> Prompts] /\ entry \in [Prompts -> Answers \cup {NoAnswer}]
      /\ want[a] \in Prompts /\ got[a] \in Answers \cup {NoAnswer}
  BY DEF LlmInv, LlmTyped, Store
<1>2. /\ got[a] # NoAnswer => got[a].prompt = want[a] /\ got[a] \in Given
      /\ got[a] \notin buried
  BY <1>1 DEF LlmInv, HoldsItsOwn, TouchSteps, RemovedStaysGone
<1>3. /\ entry' \in [Prompts -> Answers \cup {NoAnswer}]
      /\ \A p \in Prompts : \/ entry'[p] \in {NoAnswer, entry[p]}
                            \/ entry'[p] = got[a] /\ got[a].prompt = p
  <2>1. CASE entry' = [entry EXCEPT ![want[a]] = got[a]]
    <3>1. \A p \in Prompts : entry'[p] = IF p = want[a] THEN got[a] ELSE entry[p]
      BY <1>1, <2>1
    <3> QED
      BY <1>1, <1>2, <2>1, <3>1
  <2>2. CASE entry' = entry
    BY <1>1, <2>2
  <2> QED
    BY <2>1, <2>2 DEF Store
<1>4. answers' >= answers
  BY <1>1, LlmFacts
<1>5. CASE AskerLeaves(a)
  <2>1. /\ where' = [where EXCEPT ![a] = "idle"] /\ got' = [got EXCEPT ![a] = NoAnswer]
        /\ look' = [look EXCEPT ![a] = want[a]]
    BY <1>5 DEF AskerLeaves, AskerGoes
  <2>2. LlmTyped'
    BY <1>1, <1>3, <2>1 DEF LlmInv, LlmTyped
  <2>3. got'[a] = NoAnswer /\ look'[a] = want'[a]
    BY <1>1, <2>1
  <2>4. \A b \in Askers \ {a} : /\ where'[b] = where[b] /\ want'[b] = want[b]
                                /\ look'[b] = look[b] /\ got'[b] = got[b]
    BY <1>1, <2>1 DEF LlmInv, LlmTyped
  <2> QED
    BY <1>1, <1>3, <2>2, <2>3, <2>4, EmptyHanded DEF Fits
<1>6. CASE AskerGoes(a, "index") /\ UNCHANGED <<got, look>>
  <2>1. where' = [where EXCEPT ![a] = "index"]
    BY <1>6 DEF AskerGoes
  <2>2. LlmTyped'
    BY <1>1, <1>3, <1>6, <2>1 DEF LlmInv, LlmTyped
  <2>3. where'[a] = "index"
    BY <2>1 DEF LlmInv, LlmTyped
  <2>4. Given' = Given
    BY <1>1 DEF Given
  <2>5. HoldsItsOwn(a)'
    BY <1>1, <1>2, <1>6, <2>3, <2>4, LlmFacts DEF HoldsItsOwn
  <2>6. \A b \in Askers \ {a} : /\ where'[b] = where[b] /\ want'[b] = want[b]
                                /\ look'[b] = look[b] /\ got'[b] = got[b]
    BY <1>1, <1>6, <2>1 DEF LlmInv, LlmTyped
  <2> QED
    BY <1>1, <1>2, <1>3, <1>4, <1>6, <2>2, <2>5, <2>6, AskerKeeps
<1> QED
  BY <1>5, <1>6 DEF Store

\* The index, and the keys that are still to be deleted, are nobody's answers.
LEMMA IndexKeeps ==
    ASSUME LlmInv, NEW a \in Askers,
           AddToIndex(a) \/ PopIndex(a) \/ ClearAnswers(a) \/ ClearEnds(a)
    PROVE  LlmInv'
<1>1. /\ UNCHANGED <<entry, want, answers, buried>>
      /\ got \in [Askers -> Answers \cup {NoAnswer}] /\ want \in [Askers -> Prompts]
      /\ look \in [Askers -> Prompts] /\ want[a] \in Prompts
      /\ index' \subseteq Prompts /\ left' \in [Askers -> SUBSET Prompts]
  BY DEF LlmInv, LlmTyped, AddToIndex, PopIndex, ClearAnswers, ClearEnds
<1>2. /\ \E t \in {"idle", "clear"} : where' = [where EXCEPT ![a] = t]
      /\ got' = [got EXCEPT ![a] = NoAnswer] \/ (got' = got /\ where[a] \in {"idle", "pop", "clear"})
      /\ look' = look \/ look' = [look EXCEPT ![a] = want[a]]
  BY DEF AddToIndex, PopIndex, ClearAnswers, ClearEnds, AskerLeaves, AskerGoes
<1>3. LlmTyped'
  BY <1>1, <1>2 DEF LlmInv, LlmTyped
<1>4. got'[a] = NoAnswer
  BY <1>1, <1>2 DEF LlmInv, HoldsItsOwn, TouchSteps
<1>5. Fits(want'[a], look'[a])
  <2>1. look'[a] \in {look[a], want[a]}
    BY <1>1, <1>2
  <2> QED
    BY <1>1, <2>1, LlmFacts DEF Fits
<1>6. \A b \in Askers \ {a} : /\ where'[b] = where[b] /\ want'[b] = want[b]
                              /\ look'[b] = look[b] /\ got'[b] = got[b]
  BY <1>1, <1>2 DEF LlmInv, LlmTyped
<1>7. \A p \in Prompts : entry'[p] = entry[p]
  BY <1>1
<1> QED
  BY <1>1, <1>3, <1>4, <1>5, <1>6, <1>7, EmptyHanded

\* What is removed while nobody else is at work is in no hands, and nowhere else.
LEMMA RemovalKeeps ==
    ASSUME LlmInv, NEW a \in Askers,
           \/ \E p \in Prompts : Invalidate(a, p)
           \/ \E batch \in SUBSET Prompts : ClearBatch(a, batch)
    PROVE  LlmInv'
<1>1. PICK gone \in SUBSET Prompts : TakeOut(a, gone)
  BY DEF Invalidate, ClearBatch
<1>2. /\ UNCHANGED <<index, got, answers>>
      /\ where[a] \in {"idle", "clear"} /\ where'[a] \in {"pop", "clear"}
      /\ \A b \in Askers \ {a} : /\ where'[b] = where[b] /\ want'[b] = want[b]
                                 /\ look'[b] = look[b]
      /\ (want' = want /\ look' = look) \/ look'[a] = want'[a]
  <2>1. /\ where \in [Askers -> {"idle", "match", "generate", "store", "index", "pop", "clear"}
                                \cup Lookups \cup TouchSteps]
        /\ want \in [Askers -> Prompts] /\ look \in [Askers -> Prompts]
    BY DEF LlmInv, LlmTyped
  <2> QED
    BY <2>1 DEF Invalidate, ClearBatch, AskerGoes
<1>3. LlmTyped' /\ NoAnswer \notin buried'
  <2>1. entry' \in [Prompts -> Answers \cup {NoAnswer}]
    BY <1>1, LlmFacts DEF TakeOut
  <2>2. buried' \subseteq Answers
    BY <1>1, LlmFacts DEF TakeOut, LlmInv, LlmTyped
  <2>3. UNCHANGED <<index, got, answers>> /\ left' \in [Askers -> SUBSET Prompts]
    <3>1. left \in [Askers -> SUBSET Prompts]
      BY DEF LlmInv, LlmTyped
    <3> QED
      BY <3>1 DEF Invalidate, ClearBatch
  <2>4. want' \in [Askers -> Prompts] /\ look' \in [Askers -> Prompts]
    <3>1. want \in [Askers -> Prompts] /\ look \in [Askers -> Prompts]
      BY DEF LlmInv, LlmTyped
    <3> QED
      BY <3>1 DEF Invalidate, ClearBatch
  <2>5. \E t \in {"pop", "clear"} : where' = [where EXCEPT ![a] = t] \/ where' = where
    BY DEF Invalidate, ClearBatch, AskerGoes
  <2> QED
    BY <2>1, <2>2, <2>3, <2>4, <2>5, LlmAssumption DEF LlmInv, LlmTyped
<1>4. Given' = Given
  BY <1>2 DEF Given
<1>5. \A p \in Prompts : entry'[p] = IF p \in gone THEN NoAnswer ELSE entry[p]
  BY <1>1 DEF TakeOut
<1>6. EntriesAreOwn'
  BY <1>4, <1>5 DEF LlmInv, EntriesAreOwn
<1>7. \A b \in Askers : HoldsItsOwn(b)'
  <2>1. got[a] = NoAnswer
    BY <1>2 DEF LlmInv, HoldsItsOwn, TouchSteps
  <2>2. HoldsItsOwn(a)'
    BY <1>2, <2>1, LlmFacts DEF HoldsItsOwn, Fits
  <2>3. \A b \in Askers \ {a} : HoldsItsOwn(b)'
    BY <1>2, <1>4 DEF LlmInv, HoldsItsOwn
  <2> QED
    BY <2>2, <2>3
<1>8. buried' \subseteq Given'
  BY <1>1, <1>4, LlmFacts DEF LlmInv, TakeOut, EntriesAreOwn
<1>9. RemovedStaysGone'
  <2>1. CASE ~Alone(a)
    <3>1. buried' = buried
      BY <1>1, <2>1 DEF TakeOut
    <3> QED
      BY <1>2, <1>3, <1>5, <3>1 DEF LlmInv, RemovedStaysGone
  <2>2. CASE Alone(a)
    <3>1. \A b \in Askers : got'[b] = NoAnswer
      BY <1>2, <2>2, LlmFacts DEF Alone, LlmInv, HoldsItsOwn, TouchSteps
    <3>2. buried' = buried \cup ({entry[p] : p \in gone} \ {NoAnswer})
      BY <1>1, <2>2 DEF TakeOut
    <3>3. ASSUME NEW q \in Prompts \ gone, entry[q] # NoAnswer PROVE entry[q] \notin buried'
      <4>1. entry[q].prompt = q /\ entry[q] \notin buried
        BY <3>3 DEF LlmInv, EntriesAreOwn, RemovedStaysGone
      <4>2. \A p \in gone : entry[p] # NoAnswer => entry[p].prompt = p
        BY DEF LlmInv, EntriesAreOwn
      <4> QED
        BY <3>2, <4>1, <4>2
    <3> QED
      BY <1>3, <1>5, <3>1, <3>3 DEF RemovedStaysGone
  <2> QED
    BY <2>1, <2>2
<1> QED
  BY <1>3, <1>6, <1>7, <1>8, <1>9 DEF LlmInv

LEMMA ExpiryKeeps ==
    ASSUME LlmInv, NEW p \in Prompts,
           AnswerExpires(p) \/ \E a \in Askers : InvalidateFails(a, p)
    PROVE  LlmInv'
<1>1. /\ entry' = [entry EXCEPT ![p] = NoAnswer]
      /\ UNCHANGED <<index, where, want, look, got, left, answers, buried>>
  BY DEF AnswerExpires, InvalidateFails
<1>2. /\ entry \in [Prompts -> Answers \cup {NoAnswer}]
      /\ \A q \in Prompts : entry'[q] \in {NoAnswer, entry[q]}
  BY <1>1 DEF LlmInv, LlmTyped
<1>3. LlmTyped'
  BY <1>1, <1>2 DEF LlmInv, LlmTyped
<1>4. EntriesAreOwn' /\ buried' \subseteq Given' /\ \A b \in Askers : HoldsItsOwn(b)'
  BY <1>1, <1>2 DEF LlmInv, EntriesAreOwn, Given, HoldsItsOwn
<1>5. RemovedStaysGone'
  BY <1>1, <1>2, LlmAssumption DEF LlmInv, LlmTyped, RemovedStaysGone
<1> QED
  BY <1>3, <1>4, <1>5 DEF LlmInv

LEMMA LlmInvHolds == LlmSpec => []LlmInv
<1>1. LlmInit => LlmInv
  <2> SUFFICES ASSUME LlmInit PROVE LlmInv
    OBVIOUS
  <2>1. (CHOOSE p \in Prompts : TRUE) \in Prompts
    BY LlmAssumption
  <2>2. LlmTyped
    BY <2>1, LlmAssumption DEF LlmInit, LlmTyped
  <2>3. \A a \in Askers : HoldsItsOwn(a)
    BY DEF LlmInit, HoldsItsOwn, Fits
  <2> QED
    BY <2>2, <2>3 DEF LlmInit, LlmInv, EntriesAreOwn, RemovedStaysGone
<1>2. LlmInv /\ [LlmNext]_llmVars => LlmInv'
  <2> SUFFICES ASSUME LlmInv, [LlmNext]_llmVars PROVE LlmInv'
    OBVIOUS
  <2>1. CASE UNCHANGED llmVars
    BY <2>1 DEF llmVars, LlmInv, LlmTyped, EntriesAreOwn, HoldsItsOwn, RemovedStaysGone, Given
  <2>2. ASSUME NEW p \in Prompts, AnswerExpires(p) PROVE LlmInv'
    BY <2>2, ExpiryKeeps
  <2>3. ASSUME NEW a \in Askers,
               \/ \E p \in Prompts : Ask(a, p, "only") \/ Ask(a, p, "exact")
               \/ \E s \in Lookups : Lookup(a, s)
               \/ Match(a)
        PROVE  LlmInv'
    BY <2>3, LookupsKeep
  <2>4. ASSUME NEW a \in Askers, NEW s \in Lookups, Touch(a, s) PROVE LlmInv'
    BY <2>4, TouchKeeps
  <2>5. ASSUME NEW a \in Askers, Generate(a) \/ Store(a) PROVE LlmInv'
    BY <2>5, GenerateKeeps, StoreKeeps
  <2>6. ASSUME NEW a \in Askers, AddToIndex(a) \/ PopIndex(a) \/ ClearAnswers(a) \/ ClearEnds(a)
        PROVE  LlmInv'
    BY <2>6, IndexKeeps
  <2>7. ASSUME NEW a \in Askers,
               \/ \E p \in Prompts : Invalidate(a, p)
               \/ \E batch \in SUBSET Prompts : ClearBatch(a, batch)
        PROVE  LlmInv'
    BY <2>7, RemovalKeeps
  <2>8. ASSUME NEW a \in Askers, NEW p \in Prompts, InvalidateFails(a, p) PROVE LlmInv'
    BY <2>8, ExpiryKeeps
  <2> QED
    BY <2>1, <2>2, <2>3, <2>4, <2>5, <2>6, <2>7, <2>8 DEF LlmNext
<1> QED
  BY <1>1, <1>2, PTL DEF LlmSpec

\* For any askers, prompts and similarity, what was invalidated or cleared while
\* nobody else was at work is not served again, and what is served was generated
\* for the prompt or for one like it.
THEOREM ServedIsRight == LlmSpec => []AnswersAreRight
<1>1. LlmInv => AnswersFit
  <2> SUFFICES ASSUME LlmInv, NEW a \in Askers, got[a] # NoAnswer
               PROVE  Fits(want[a], got[a].prompt)
    BY DEF AnswersFit
  <2> QED
    BY DEF LlmInv, HoldsItsOwn, Fits
<1>2. LlmInv => RemovedStaysGone
  BY DEF LlmInv
<1> QED
  BY <1>1, <1>2, LlmInvHolds, PTL DEF AnswersAreRight

----------------------------------------------------------------------------
(* The two tiers of embeddings                                             *)

VectorSteps == {"idle", "select", "promote", "set redis", "set sqlite", "delete sqlite"}

VectorTyped ==
    /\ redis \in Nat /\ sqlite \in Nat /\ made \in Nat /\ oldest \in Nat
    /\ at \in [Callers -> VectorSteps]
    /\ vector \in [Callers -> Nat]
    /\ quiet \in [Callers -> BOOLEAN]

\* What a caller is about to write is new enough; one that has had the tiers to
\* itself has left in Redis what it will write to SQLite, or nothing.
InFlight(c) ==
    /\ at[c] \in {"promote", "set redis", "set sqlite"} => vector[c] >= oldest
    /\ at[c] \in {"set redis", "set sqlite"} => vector[c] <= made
    /\ quiet[c] => /\ at[c] # "idle" /\ \A d \in Callers \ {c} : at[d] = "idle"
                   /\ at[c] = "set sqlite" => redis \in {0, vector[c]}
                   /\ at[c] = "delete sqlite" => redis = 0

VectorInv ==
    /\ VectorTyped /\ oldest <= made + 1
    /\ (\A c \in Callers : InFlight(c))
    /\ NoOlderVector

\* A step of one caller; nobody else has the tiers to itself then.
LEMMA CallerKeeps ==
    ASSUME VectorInv, NEW c \in Callers, VectorTyped', oldest' <= made' + 1, made' >= made,
           \A d \in Callers \ {c} :
               /\ at'[d] = at[d] /\ vector'[d] = vector[d] /\ ~quiet'[d]
               /\ oldest' = oldest \/ at[d] = "idle",
           InFlight(c)', NoOlderVector'
    PROVE  VectorInv'
<1>1. ASSUME NEW d \in Callers \ {c} PROVE InFlight(d)'
  <2>1. InFlight(d) /\ vector[d] \in Nat /\ made \in Nat /\ made' \in Nat
    BY DEF VectorInv, VectorTyped
  <2>2. at'[d] = at[d] /\ vector'[d] = vector[d] /\ ~quiet'[d] /\ (oldest' = oldest \/ at[d] = "idle")
    OBVIOUS
  <2>3. at'[d] \in {"promote", "set redis", "set sqlite"} => vector'[d] >= oldest'
    BY <2>1, <2>2 DEF InFlight
  <2>4. at'[d] \in {"set redis", "set sqlite"} => vector[d] <= made
    BY <2>1, <2>2 DEF InFlight
  <2>5. vector[d] <= made => vector'[d] <= made'
    BY <2>1, <2>2
  <2> QED
    BY <2>2, <2>3, <2>4, <2>5 DEF InFlight
<1> QED
  BY <1>1 DEF VectorInv

LEMMA OthersAreLoud ==
    ASSUME VectorInv, NEW c \in Callers, at[c] # "idle", NEW d \in Callers \ {c}
    PROVE  ~quiet[d]
  BY DEF VectorInv, InFlight

LEMMA BeginFacts ==
    ASSUME VectorInv, NEW c \in Callers, NEW s \in VectorSteps \ {"idle"}, Begin(c, s)
    PROVE  /\ at' \in [Callers -> VectorSteps] /\ quiet' \in [Callers -> BOOLEAN]
           /\ at'[c] = s
           /\ \A d \in Callers \ {c} : at'[d] = at[d] /\ ~quiet'[d]
           /\ quiet'[c] => \A d \in Callers \ {c} : at'[d] = "idle"
  BY DEF Begin, VectorInv, VectorTyped

LEMMA LeaveFacts ==
    ASSUME VectorInv, NEW c \in Callers, at[c] # "idle", CallerLeaves(c)
    PROVE  /\ at' \in [Callers -> VectorSteps] /\ quiet' \in [Callers -> BOOLEAN]
           /\ vector' \in [Callers -> Nat]
           /\ at'[c] = "idle" /\ ~quiet'[c]
           /\ \A d \in Callers \ {c} : at'[d] = at[d] /\ vector'[d] = vector[d] /\ ~quiet'[d]
<1>1. /\ at \in [Callers -> VectorSteps] /\ quiet \in [Callers -> BOOLEAN]
      /\ vector \in [Callers -> Nat]
  BY DEF VectorInv, VectorTyped
<1>2. /\ at' = [at EXCEPT ![c] = "idle"] /\ vector' = [vector EXCEPT ![c] = 0]
      /\ quiet' = [quiet EXCEPT ![c] = FALSE]
  BY DEF CallerLeaves, CallerGoes
<1>3. \A d \in Callers \ {c} : ~quiet[d]
  BY OthersAreLoud
<1> QED
  BY <1>1, <1>2, <1>3 DEF VectorSteps

LEMMA GetsKeep ==
    ASSUME VectorInv, NEW c \in Callers,
           GetVector(c) \/ GetFromRedis(c) \/ Select(c) \/ Promote(c)
    PROVE  VectorInv'
<1>1. /\ redis \in Nat /\ sqlite \in Nat /\ made \in Nat /\ oldest \in Nat
      /\ at \in [Callers -> VectorSteps] /\ vector \in [Callers -> Nat]
      /\ quiet \in [Callers -> BOOLEAN] /\ oldest <= made + 1
  BY DEF VectorInv, VectorTyped
<1>2. UNCHANGED <<sqlite, made, oldest>>
  BY DEF GetVector, GetFromRedis, Select, Promote
<1>3. CASE GetVector(c)
  <2>1. Begin(c, "select") /\ UNCHANGED <<redis, vector>>
    BY <1>3 DEF GetVector
  <2>2. /\ at' \in [Callers -> VectorSteps] /\ quiet' \in [Callers -> BOOLEAN] /\ at'[c] = "select"
        /\ \A d \in Callers \ {c} : at'[d] = at[d] /\ ~quiet'[d]
        /\ quiet'[c] => \A d \in Callers \ {c} : at'[d] = "idle"
    BY <2>1, BeginFacts DEF VectorSteps
  <2>3. VectorTyped'
    BY <1>1, <1>2, <2>1, <2>2 DEF VectorTyped
  <2>4. InFlight(c)'
    BY <2>2 DEF InFlight
  <2>5. NoOlderVector'
    BY <1>2, <2>1 DEF VectorInv, NoOlderVector
  <2> QED
    BY <1>1, <1>2, <2>1, <2>2, <2>3, <2>4, <2>5, CallerKeeps
<1>4. CASE GetFromRedis(c)
  <2>1. /\ quiet' = [b \in Callers |-> FALSE] /\ UNCHANGED <<redis, at, vector>>
    BY <1>4 DEF GetFromRedis
  <2>2. VectorTyped'
    BY <1>1, <1>2, <2>1 DEF VectorTyped
  <2>3. \A d \in Callers : ~quiet'[d]
    BY <2>1
  <2>4. InFlight(c)'
    BY <1>2, <2>1, <2>3 DEF VectorInv, InFlight
  <2>5. NoOlderVector'
    BY <1>2, <2>1 DEF VectorInv, NoOlderVector
  <2> QED
    BY <1>1, <1>2, <2>1, <2>2, <2>3, <2>4, <2>5, CallerKeeps
<1>5. CASE Select(c)
  <2>1. at[c] = "select" /\ redis' = redis
    BY <1>5 DEF Select
  <2>2. CASE /\ sqlite # 0 /\ CallerGoes(c, "promote")
             /\ vector' = [vector EXCEPT ![c] = sqlite] /\ UNCHANGED quiet
    <3>1. at' = [at EXCEPT ![c] = "promote"]
      BY <2>2 DEF CallerGoes
    <3>2. VectorTyped'
      BY <1>1, <1>2, <2>1, <2>2, <3>1 DEF VectorTyped, VectorSteps
    <3>3. at'[c] = "promote" /\ vector'[c] = sqlite /\ quiet'[c] = quiet[c]
      BY <1>1, <2>2, <3>1
    <3>4. \A d \in Callers \ {c} : at'[d] = at[d] /\ vector'[d] = vector[d] /\ ~quiet'[d]
      BY <1>1, <2>1, <2>2, <3>1, OthersAreLoud
    <3>5. sqlite >= oldest
      BY <2>2 DEF VectorInv, NoOlderVector
    <3>6. quiet[c] => \A d \in Callers \ {c} : at[d] = "idle"
      BY DEF VectorInv, InFlight
    <3>7. InFlight(c)'
      BY <1>2, <3>3, <3>4, <3>5, <3>6 DEF InFlight
    <3>8. NoOlderVector'
      BY <1>2, <2>1 DEF VectorInv, NoOlderVector
    <3> QED
      BY <1>1, <1>2, <3>2, <3>4, <3>7, <3>8, CallerKeeps
  <2>3. CASE CallerLeaves(c)
    <3>1. /\ at' \in [Callers -> VectorSteps] /\ quiet' \in [Callers -> BOOLEAN]
          /\ vector' \in [Callers -> Nat]
          /\ at'[c] = "idle" /\ ~quiet'[c]
          /\ \A d \in Callers \ {c} : at'[d] = at[d] /\ vector'[d] = vector[d] /\ ~quiet'[d]
      BY <2>1, <2>3, LeaveFacts
    <3>2. VectorTyped' /\ InFlight(c)'
      BY <1>1, <1>2, <2>1, <3>1 DEF VectorTyped, InFlight
    <3>3. NoOlderVector'
      BY <1>2, <2>1 DEF VectorInv, NoOlderVector
    <3> QED
      BY <1>1, <1>2, <3>1, <3>2, <3>3, CallerKeeps
  <2> QED
    BY <1>5, <2>2, <2>3 DEF Select
<1>6. CASE Promote(c)
  <2>1. at[c] = "promote" /\ redis' \in {redis, vector[c]} /\ CallerLeaves(c)
    BY <1>6 DEF Promote
  <2>2. /\ at' \in [Callers -> VectorSteps] /\ quiet' \in [Callers -> BOOLEAN]
        /\ vector' \in [Callers -> Nat]
        /\ at'[c] = "idle" /\ ~quiet'[c]
        /\ \A d \in Callers \ {c} : at'[d] = at[d] /\ vector'[d] = vector[d] /\ ~quiet'[d]
    BY <2>1, LeaveFacts
  <2>3. VectorTyped' /\ InFlight(c)'
    BY <1>1, <1>2, <2>1, <2>2 DEF VectorTyped, InFlight
  <2>4. vector[c] >= oldest
    BY <2>1 DEF VectorInv, InFlight
  <2>5. NoOlderVector'
    BY <1>2, <2>1, <2>4 DEF VectorInv, NoOlderVector
  <2> QED
    BY <1>1, <1>2, <2>2, <2>3, <2>5, CallerKeeps
<1> QED
  BY <1>3, <1>4, <1>5, <1>6

\* Where nothing is made and nothing ruled out.
LEMMA NothingNew ==
    ASSUME VectorInv, made' = made, oldest' = oldest
    PROVE  oldest' <= made' + 1 /\ made' >= made
<1>1. made \in Nat /\ oldest <= made + 1
  BY DEF VectorInv, VectorTyped
<1>2. made >= made
  BY <1>1
<1> QED
  BY <1>1, <1>2

LEMMA SetsKeep ==
    ASSUME VectorInv, NEW c \in Callers, SetVector(c) \/ SetRedis(c) \/ SetSqlite(c)
    PROVE  VectorInv'
<1>1. /\ redis \in Nat /\ sqlite \in Nat /\ made \in Nat /\ oldest \in Nat
      /\ at \in [Callers -> VectorSteps] /\ vector \in [Callers -> Nat]
      /\ quiet \in [Callers -> BOOLEAN] /\ oldest <= made + 1
  BY DEF VectorInv, VectorTyped
<1>2. CASE SetVector(c)
  <2>1. /\ made' = made + 1 /\ Begin(c, "set redis") /\ UNCHANGED <<redis, sqlite, oldest>>
        /\ vector' = [vector EXCEPT ![c] = made + 1]
    BY <1>2 DEF SetVector
  <2>2. /\ at' \in [Callers -> VectorSteps] /\ quiet' \in [Callers -> BOOLEAN]
        /\ at'[c] = "set redis"
        /\ \A d \in Callers \ {c} : at'[d] = at[d] /\ ~quiet'[d]
        /\ quiet'[c] => \A d \in Callers \ {c} : at'[d] = "idle"
    BY <2>1, BeginFacts DEF VectorSteps
  <2>a. made + 1 \in Nat /\ made + 1 >= oldest /\ made + 1 <= made + 1 /\ made + 1 >= made
        /\ oldest <= (made + 1) + 1
    BY <1>1
  <2>3. made' \in Nat /\ vector' \in [Callers -> Nat] /\ vector'[c] = made + 1
    BY <1>1, <2>1, <2>a
  <2>4. VectorTyped'
    BY <1>1, <2>1, <2>2, <2>3 DEF VectorTyped
  <2>b. vector'[c] >= oldest' /\ vector'[c] <= made'
    BY <2>1, <2>3, <2>a
  <2>5. InFlight(c)'
    BY <2>2, <2>b DEF InFlight
  <2>6. NoOlderVector'
    BY <2>1 DEF VectorInv, NoOlderVector
  <2>7. \A d \in Callers \ {c} : vector'[d] = vector[d]
    BY <1>1, <2>1
  <2>8. oldest' <= made' + 1 /\ made' >= made
    BY <2>1, <2>a
  <2>9. \A d \in Callers \ {c} :
           /\ at'[d] = at[d] /\ vector'[d] = vector[d] /\ ~quiet'[d]
           /\ oldest' = oldest \/ at[d] = "idle"
    BY <2>1, <2>2, <2>7
  <2> QED
    BY <2>4, <2>5, <2>6, <2>8, <2>9, CallerKeeps
<1>3. CASE SetRedis(c)
  <2>1. /\ at[c] = "set redis" /\ at' = [at EXCEPT ![c] = "set sqlite"]
        /\ UNCHANGED <<sqlite, vector, made, oldest>>
        /\ \/ redis' = vector[c] /\ quiet' = quiet
           \/ redis' \in {redis, vector[c]} /\ quiet' = [quiet EXCEPT ![c] = FALSE]
    BY <1>3 DEF SetRedis, CallerGoes
  <2>a. vector[c] \in Nat /\ "set sqlite" \in VectorSteps
    BY <1>1 DEF VectorSteps
  <2>b. redis' \in Nat /\ quiet' \in [Callers -> BOOLEAN] /\ at' \in [Callers -> VectorSteps]
    BY <1>1, <2>1, <2>a
  <2>2. VectorTyped'
    BY <1>1, <2>1, <2>b DEF VectorTyped
  <2>3. \A d \in Callers \ {c} : at'[d] = at[d] /\ ~quiet'[d]
    BY <1>1, <2>1, OthersAreLoud
  <2>4. vector[c] >= oldest /\ vector[c] <= made /\ at'[c] = "set sqlite"
    BY <1>1, <2>1 DEF VectorInv, InFlight
  <2>5. quiet'[c] => redis' = vector[c] /\ \A d \in Callers \ {c} : at[d] = "idle"
    BY <1>1, <2>1 DEF VectorInv, InFlight
  <2>6. InFlight(c)'
    BY <2>1, <2>3, <2>4, <2>5 DEF InFlight
  <2>7. NoOlderVector'
    BY <2>1, <2>4 DEF VectorInv, NoOlderVector
  <2>8. oldest' <= made' + 1 /\ made' >= made
    BY <2>1, NothingNew
  <2>9. \A d \in Callers \ {c} :
           /\ at'[d] = at[d] /\ vector'[d] = vector[d] /\ ~quiet'[d]
           /\ oldest' = oldest \/ at[d] = "idle"
    BY <2>1, <2>3
  <2> QED
    BY <2>2, <2>6, <2>7, <2>8, <2>9, CallerKeeps
<1>4. CASE SetSqlite(c)
  <2>1. /\ at[c] = "set sqlite" /\ CallerLeaves(c) /\ UNCHANGED <<redis, made>>
        /\ \/ sqlite' = vector[c] /\ oldest' = IF quiet[c] THEN vector[c] ELSE oldest
           \/ UNCHANGED <<sqlite, oldest>>
    BY <1>4 DEF SetSqlite
  <2>2. /\ at' \in [Callers -> VectorSteps] /\ quiet' \in [Callers -> BOOLEAN]
        /\ vector' \in [Callers -> Nat]
        /\ at'[c] = "idle" /\ ~quiet'[c]
        /\ \A d \in Callers \ {c} : at'[d] = at[d] /\ vector'[d] = vector[d] /\ ~quiet'[d]
    BY <2>1, LeaveFacts
  <2>3. VectorTyped' /\ InFlight(c)'
    BY <1>1, <2>1, <2>2 DEF VectorTyped, InFlight
  <2>4. /\ vector[c] >= oldest /\ vector[c] <= made /\ vector[c] \in Nat
        /\ quiet[c] => /\ redis \in {0, vector[c]}
                       /\ \A d \in Callers \ {c} : at[d] = "idle"
    BY <1>1, <2>1 DEF VectorInv, InFlight
  <2>5. CASE quiet[c] /\ sqlite' = vector[c] /\ oldest' = vector[c]
    <3>1. oldest' = vector[c] /\ sqlite' = vector[c] /\ redis' \in {0, vector[c]}
      BY <2>1, <2>4, <2>5
    <3>2. vector[c] <= made + 1 /\ vector[c] >= vector[c] /\ made >= made
      BY <1>1, <2>4
    <3>3. NoOlderVector'
      BY <3>1, <3>2 DEF NoOlderVector
    <3>4. oldest' <= made' + 1 /\ made' >= made
      BY <2>1, <3>1, <3>2
    <3> QED
      BY <2>2, <2>3, <2>4, <2>5, <3>3, <3>4, CallerKeeps
  <2>6. CASE sqlite' \in {sqlite, vector[c]} /\ oldest' = oldest
    <3>1. NoOlderVector'
      BY <2>1, <2>4, <2>6 DEF VectorInv, NoOlderVector
    <3>2. oldest' <= made' + 1 /\ made' >= made
      BY <2>1, <2>6, NothingNew
    <3> QED
      BY <2>2, <2>3, <2>6, <3>1, <3>2, CallerKeeps
  <2> QED
    BY <2>1, <2>5, <2>6
<1> QED
  BY <1>2, <1>3, <1>4

LEMMA DeletesKeep ==
    ASSUME VectorInv, NEW c \in Callers,
           DeleteVector(c) \/ DeleteWithoutRedis(c) \/ DeleteSqlite(c)
    PROVE  VectorInv'
<1>1. /\ redis \in Nat /\ sqlite \in Nat /\ made \in Nat /\ oldest \in Nat
      /\ at \in [Callers -> VectorSteps] /\ vector \in [Callers -> Nat]
      /\ quiet \in [Callers -> BOOLEAN] /\ oldest <= made + 1
  BY DEF VectorInv, VectorTyped
<1>2. CASE DeleteVector(c)
  <2>1. /\ Begin(c, "delete sqlite") /\ redis' = 0 /\ UNCHANGED <<sqlite, vector, made, oldest>>
    BY <1>2 DEF DeleteVector
  <2>2. /\ at' \in [Callers -> VectorSteps] /\ quiet' \in [Callers -> BOOLEAN]
        /\ at'[c] = "delete sqlite"
        /\ \A d \in Callers \ {c} : at'[d] = at[d] /\ ~quiet'[d]
        /\ quiet'[c] => \A d \in Callers \ {c} : at'[d] = "idle"
    BY <2>1, BeginFacts DEF VectorSteps
  <2>3. VectorTyped' /\ InFlight(c)'
    BY <1>1, <2>1, <2>2 DEF VectorTyped, InFlight
  <2>4. NoOlderVector'
    BY <2>1 DEF VectorInv, NoOlderVector
  <2>5. oldest' <= made' + 1 /\ made' >= made
    BY <2>1, NothingNew
  <2>6. \A d \in Callers \ {c} :
           /\ at'[d] = at[d] /\ vector'[d] = vector[d] /\ ~quiet'[d]
           /\ oldest' = oldest \/ at[d] = "idle"
    BY <2>1, <2>2
  <2> QED
    BY <2>3, <2>4, <2>5, <2>6, CallerKeeps
<1>3. CASE DeleteWithoutRedis(c)
  <2>1. /\ at' = [at EXCEPT ![c] = "delete sqlite"] /\ redis' \in {redis, 0}
        /\ quiet' = [b \in Callers |-> FALSE] /\ UNCHANGED <<sqlite, vector, made, oldest>>
    BY <1>3 DEF DeleteWithoutRedis, CallerGoes
  <2>2. \A d \in Callers : ~quiet'[d]
    BY <2>1
  <2>y. redis \in Nat /\ 0 \in Nat
    BY <1>1
  <2>z. redis' \in Nat
    BY <2>1, <2>y
  <2>a. redis' \in Nat /\ "delete sqlite" \in VectorSteps /\ at'[c] = "delete sqlite"
    BY <1>1, <2>1, <2>z DEF VectorSteps
  <2>b. at' \in [Callers -> VectorSteps] /\ quiet' \in [Callers -> BOOLEAN]
    BY <1>1, <2>1, <2>a
  <2>3. VectorTyped' /\ InFlight(c)'
    BY <1>1, <2>1, <2>2, <2>a, <2>b DEF VectorTyped, InFlight
  <2>4. NoOlderVector'
    BY <2>1 DEF VectorInv, NoOlderVector
  <2>5. \A d \in Callers \ {c} : at'[d] = at[d]
    BY <1>1, <2>1
  <2>6. oldest' <= made' + 1 /\ made' >= made
    BY <2>1, NothingNew
  <2>7. \A d \in Callers \ {c} :
           /\ at'[d] = at[d] /\ vector'[d] = vector[d] /\ ~quiet'[d]
           /\ oldest' = oldest \/ at[d] = "idle"
    BY <2>1, <2>2, <2>5
  <2> QED
    BY <2>3, <2>4, <2>6, <2>7, CallerKeeps
<1>4. CASE DeleteSqlite(c)
  <2>1. /\ at[c] = "delete sqlite" /\ CallerLeaves(c) /\ UNCHANGED <<redis, made>>
        /\ \/ sqlite' = 0 /\ oldest' = IF quiet[c] THEN made + 1 ELSE oldest
           \/ UNCHANGED <<sqlite, oldest>>
    BY <1>4 DEF DeleteSqlite
  <2>2. /\ at' \in [Callers -> VectorSteps] /\ quiet' \in [Callers -> BOOLEAN]
        /\ vector' \in [Callers -> Nat]
        /\ at'[c] = "idle" /\ ~quiet'[c]
        /\ \A d \in Callers \ {c} : at'[d] = at[d] /\ vector'[d] = vector[d] /\ ~quiet'[d]
    BY <2>1, LeaveFacts
  <2>z. made + 1 \in Nat /\ 0 \in Nat /\ sqlite \in Nat
    BY <1>1
  <2>a. sqlite' \in Nat
    BY <2>1, <2>z
  <2>b. oldest \in Nat /\ oldest' \in {made + 1, oldest}
    BY <1>1, <2>1
  <2>c. oldest' \in Nat
    BY <2>b, <2>z
  <2>3. VectorTyped' /\ InFlight(c)'
    BY <1>1, <2>1, <2>2, <2>a, <2>c DEF VectorTyped, InFlight
  <2>4. quiet[c] => redis = 0 /\ \A d \in Callers \ {c} : at[d] = "idle"
    BY <2>1 DEF VectorInv, InFlight
  <2>5. made + 1 \in Nat /\ made + 1 <= made + 1 /\ made >= made
    BY <1>1
  <2>6. CASE quiet[c] /\ sqlite' = 0 /\ oldest' = made + 1
    <3>1. oldest' = made + 1 /\ sqlite' = 0 /\ redis' = 0 /\ made' = made
      BY <2>1, <2>4, <2>6
    <3>2. NoOlderVector'
      BY <3>1 DEF NoOlderVector
    <3>3. oldest' <= made' + 1 /\ made' >= made
      BY <2>5, <3>1
    <3> QED
      BY <2>2, <2>3, <2>4, <2>6, <3>2, <3>3, CallerKeeps
  <2>7. CASE sqlite' \in {sqlite, 0} /\ oldest' = oldest
    <3>1. NoOlderVector'
      BY <2>1, <2>7 DEF VectorInv, NoOlderVector
    <3>2. oldest' <= made' + 1 /\ made' >= made
      BY <2>1, <2>7, NothingNew
    <3> QED
      BY <2>2, <2>3, <2>7, <3>1, <3>2, CallerKeeps
  <2> QED
    BY <2>1, <2>6, <2>7
<1> QED
  BY <1>2, <1>3, <1>4

LEMMA LossesKeep ==
    ASSUME VectorInv, ClearVectors \/ Prune \/ RedisExpires \/ UNCHANGED vectorVars
    PROVE  VectorInv'
<1>1. /\ redis' \in {0, redis} /\ sqlite' \in {0, sqlite}
      /\ UNCHANGED <<at, vector, made, quiet, oldest>>
  BY DEF ClearVectors, Prune, RedisExpires, vectorVars
<1>2. VectorTyped'
  BY <1>1 DEF VectorInv, VectorTyped
<1>3. \A c \in Callers : InFlight(c)'
  BY <1>1 DEF VectorInv, InFlight
<1>4. NoOlderVector'
  BY <1>1 DEF VectorInv, NoOlderVector
<1> QED
  BY <1>1, <1>2, <1>3, <1>4 DEF VectorInv

LEMMA VectorsBegin == VectorInit => VectorInv
<1> SUFFICES ASSUME VectorInit PROVE VectorInv
  OBVIOUS
<1>1. \A c \in Callers : ~quiet[c] /\ at[c] = "idle"
  BY DEF VectorInit
<1>2. VectorTyped
  BY DEF VectorInit, VectorTyped, VectorSteps
<1> QED
  BY <1>1, <1>2 DEF VectorInit, VectorInv, InFlight, NoOlderVector

LEMMA VectorsKeep == VectorInv /\ [VectorNext]_vectorVars => VectorInv'
<1> SUFFICES ASSUME VectorInv, [VectorNext]_vectorVars PROVE VectorInv'
  OBVIOUS
<1>1. CASE ClearVectors \/ Prune \/ RedisExpires \/ UNCHANGED vectorVars
  BY <1>1, LossesKeep
<1>2. ASSUME NEW c \in Callers, GetVector(c) \/ GetFromRedis(c) \/ Select(c) \/ Promote(c)
      PROVE  VectorInv'
  BY <1>2, GetsKeep
<1>3. ASSUME NEW c \in Callers, SetVector(c) \/ SetRedis(c) \/ SetSqlite(c) PROVE VectorInv'
  BY <1>3, SetsKeep
<1>4. ASSUME NEW c \in Callers, DeleteVector(c) \/ DeleteWithoutRedis(c) \/ DeleteSqlite(c)
      PROVE  VectorInv'
  BY <1>4, DeletesKeep
<1> QED
  BY <1>1, <1>2, <1>3, <1>4 DEF VectorNext

\* For any number of callers and of vectors, once a set or a delete has reached
\* both tiers while nobody else was at work, neither tier gives an older vector.
THEOREM NeverAnOlderVector == VectorSpec => []NoOlderVector
<1>1. VectorInv => NoOlderVector
  BY DEF VectorInv
<1> QED
  BY <1>1, VectorsBegin, VectorsKeep, PTL DEF VectorSpec

Writing(c) == at[c] \in {"promote", "set redis", "set sqlite"}

\* A caller has a vector while it writes it; one that has had the tiers to itself sets
\* the last.
VectorsInHand ==
    \A c \in Callers :
        /\ ~Writing(c) => vector[c] = 0
        /\ quiet[c] /\ at[c] \in {"set redis", "set sqlite"} => vector[c] = made

TiersInv == VectorInv /\ VectorsInHand

\* Where every tier and caller has what one of them had, or nothing, some may be lost.
LEMMA OnlyLosses ==
    ASSUME redis' \in Kept \cup {0}, sqlite' \in Kept \cup {0},
           \A c \in Callers : vector'[c] \in Kept \cup {0},
           UNCHANGED <<made, oldest>>
    PROVE  Ideal!Next
<1>1. Kept' \subseteq Kept
  BY DEF Kept
<1> QED
  BY <1>1 DEF Ideal!Next, Ideal!Lose

\* What a tier or a caller has is kept.
LEMMA HasIsKept ==
    /\ redis \in Kept \cup {0} /\ sqlite \in Kept \cup {0}
    /\ \A c \in Callers : vector[c] \in Kept \cup {0}
BY DEF Kept

\* A caller that begins or leaves changes no vector but its own.
LEMMA VectorMoves ==
    ASSUME VectorInv, NEW c \in Callers
    PROVE  /\ CallerLeaves(c) => /\ vector' = [vector EXCEPT ![c] = 0]
                                 /\ vector'[c] = 0 /\ at'[c] = "idle" /\ ~quiet'[c]
                                 /\ \A d \in Callers \ {c} :
                                       vector'[d] = vector[d] /\ at'[d] = at[d]
                                       /\ quiet'[d] = quiet[d]
           /\ \A s \in VectorSteps : Begin(c, s) =>
                 /\ at'[c] = s /\ at[c] = "idle"
                 /\ \A d \in Callers \ {c} : at'[d] = at[d] /\ ~quiet'[d]
  BY DEF CallerLeaves, CallerGoes, Begin, VectorInv, VectorTyped

LEMMA HandsKeep == TiersInv /\ [VectorNext]_vectorVars => VectorsInHand'
<1> SUFFICES ASSUME TiersInv, [VectorNext]_vectorVars PROVE VectorsInHand'
  OBVIOUS
<1> USE DEF TiersInv
<1>t. /\ at \in [Callers -> VectorSteps] /\ vector \in [Callers -> Nat]
      /\ quiet \in [Callers -> BOOLEAN]
  BY DEF VectorInv, VectorTyped
<1>q. \A c \in Callers : at[c] # "idle" => \A d \in Callers \ {c} : ~quiet[d]
  BY OthersAreLoud
<1>1. CASE ClearVectors \/ Prune \/ RedisExpires \/ UNCHANGED vectorVars
  BY <1>1 DEF ClearVectors, Prune, RedisExpires, vectorVars, VectorsInHand, Writing
<1>2. ASSUME NEW c \in Callers, NEW s \in {"select", "delete sqlite"}, Begin(c, s),
             UNCHANGED <<vector, made>>
      PROVE  VectorsInHand'
  <2>1. at'[c] = s /\ at[c] = "idle" /\ \A d \in Callers \ {c} : at'[d] = at[d] /\ ~quiet'[d]
    BY <1>2, VectorMoves DEF VectorSteps
  <2> QED
    BY <1>2, <2>1 DEF VectorsInHand, Writing
<1>3. ASSUME NEW c \in Callers, CallerLeaves(c), UNCHANGED made PROVE VectorsInHand'
  BY <1>3, VectorMoves DEF VectorsInHand, Writing
<1>4. ASSUME NEW c \in Callers, GetFromRedis(c) PROVE VectorsInHand'
  BY <1>4 DEF GetFromRedis, VectorsInHand, Writing
<1>5. ASSUME NEW c \in Callers, at[c] = "select", CallerGoes(c, "promote"),
             vector' = [vector EXCEPT ![c] = sqlite], UNCHANGED <<quiet, made>>
      PROVE  VectorsInHand'
  BY <1>5, <1>t DEF CallerGoes, VectorsInHand, Writing
<1>6. ASSUME NEW c \in Callers, SetVector(c) PROVE VectorsInHand'
  <2>1. /\ at'[c] = "set redis" /\ at[c] = "idle"
        /\ \A d \in Callers \ {c} : at'[d] = at[d] /\ ~quiet'[d]
    BY <1>6, VectorMoves DEF SetVector, VectorSteps
  <2>2. vector'[c] = made' /\ \A d \in Callers \ {c} : vector'[d] = vector[d]
    BY <1>6, <1>t DEF SetVector
  <2> QED
    BY <2>1, <2>2 DEF VectorsInHand, Writing
<1>7. ASSUME NEW c \in Callers, SetRedis(c) PROVE VectorsInHand'
  <2>1. /\ at[c] = "set redis" /\ at'[c] = "set sqlite" /\ UNCHANGED <<vector, made>>
        /\ \A d \in Callers \ {c} : at'[d] = at[d] /\ quiet'[d] = quiet[d]
        /\ quiet'[c] => quiet[c]
    BY <1>7, <1>t DEF SetRedis, CallerGoes
  <2> QED
    BY <2>1 DEF VectorsInHand, Writing
<1>8. ASSUME NEW c \in Callers, DeleteWithoutRedis(c) PROVE VectorsInHand'
  <2>1. /\ at[c] = "idle" /\ at'[c] = "delete sqlite" /\ UNCHANGED <<vector, made>>
        /\ \A d \in Callers \ {c} : at'[d] = at[d]
        /\ \A d \in Callers : ~quiet'[d]
    BY <1>8, <1>t DEF DeleteWithoutRedis, CallerGoes
  <2> QED
    BY <2>1 DEF VectorsInHand, Writing
<1> QED
  BY <1>1, <1>2, <1>3, <1>4, <1>5, <1>6, <1>7, <1>8
     DEF VectorNext, GetVector, Select, Promote, SetSqlite, DeleteVector, DeleteSqlite

\* A set or a delete that had the tiers to itself leaves them with what it wrote.
LEMMA QuietSettles ==
    ASSUME TiersInv, NEW c \in Callers, quiet[c],
           \/ at[c] = "set sqlite" /\ sqlite' = vector[c] /\ oldest' = vector[c]
           \/ at[c] = "delete sqlite" /\ sqlite' = 0 /\ oldest' = made + 1,
           CallerLeaves(c), UNCHANGED <<redis, made>>
    PROVE  Ideal!Next
<1>1. /\ \A d \in Callers \ {c} : at[d] = "idle"
      /\ at[c] = "set sqlite" => redis \in {0, vector[c]}
      /\ at[c] = "delete sqlite" => redis = 0
  BY DEF TiersInv, VectorInv, InFlight
<1>2. \A d \in Callers : vector'[d] = 0
  BY <1>1, VectorMoves DEF TiersInv, VectorsInHand, Writing
<1>3. CASE at[c] = "set sqlite" /\ sqlite' = vector[c] /\ oldest' = vector[c]
  <2>1. vector[c] = made /\ made \in Nat
    BY <1>3 DEF TiersInv, VectorsInHand, VectorInv, VectorTyped
  <2>2. Kept' \subseteq {vector[c]} \ {0}
    BY <1>1, <1>2, <1>3 DEF Kept
  <2>3. {vector[c]} \ {0} \subseteq Kept
    BY DEF Kept
  <2>4. oldest' = made /\ \A v \in Kept' : v \in Kept /\ v >= oldest'
    <3>1. oldest' = made
      BY <1>3, <2>1
    <3>3. made >= made
      BY ONLY <2>1
    <3>2. \A v \in Kept' : v \in Kept /\ v = made
      BY <2>1, <2>2, <2>3
    <3> QED
      BY <3>1, <3>2, <3>3
  <2>5. Ideal!Settle
    BY <2>4 DEF Ideal!Settle
  <2> QED
    BY <2>5 DEF Ideal!Next
<1>4. CASE at[c] = "delete sqlite" /\ sqlite' = 0 /\ oldest' = made + 1
  <2>1. Kept' = {}
    BY <1>1, <1>2, <1>4 DEF Kept
  <2>2. Ideal!Settle
    BY <1>4, <2>1 DEF Ideal!Settle
  <2> QED
    BY <2>2 DEF Ideal!Next
<1> QED
  BY <1>3, <1>4

\* Every step of the tiers is one of the store, or none.
LEMMA TierStepRefines ==
    TiersInv /\ [VectorNext]_vectorVars => [Ideal!Next]_<<Kept, made, oldest>>
<1> SUFFICES ASSUME TiersInv, [VectorNext]_vectorVars
             PROVE  Ideal!Next \/ UNCHANGED <<Kept, made, oldest>>
  OBVIOUS
<1>t. /\ at \in [Callers -> VectorSteps] /\ vector \in [Callers -> Nat] /\ VectorInv
  BY DEF TiersInv, VectorInv, VectorTyped
<1>1. CASE ClearVectors \/ Prune \/ RedisExpires
  BY <1>1, HasIsKept, OnlyLosses DEF ClearVectors, Prune, RedisExpires
<1>2. ASSUME NEW c \in Callers, GetVector(c) \/ GetFromRedis(c) PROVE UNCHANGED <<Kept, made, oldest>>
  BY <1>2 DEF GetVector, GetFromRedis, Kept
<1>3. ASSUME NEW c \in Callers, Select(c) PROVE Ideal!Next
  <2>1. \A d \in Callers : vector'[d] \in {vector[d], sqlite, 0}
    BY <1>3, <1>t DEF Select, CallerLeaves
  <2> QED
    BY <1>3, <2>1, HasIsKept, OnlyLosses DEF Select
<1>4. ASSUME NEW c \in Callers, Promote(c) \/ SetRedis(c) PROVE Ideal!Next
  <2>1. redis' \in {redis, vector[c]} /\ UNCHANGED <<sqlite, made, oldest>>
    BY <1>4 DEF Promote, SetRedis
  <2>2. \A d \in Callers : vector'[d] \in {vector[d], 0}
    BY <1>4, <1>t DEF Promote, SetRedis, CallerLeaves
  <2> QED
    BY <2>1, <2>2, HasIsKept, OnlyLosses
<1>5. ASSUME NEW c \in Callers, SetVector(c) PROVE Ideal!Next
  <2>1. vector[c] = 0 /\ made' = made + 1 /\ UNCHANGED <<redis, sqlite, oldest>> /\ made \in Nat
    BY <1>5 DEF SetVector, Begin, TiersInv, VectorsInHand, Writing, VectorInv, VectorTyped
  <2>2. vector'[c] = made + 1 /\ \A d \in Callers \ {c} : vector'[d] = vector[d]
    BY <1>5, <1>t, <2>1 DEF SetVector
  <2>3. {vector'[d] : d \in Callers} \cup {0} = {vector[d] : d \in Callers} \cup {made + 1, 0}
    BY <2>1, <2>2
  <2>4. Kept' = Kept \cup {made'}
    BY <2>1, <2>3 DEF Kept
  <2>5. Ideal!Set
    BY <2>1, <2>4 DEF Ideal!Set
  <2> QED
    BY <2>5 DEF Ideal!Next
<1>6. ASSUME NEW c \in Callers, SetSqlite(c) \/ DeleteSqlite(c) PROVE Ideal!Next
  <2>1. /\ CallerLeaves(c) /\ UNCHANGED <<redis, made>> /\ sqlite' \in {sqlite, vector[c], 0}
        /\ \/ oldest' = oldest
           \/ quiet[c] /\ at[c] = "set sqlite" /\ sqlite' = vector[c] /\ oldest' = vector[c]
           \/ quiet[c] /\ at[c] = "delete sqlite" /\ sqlite' = 0 /\ oldest' = made + 1
    BY <1>6 DEF SetSqlite, DeleteSqlite
  <2>2. \A d \in Callers : vector'[d] \in {vector[d], 0}
    BY <1>t, <2>1 DEF CallerLeaves
  <2>3. CASE oldest' = oldest
    BY <2>1, <2>2, <2>3, HasIsKept, OnlyLosses
  <2> QED
    BY <2>1, <2>3, QuietSettles
<1>7. ASSUME NEW c \in Callers, DeleteVector(c) \/ DeleteWithoutRedis(c) PROVE Ideal!Next
  <2>1. redis' \in {redis, 0} /\ UNCHANGED <<sqlite, vector, made, oldest>>
    BY <1>7 DEF DeleteVector, DeleteWithoutRedis
  <2> QED
    BY <2>1, HasIsKept, OnlyLosses
<1>8. CASE UNCHANGED vectorVars
  BY <1>8 DEF vectorVars, Kept
<1> QED
  BY <1>1, <1>2, <1>3, <1>4, <1>5, <1>6, <1>7, <1>8 DEF VectorNext

\* get, set and delete: for any callers and vectors, Redis and SQLite are one store of
\* vectors, whoever promotes, sets, deletes and clears at the same time and whatever
\* either tier loses.
THEOREM TiersAreOneStore == VectorSpec => ImplementsVectorStore
<1>1. VectorInit => TiersInv /\ Ideal!Init
  <2>1. VectorInit => VectorInv
    BY VectorsBegin
  <2>2. VectorInit => VectorsInHand /\ Kept = {} /\ made = 0 /\ oldest = 1
    BY DEF VectorInit, VectorsInHand, Kept
  <2> QED
    BY <2>1, <2>2 DEF TiersInv, Ideal!Init
<1>2. TiersInv /\ [VectorNext]_vectorVars => TiersInv'
  BY VectorsKeep, HandsKeep DEF TiersInv
<1>3. TiersInv /\ [VectorNext]_vectorVars => [Ideal!Next]_<<Kept, made, oldest>>
  BY TierStepRefines
<1> QED
  BY <1>1, <1>2, <1>3, PTL DEF VectorSpec, ImplementsVectorStore, Ideal!Spec

----------------------------------------------------------------------------
(* The file of the statistics                                              *)

\* A number and the next are in the same batch, unless the next begins one.
LEMMA BatchArithmetic ==
    ASSUME NEW n \in Nat, NEW b \in Nat \ {0}
    PROVE  /\ (n % b) \in 0 .. b - 1
           /\ (n + 1) % b # 0 => (n + 1) % b = (n % b) + 1
<1>1. ASSUME NEW m \in Int
      PROVE  (m % b) \in 0 .. b - 1 /\ m \div b \in Int /\ m = b * (m \div b) + (m % b)
  OBVIOUS
<1> DEFINE r == n % b
           s == (n + 1) % b
           q == n \div b
           o == (n + 1) \div b
           k == o - q
<1>2. /\ n \in Int /\ n + 1 \in Int /\ r \in 0 .. b - 1 /\ s \in 0 .. b - 1
      /\ q \in Int /\ o \in Int /\ n = b * q + r /\ n + 1 = b * o + s
  <2>1. n \in Int /\ n + 1 \in Int
    OBVIOUS
  <2>2. r \in 0 .. b - 1 /\ q \in Int /\ n = b * q + r
    BY <2>1, <1>1
  <2>3. s \in 0 .. b - 1 /\ o \in Int /\ n + 1 = b * o + s
    BY <2>1, <1>1
  <2> QED
    BY <2>1, <2>2, <2>3
<1> HIDE DEF r, s, q, o
<1>3. k \in Int /\ b * k = (1 + r) - s
  BY <1>2
<1> HIDE DEF k
<1>4. ASSUME s # 0 PROVE s = r + 1
  <2>1. b * k < b /\ b * k > 0 - b
    BY <1>2, <1>3, <1>4
  <2>2. k = 0
    BY <1>3, <2>1
  <2> QED
    BY <1>2, <1>3, <2>2
<1> QED
  BY <1>2, <1>4 DEF r, s

StatsTyped ==
    /\ count \in [Processes -> [Tiers -> Nat]] /\ file \in [Tiers -> Nat]
    /\ done \in [Tiers -> Nat]
    /\ alive \subseteq Processes /\ saving \subseteq alive

\* A process that has the file to itself counts every operation.
CountsAll == ~met => \A p \in alive : alive = {p} /\ count[p] = done

\* No batch has been completed since what the file holds.
SameBatch == ~met /\ ~failed /\ ~torn => \A t \in Tiers : done[t] <= file[t] + (done[t] % Batch)

StatsInv == StatsTyped /\ CountsAll /\ SameBatch

LEMMA StartKeeps ==
    ASSUME StatsInv, NEW p \in Processes, Start(p)
    PROVE  StatsInv'
<1>1. StatsTyped
  BY DEF StatsInv
<1> DEFINE loaded == IF torn THEN Zero ELSE file
<1>2. loaded \in [Tiers -> Nat] /\ Zero \in [Tiers -> Nat]
  BY <1>1 DEF StatsTyped, Zero
<1>3. /\ count' = [count EXCEPT ![p] = loaded] /\ alive' = alive \cup {p}
      /\ UNCHANGED <<saving, file, torn>> /\ met' = (alive # {}) /\ p \notin alive
      /\ done' = IF alive = {} THEN count'[p] ELSE done
  BY DEF Start
<1> HIDE DEF loaded
<1>4. count' \in [Processes -> [Tiers -> Nat]] /\ count'[p] = loaded
  BY <1>1, <1>2, <1>3 DEF StatsTyped
<1>5. done' \in [Tiers -> Nat]
  BY <1>1, <1>2, <1>3, <1>4 DEF StatsTyped
<1>6. StatsTyped'
  BY <1>1, <1>3, <1>4, <1>5 DEF StatsTyped
<1>7. CountsAll'
  <2> SUFFICES ASSUME ~met', NEW q \in alive' PROVE alive' = {q} /\ count'[q] = done'
    BY DEF CountsAll
  <2>1. alive = {} /\ alive' = {p} /\ done' = count'[p]
    BY <1>3
  <2> QED
    BY <2>1
<1>8. SameBatch'
  <2> SUFFICES ASSUME ~met', ~torn', NEW t \in Tiers
               PROVE  done'[t] <= file'[t] + (done'[t] % Batch)
    BY DEF SameBatch
  <2>1. done' = file /\ file' = file
    BY <1>3, <1>4 DEF loaded
  <2>2. file[t] \in Nat /\ (file[t] % Batch) \in 0 .. Batch - 1
    BY <1>1, BatchAssumption, BatchArithmetic DEF StatsTyped
  <2> DEFINE r == file[t] % Batch
  <2>3. r \in Nat
    BY <2>2, BatchAssumption
  <2> HIDE DEF r
  <2>4. file[t] <= file[t] + r
    BY <2>2, <2>3
  <2> QED
    BY <2>1, <2>4 DEF r
<1> QED
  BY <1>6, <1>7, <1>8 DEF StatsInv

LEMMA RecordKeeps ==
    ASSUME StatsInv, NEW p \in Processes, NEW t \in Tiers, Record(p, t)
    PROVE  StatsInv'
<1>1. StatsTyped
  BY DEF StatsInv
<1>2. /\ p \in alive \ saving /\ count[p][t] < MaxOperations
      /\ count' = [count EXCEPT ![p][t] = @ + 1]
      /\ done' = [done EXCEPT ![t] = IF @ < MaxOperations THEN @ + 1 ELSE @]
      /\ UNCHANGED <<alive, file, met>> /\ saving' \in {saving, saving \cup {p}}
      /\ torn \/ failed => torn' \/ failed'
      /\ Due(p, t) => torn' \/ failed'
  BY DEF Record
<1>3. count[p] \in [Tiers -> Nat] /\ count[p][t] \in Nat /\ done[t] \in Nat
  BY <1>1, <1>2 DEF StatsTyped
<1>4. /\ count[p][t] + 1 \in Nat /\ done[t] + 1 \in Nat
  BY <1>3
<1>5. count' = [count EXCEPT ![p] = [count[p] EXCEPT ![t] = count[p][t] + 1]]
  BY <1>1, <1>2, <1>3 DEF StatsTyped
<1>6. [count[p] EXCEPT ![t] = count[p][t] + 1] \in [Tiers -> Nat]
  BY <1>3, <1>4
<1>7. /\ count' \in [Processes -> [Tiers -> Nat]]
      /\ count'[p] = [count[p] EXCEPT ![t] = count[p][t] + 1]
  BY <1>1, <1>5, <1>6 DEF StatsTyped
<1>8. done' \in [Tiers -> Nat] /\ \A u \in Tiers \ {t} : done'[u] = done[u]
  BY <1>1, <1>2, <1>3, <1>4 DEF StatsTyped
<1>9. StatsTyped'
  BY <1>1, <1>2, <1>7, <1>8 DEF StatsTyped
<1>10. ASSUME ~met
       PROVE  alive = {p} /\ count[p] = done /\ done' = [done EXCEPT ![t] = done[t] + 1]
  <2>1. alive = {p} /\ count[p] = done
    BY <1>2, <1>10 DEF StatsInv, CountsAll
  <2> QED
    BY <1>2, <2>1
<1>11. CountsAll'
  BY <1>2, <1>7, <1>10 DEF CountsAll
<1>12. SameBatch'
  <2> SUFFICES ASSUME ~met', ~failed', ~torn', NEW u \in Tiers
               PROVE  done'[u] <= file'[u] + (done'[u] % Batch)
    BY DEF SameBatch
  <2>1. ~met /\ ~failed /\ ~torn /\ ~Due(p, t)
    BY <1>2
  <2>2. done[u] <= file[u] + (done[u] % Batch)
    BY <2>1 DEF StatsInv, SameBatch
  <2>3. CASE u # t
    BY <1>2, <1>8, <2>2, <2>3
  <2>4. CASE u = t
    <3>1. (done[t] + 1) % Batch # 0
      BY <1>10, <2>1 DEF Due
    <3> DEFINE r == done[t] % Batch
               s == (done[t] + 1) % Batch
    <3>2. r \in 0 .. Batch - 1 /\ s = r + 1
      BY <1>3, <3>1, BatchAssumption, BatchArithmetic
    <3>3. done'[t] = done[t] + 1 /\ file'[t] = file[t] /\ file[t] \in Nat
      BY <1>1, <1>2, <1>10, <2>1 DEF StatsTyped
    <3>4. done[t] <= file[t] + r
      BY <2>2, <2>4
    <3> HIDE DEF r, s
    <3>5. done[t] + 1 <= file[t] + s
      BY <1>3, <3>2, <3>3, <3>4
    <3> QED
      BY <2>4, <3>3, <3>5 DEF s
  <2> QED
    BY <2>3, <2>4
<1> QED
  BY <1>9, <1>11, <1>12 DEF StatsInv

LEMMA SaveKeeps ==
    ASSUME StatsInv, NEW p \in Processes, SaveFile(p)
    PROVE  StatsInv'
<1>1. StatsTyped
  BY DEF StatsInv
<1>2. /\ p \in saving /\ saving' = saving \ {p} /\ UNCHANGED <<count, alive, done, met>>
      /\ \/ file' = count[p]
         \/ failed' /\ UNCHANGED file
  BY DEF SaveFile
<1>3. p \in alive /\ count[p] \in [Tiers -> Nat]
  BY <1>1, <1>2 DEF StatsTyped
<1>4. StatsTyped'
  BY <1>1, <1>2, <1>3 DEF StatsTyped
<1>5. CountsAll'
  BY <1>2 DEF StatsInv, CountsAll
<1>6. SameBatch'
  <2> SUFFICES ASSUME ~met', ~failed', NEW t \in Tiers
               PROVE  done'[t] <= file'[t] + (done'[t] % Batch)
    BY DEF SameBatch
  <2>1. count[p] = done
    BY <1>2, <1>3 DEF StatsInv, CountsAll
  <2>2. file' = done /\ done' = done /\ done[t] \in Nat
    BY <1>1, <1>2, <2>1 DEF StatsTyped
  <2> DEFINE r == done[t] % Batch
  <2>3. r \in 0 .. Batch - 1
    BY <2>2, BatchAssumption, BatchArithmetic
  <2> HIDE DEF r
  <2>4. done[t] <= done[t] + r
    BY <2>2, <2>3, BatchAssumption
  <2> QED
    BY <2>2, <2>4 DEF r
<1> QED
  BY <1>4, <1>5, <1>6 DEF StatsInv

LEMMA OthersKeepStats ==
    ASSUME StatsInv, NEW p \in Processes, Flush(p) \/ Reset(p) \/ ProcessDies(p)
    PROVE  StatsInv'
<1>1. StatsTyped /\ Zero \in [Tiers -> Nat]
  BY DEF StatsInv, Zero
<1>2. CASE Flush(p)
  <2>1. /\ p \in alive /\ saving' \in {saving, saving \cup {p}} /\ (torn' \/ failed')
        /\ UNCHANGED <<count, alive, file, done, met>>
    BY <1>2 DEF Flush
  <2>2. StatsTyped'
    BY <1>1, <2>1 DEF StatsTyped
  <2> QED
    BY <2>1, <2>2 DEF StatsInv, CountsAll, SameBatch
<1>3. CASE Reset(p)
  <2>1. /\ p \in alive /\ saving' \in {saving, saving \cup {p}} /\ (torn' \/ failed')
        /\ count' = [count EXCEPT ![p] = Zero] /\ done' = IF met THEN done ELSE Zero
        /\ UNCHANGED <<alive, file, met>>
    BY <1>3 DEF Reset
  <2>2. count' \in [Processes -> [Tiers -> Nat]] /\ count'[p] = Zero
    BY <1>1, <2>1 DEF StatsTyped
  <2>3. StatsTyped'
    BY <1>1, <2>1, <2>2 DEF StatsTyped
  <2>4. CountsAll'
    BY <2>1, <2>2 DEF StatsInv, CountsAll
  <2>5. SameBatch'
    BY <2>1 DEF SameBatch
  <2> QED
    BY <2>3, <2>4, <2>5 DEF StatsInv
<1>4. CASE ProcessDies(p)
  <2>1. /\ p \in alive /\ alive' = alive \ {p} /\ saving' = saving \ {p}
        /\ count' = [count EXCEPT ![p] = Zero]
        /\ UNCHANGED <<file, torn, done, met, failed>>
    BY <1>4 DEF ProcessDies
  <2>2. /\ count' \in [Processes -> [Tiers -> Nat]]
        /\ \A q \in Processes \ {p} : count'[q] = count[q]
    BY <1>1, <2>1 DEF StatsTyped
  <2>3. StatsTyped'
    BY <1>1, <2>1, <2>2 DEF StatsTyped
  <2>4. CountsAll'
    BY <2>1 DEF StatsInv, CountsAll
  <2>5. SameBatch'
    BY <2>1 DEF StatsInv, SameBatch
  <2> QED
    BY <2>3, <2>4, <2>5 DEF StatsInv
<1> QED
  BY <1>2, <1>3, <1>4

\* For any number of processes and tiers and any size of a batch: as long as one
\* process has the file to itself and saves succeed, what a restart would lose of a
\* tier is less than a batch.
THEOREM LessThanABatchIsLost == StatsSpec => []LossIsBounded
<1>1. StatsInit => StatsInv
  <2> SUFFICES ASSUME StatsInit PROVE StatsInv
    OBVIOUS
  <2>1. StatsTyped /\ CountsAll
    BY DEF StatsInit, StatsTyped, CountsAll, Zero
  <2>2. \A t \in Tiers : done[t] = 0 /\ file[t] = 0
    BY DEF StatsInit, Zero
  <2>3. (0 % Batch) \in 0 .. Batch - 1
    BY BatchAssumption, BatchArithmetic
  <2> DEFINE r == 0 % Batch
  <2> HIDE DEF r
  <2>4. r \in Nat
    BY <2>3, BatchAssumption DEF r
  <2>5. 0 <= 0 + r
    BY <2>4
  <2> QED
    BY <2>1, <2>2, <2>5 DEF StatsInv, SameBatch, r
<1>2. StatsInv /\ [StatsNext]_statsVars => StatsInv'
  <2> SUFFICES ASSUME StatsInv, [StatsNext]_statsVars PROVE StatsInv'
    OBVIOUS
  <2>1. CASE UNCHANGED statsVars
    BY <2>1 DEF statsVars, StatsInv, StatsTyped, CountsAll, SameBatch
  <2>2. ASSUME NEW p \in Processes, Start(p) PROVE StatsInv'
    BY <2>2, StartKeeps
  <2>3. ASSUME NEW p \in Processes, NEW t \in Tiers, Record(p, t) PROVE StatsInv'
    BY <2>3, RecordKeeps
  <2>4. ASSUME NEW p \in Processes, SaveFile(p) PROVE StatsInv'
    BY <2>4, SaveKeeps
  <2>5. ASSUME NEW p \in Processes, Flush(p) \/ Reset(p) \/ ProcessDies(p) PROVE StatsInv'
    BY <2>5, OthersKeepStats
  <2> QED
    BY <2>1, <2>2, <2>3, <2>4, <2>5 DEF StatsNext
<1>3. StatsInv => LossIsBounded
  <2> SUFFICES ASSUME StatsInv, ~met, ~failed, ~torn, NEW t \in Tiers
               PROVE  done[t] < file[t] + Batch
    BY DEF LossIsBounded
  <2>1. done[t] \in Nat /\ file[t] \in Nat
    BY DEF StatsInv, StatsTyped
  <2> DEFINE r == done[t] % Batch
  <2>2. r \in 0 .. Batch - 1
    BY <2>1, BatchAssumption, BatchArithmetic
  <2>3. done[t] <= file[t] + r
    BY DEF StatsInv, SameBatch
  <2> HIDE DEF r
  <2> QED
    BY <2>1, <2>2, <2>3, BatchAssumption
<1> QED
  BY <1>1, <1>2, <1>3, PTL DEF StatsSpec

----------------------------------------------------------------------------
(* The notes of the vault                                                  *)

WriteSteps == {"idle", "look", "read", "open", "fill"}

WritersTyped ==
    /\ note \in [Paths -> {"absent", "torn", "whole", "foreign"}]
    /\ created \in [Paths -> Nat] /\ born \in [Paths -> Nat] /\ stamps \in Nat
    /\ writing \in [Writers -> WriteSteps] /\ stamp \in [Writers -> Nat]
    /\ path \in [Writers -> Paths \cup {NoPath}]
    /\ \A w \in Writers : writing[w] = "idle" <=> path[w] = NoPath

\* One writer at most is at work on the note; if the note is torn, it has it open;
\* and what it is going to write keeps the first "created".
SoundNote(p) ==
    /\ \A v, w \in Writers : path[v] = p /\ path[w] = p => v = w
    /\ note[p] = "torn" => \E w \in Writers : path[w] = p /\ writing[w] = "fill"
    /\ note[p] \in {"whole", "foreign"} => created[p] = born[p]
    /\ \A w \in Writers :
          path[w] = p /\ writing[w] \in {"open", "fill"} => born[p] \in {0, stamp[w]}

AbsentAreUnborn == \A p \in Paths : note[p] = "absent" => born[p] = 0

NotesInv == WritersTyped /\ AbsentAreUnborn /\ \A p \in Paths \ broken : SoundNote(p)

\* A step that has nothing to do with a note leaves it sound.
LEMMA ElsewhereSound ==
    ASSUME NEW p \in Paths, SoundNote(p),
           note'[p] = note[p], created'[p] = created[p], born'[p] = born[p],
           \A w \in Writers :
               /\ path'[w] = p <=> path[w] = p
               /\ path[w] = p => writing'[w] = writing[w] /\ stamp'[w] = stamp[w]
    PROVE  SoundNote(p)'
<1>1. \A v, w \in Writers : path'[v] = p /\ path'[w] = p => v = w
  BY DEF SoundNote
<1>2. note'[p] = "torn" => \E w \in Writers : path'[w] = p /\ writing'[w] = "fill"
  BY DEF SoundNote
<1>3. note'[p] \in {"whole", "foreign"} => created'[p] = born'[p]
  BY DEF SoundNote
<1>4. \A w \in Writers :
          path'[w] = p /\ writing'[w] \in {"open", "fill"} => born'[p] \in {0, stamp'[w]}
  BY DEF SoundNote
<1> QED
  BY <1>1, <1>2, <1>3, <1>4 DEF SoundNote

LEMMA WriterGoesFacts ==
    ASSUME WritersTyped, NEW w \in Writers, NEW s \in WriteSteps \ {"idle"}, WriterGoes(w, s)
    PROVE  /\ writing' \in [Writers -> WriteSteps] /\ writing'[w] = s
           /\ \A v \in Writers \ {w} : writing'[v] = writing[v]
  BY DEF WriterGoes, WritersTyped

LEMMA WriterLeavesFacts ==
    ASSUME WritersTyped, NEW w \in Writers, WriterLeaves(w)
    PROVE  /\ writing' \in [Writers -> WriteSteps] /\ writing'[w] = "idle"
           /\ path' \in [Writers -> Paths \cup {NoPath}] /\ path'[w] = NoPath
           /\ stamp' \in [Writers -> Nat]
           /\ \A v \in Writers \ {w} :
                 writing'[v] = writing[v] /\ path'[v] = path[v] /\ stamp'[v] = stamp[v]
<1>1. /\ writing \in [Writers -> WriteSteps] /\ stamp \in [Writers -> Nat]
      /\ path \in [Writers -> Paths \cup {NoPath}]
  BY DEF WritersTyped
<1>2. /\ writing' = [writing EXCEPT ![w] = "idle"] /\ path' = [path EXCEPT ![w] = NoPath]
      /\ stamp' = [stamp EXCEPT ![w] = 0]
  BY DEF WriterLeaves, WriterGoes
<1>3. writing' \in [Writers -> WriteSteps]
  BY <1>1, <1>2 DEF WriteSteps
<1>4. path' \in [Writers -> Paths \cup {NoPath}] /\ stamp' \in [Writers -> Nat]
  BY <1>1, <1>2
<1> QED
  BY <1>1, <1>2, <1>3, <1>4

LEMMA WriteKeeps ==
    ASSUME NotesInv, NEW w \in Writers, NEW p \in Paths, Write(w, p)
    PROVE  NotesInv'
<1>1. WritersTyped
  BY DEF NotesInv
<1>2. /\ writing[w] = "idle" /\ path' = [path EXCEPT ![w] = p]
      /\ WriterGoes(w, "look")
      /\ broken' = IF AtWork(p) THEN broken \cup {p} ELSE broken
      /\ UNCHANGED <<note, created, stamps, stamp, born>>
  BY DEF Write, vaultFiles
<1>3. /\ writing' \in [Writers -> WriteSteps] /\ writing'[w] = "look"
      /\ \A v \in Writers \ {w} : writing'[v] = writing[v]
  BY <1>1, <1>2, WriterGoesFacts DEF WriteSteps
<1>4. /\ path' \in [Writers -> Paths \cup {NoPath}] /\ path'[w] = p
      /\ \A v \in Writers \ {w} : path'[v] = path[v]
  BY <1>1, <1>2 DEF WritersTyped
<1>5. \A v \in Writers : writing'[v] = "idle" <=> path'[v] = NoPath
  BY <1>1, <1>3, <1>4, VaultAssumption DEF WritersTyped
<1>6. WritersTyped'
  BY <1>1, <1>2, <1>3, <1>4, <1>5 DEF WritersTyped
<1>7. AbsentAreUnborn'
  BY <1>2 DEF NotesInv, AbsentAreUnborn
<1>8. path[w] = NoPath
  BY <1>1, <1>2 DEF WritersTyped
<1>9. ASSUME NEW q \in Paths \ broken' PROVE SoundNote(q)'
  <2>1. q \notin broken /\ SoundNote(q)
    BY <1>2 DEF NotesInv
  <2>2. CASE q # p
    <3>1. \A v \in Writers :
             /\ path'[v] = q <=> path[v] = q
             /\ path[v] = q => writing'[v] = writing[v] /\ stamp'[v] = stamp[v]
      BY <1>2, <1>3, <1>4, <1>8, <2>2, VaultAssumption
    <3> QED
      BY <1>2, <2>1, <3>1, ElsewhereSound
  <2>3. CASE q = p
    <3>1. \A v \in Writers : path[v] # p
      BY <1>2, <2>3 DEF AtWork
    <3>2. \A v \in Writers : path'[v] = p => v = w
      BY <1>4, <3>1
    <3>3. note[p] # "torn"
      BY <2>1, <2>3, <3>1 DEF SoundNote
    <3>4. note[p] \in {"whole", "foreign"} => created[p] = born[p]
      BY <2>1, <2>3 DEF SoundNote
    <3> QED
      BY <1>2, <1>3, <2>3, <3>2, <3>3, <3>4 DEF SoundNote
  <2> QED
    BY <2>2, <2>3
<1> QED
  BY <1>6, <1>7, <1>9 DEF NotesInv

\* A writer at work goes on, with its note.
LEMMA WriterGoesOn ==
    ASSUME NotesInv, NEW w \in Writers, writing[w] # "idle",
           NEW s \in WriteSteps \ {"idle"}, WriterGoes(w, s),
           stamps' \in Nat, stamp' \in [Writers -> Nat],
           \A v \in Writers \ {w} : stamp'[v] = stamp[v],
           UNCHANGED <<note, created, path, born, broken>>,
           path[w] \notin broken =>
               /\ note[path[w]] = "torn" => s = "fill"
               /\ s \in {"open", "fill"} => born[path[w]] \in {0, stamp'[w]}
    PROVE  NotesInv'
<1>1. WritersTyped
  BY DEF NotesInv
<1>2. /\ writing' \in [Writers -> WriteSteps] /\ writing'[w] = s
      /\ \A v \in Writers \ {w} : writing'[v] = writing[v]
  BY <1>1, WriterGoesFacts
<1>3. \A v \in Writers : writing'[v] = "idle" <=> path'[v] = NoPath
  BY <1>1, <1>2 DEF WritersTyped
<1>4. WritersTyped'
  BY <1>1, <1>2, <1>3 DEF WritersTyped
<1>5. AbsentAreUnborn'
  BY DEF NotesInv, AbsentAreUnborn
<1>6. ASSUME NEW q \in Paths \ broken' PROVE SoundNote(q)'
  <2>1. SoundNote(q)
    BY DEF NotesInv
  <2>2. CASE q # path[w]
    <3>1. \A v \in Writers :
             /\ path'[v] = q <=> path[v] = q
             /\ path[v] = q => writing'[v] = writing[v] /\ stamp'[v] = stamp[v]
      BY <1>2, <2>2
    <3> QED
      BY <2>1, <3>1, ElsewhereSound
  <2>3. CASE q = path[w]
    <3>1. \A v \in Writers : path[v] = q => v = w
      BY <2>1, <2>3 DEF SoundNote
    <3>2. note[q] \in {"whole", "foreign"} => created[q] = born[q]
      BY <2>1 DEF SoundNote
    <3>3. note[q] = "torn" => path'[w] = q /\ writing'[w] = "fill"
      BY <1>2, <2>3
    <3>4. writing'[w] \in {"open", "fill"} => born[q] \in {0, stamp'[w]}
      BY <1>2, <2>3
    <3> QED
      BY <3>1, <3>2, <3>3, <3>4 DEF SoundNote
  <2> QED
    BY <2>2, <2>3
<1> QED
  BY <1>4, <1>5, <1>6 DEF NotesInv

LEMMA LookKeeps ==
    ASSUME NotesInv, NEW w \in Writers, Look(w)
    PROVE  NotesInv'
<1>1. WritersTyped
  BY DEF NotesInv
<1> DEFINE p == path[w]
<1>2. writing[w] = "look" /\ UNCHANGED <<note, created, path, born, broken>>
  BY DEF Look, vaultFiles
<1>3. p \in Paths
  BY <1>1, <1>2 DEF WritersTyped
<1>4. p \notin broken => note[p] # "torn" /\ SoundNote(p)
  BY <1>2, <1>3 DEF NotesInv, SoundNote
<1>5. CASE Exists(p)
  <2>1. WriterGoes(w, "read") /\ UNCHANGED <<stamps, stamp>>
    BY <1>5 DEF Look
  <2>2. stamps' \in Nat /\ stamp' \in [Writers -> Nat]
    BY <1>1, <2>1 DEF WritersTyped
  <2>3. "read" \in WriteSteps \ {"idle"}
    BY DEF WriteSteps
  <2> QED
    BY <1>2, <1>4, <2>1, <2>2, <2>3, WriterGoesOn
<1>6. CASE ~Exists(p)
  <2>1. WriterGoes(w, "open") /\ stamps' = stamps + 1 /\ stamp' = [stamp EXCEPT ![w] = stamps + 1]
    BY <1>6 DEF Look
  <2>2. stamps + 1 \in Nat
    BY <1>1 DEF WritersTyped
  <2>3. stamps' \in Nat /\ stamp' \in [Writers -> Nat] /\ \A v \in Writers \ {w} : stamp'[v] = stamp[v]
    BY <1>1, <2>1, <2>2 DEF WritersTyped
  <2>4. "open" \in WriteSteps \ {"idle"}
    BY DEF WriteSteps
  <2>5. born[p] = 0
    BY <1>3, <1>6 DEF NotesInv, AbsentAreUnborn, Exists
  <2> QED
    BY <1>2, <1>4, <2>1, <2>3, <2>4, <2>5, WriterGoesOn
<1> QED
  BY <1>5, <1>6

\* A writer that stops leaves its note as it is; it does not leave it open unnoticed.
LEMMA WriterStops ==
    ASSUME NotesInv, NEW w \in Writers, writing[w] # "idle", WriterLeaves(w),
           UNCHANGED <<note, created, stamps, born>>,
           broken \subseteq broken', writing[w] = "fill" => path[w] \in broken'
    PROVE  NotesInv'
<1>1. WritersTyped
  BY DEF NotesInv
<1>2. /\ writing' \in [Writers -> WriteSteps] /\ writing'[w] = "idle"
      /\ path' \in [Writers -> Paths \cup {NoPath}] /\ path'[w] = NoPath
      /\ stamp' \in [Writers -> Nat]
      /\ \A v \in Writers \ {w} :
            writing'[v] = writing[v] /\ path'[v] = path[v] /\ stamp'[v] = stamp[v]
  BY <1>1, WriterLeavesFacts
<1>3. \A v \in Writers : writing'[v] = "idle" <=> path'[v] = NoPath
  BY <1>1, <1>2 DEF WritersTyped
<1>4. WritersTyped'
  BY <1>1, <1>2, <1>3 DEF WritersTyped
<1>5. AbsentAreUnborn'
  BY DEF NotesInv, AbsentAreUnborn
<1>6. ASSUME NEW q \in Paths \ broken' PROVE SoundNote(q)'
  <2>1. SoundNote(q)
    BY DEF NotesInv
  <2>2. \A v \in Writers : path'[v] = q =>
            /\ v # w /\ path[v] = q /\ writing'[v] = writing[v] /\ stamp'[v] = stamp[v]
    BY <1>2, VaultAssumption
  <2>3. note'[q] = "torn" => \E v \in Writers : path'[v] = q /\ writing'[v] = "fill"
    <3> SUFFICES ASSUME note[q] = "torn"
                 PROVE  \E v \in Writers : path'[v] = q /\ writing'[v] = "fill"
      OBVIOUS
    <3>1. PICK v \in Writers : path[v] = q /\ writing[v] = "fill"
      BY <2>1 DEF SoundNote
    <3>2. v # w
      BY <3>1
    <3> QED
      BY <1>2, <3>1, <3>2
  <2>4. \A u, v \in Writers : path'[u] = q /\ path'[v] = q => u = v
    BY <2>1, <2>2 DEF SoundNote
  <2>5. \A v \in Writers :
            path'[v] = q /\ writing'[v] \in {"open", "fill"} => born'[q] \in {0, stamp'[v]}
    BY <2>1, <2>2 DEF SoundNote
  <2>6. note'[q] \in {"whole", "foreign"} => created'[q] = born'[q]
    BY <2>1 DEF SoundNote
  <2> QED
    BY <2>3, <2>4, <2>5, <2>6 DEF SoundNote
<1> QED
  BY <1>4, <1>5, <1>6 DEF NotesInv

LEMMA ReadKeeps ==
    ASSUME NotesInv, NEW w \in Writers, ReadExisting(w)
    PROVE  NotesInv'
<1>1. WritersTyped
  BY DEF NotesInv
<1> DEFINE p == path[w]
<1>2. writing[w] = "read" /\ UNCHANGED <<note, created, born, broken>>
  BY DEF ReadExisting, vaultFiles
<1>3. p \in Paths
  BY <1>1, <1>2 DEF WritersTyped
<1>4. CASE note[p] = "foreign"
  <2>1. WriterLeaves(w) /\ UNCHANGED stamps
    BY <1>4 DEF ReadExisting
  <2> QED
    BY <1>2, <2>1, WriterStops
<1>5. CASE note[p] # "foreign"
  <2>1. /\ stamps' = stamps + 1 /\ stamp' = [stamp EXCEPT ![w] = KeptStamp(p, stamps')]
        /\ WriterGoes(w, "open") /\ UNCHANGED path
    BY <1>5 DEF ReadExisting
  <2>2. stamps' \in Nat
    BY <1>1, <2>1 DEF WritersTyped
  <2>3. note[p] \in {"absent", "torn", "whole"} /\ created[p] \in Nat /\ 0 \in Nat
    BY <1>1, <1>3, <1>5 DEF WritersTyped
  <2>4. KeptStamp(p, stamps') \in Nat
    BY <2>2, <2>3 DEF KeptStamp, Exists
  <2>5. /\ stamp' \in [Writers -> Nat] /\ stamp'[w] = KeptStamp(p, stamps')
        /\ \A v \in Writers \ {w} : stamp'[v] = stamp[v]
    BY <1>1, <2>1, <2>4 DEF WritersTyped
  <2>6. "open" \in WriteSteps \ {"idle"}
    BY DEF WriteSteps
  <2>7. ASSUME p \notin broken
        PROVE  note[p] # "torn" /\ born[p] \in {0, stamp'[w]}
    <3>1. SoundNote(p)
      BY <1>3, <2>7 DEF NotesInv
    <3>2. note[p] # "torn"
      BY <1>2, <3>1 DEF SoundNote
    <3>3. CASE note[p] = "absent"
      BY <1>3, <3>2, <3>3 DEF NotesInv, AbsentAreUnborn
    <3>4. CASE note[p] = "whole"
      <4>1. created[p] = born[p]
        BY <3>1, <3>4 DEF SoundNote
      <4>2. created[p] # 0 => KeptStamp(p, stamps') = created[p]
        BY <3>4 DEF KeptStamp, Exists
      <4> QED
        BY <2>5, <3>2, <4>1, <4>2
    <3> QED
      BY <2>3, <3>2, <3>3, <3>4
  <2>8. stamp' \in [Writers -> Nat] /\ \A v \in Writers \ {w} : stamp'[v] = stamp[v]
    BY <2>5
  <2> QED
    BY <1>2, <2>1, <2>2, <2>6, <2>7, <2>8, WriterGoesOn
<1> QED
  BY <1>4, <1>5

LEMMA OpenKeeps ==
    ASSUME NotesInv, NEW w \in Writers, OpenNote(w)
    PROVE  NotesInv'
<1>1. WritersTyped
  BY DEF NotesInv
<1> DEFINE p == path[w]
<1>2. /\ writing[w] = "open" /\ WriterGoes(w, "fill") /\ note' = [note EXCEPT ![p] = "torn"]
      /\ UNCHANGED <<created, stamps, path, stamp, born, broken>>
  BY DEF OpenNote
<1>3. p \in Paths
  BY <1>1, <1>2 DEF WritersTyped
<1>4. /\ writing' \in [Writers -> WriteSteps] /\ writing'[w] = "fill"
      /\ \A v \in Writers \ {w} : writing'[v] = writing[v]
  BY <1>1, <1>2, WriterGoesFacts DEF WriteSteps
<1>5. /\ note' \in [Paths -> {"absent", "torn", "whole", "foreign"}] /\ note'[p] = "torn"
      /\ \A q \in Paths \ {p} : note'[q] = note[q]
  BY <1>1, <1>2, <1>3 DEF WritersTyped
<1>6. \A v \in Writers : writing'[v] = "idle" <=> path'[v] = NoPath
  BY <1>1, <1>2, <1>4 DEF WritersTyped
<1>7. WritersTyped'
  BY <1>1, <1>2, <1>4, <1>5, <1>6 DEF WritersTyped
<1>8. AbsentAreUnborn'
  BY <1>2, <1>5 DEF NotesInv, AbsentAreUnborn
<1>9. ASSUME NEW q \in Paths \ broken' PROVE SoundNote(q)'
  <2>1. SoundNote(q)
    BY <1>2 DEF NotesInv
  <2>2. CASE q # p
    <3>1. \A v \in Writers :
             /\ path'[v] = q <=> path[v] = q
             /\ path[v] = q => writing'[v] = writing[v] /\ stamp'[v] = stamp[v]
      BY <1>2, <1>4, <2>2
    <3> QED
      BY <1>2, <1>5, <2>1, <2>2, <3>1, ElsewhereSound
  <2>3. CASE q = p
    <3>1. \A v \in Writers : path[v] = q => v = w
      BY <2>1, <2>3 DEF SoundNote
    <3>2. born[q] \in {0, stamp[w]}
      BY <1>2, <2>1, <2>3 DEF SoundNote
    <3> QED
      BY <1>2, <1>4, <1>5, <2>3, <3>1, <3>2 DEF SoundNote
  <2> QED
    BY <2>2, <2>3
<1> QED
  BY <1>7, <1>8, <1>9 DEF NotesInv

LEMMA FillKeeps ==
    ASSUME NotesInv, NEW w \in Writers, Fill(w)
    PROVE  NotesInv'
<1>1. WritersTyped
  BY DEF NotesInv
<1> DEFINE p == path[w]
<1>2. /\ writing[w] = "fill" /\ WriterLeaves(w) /\ note' = [note EXCEPT ![p] = "whole"]
      /\ created' = [created EXCEPT ![p] = stamp[w]]
      /\ born' = [born EXCEPT ![p] = IF @ = 0 THEN stamp[w] ELSE @]
      /\ UNCHANGED <<stamps, broken>>
  BY DEF Fill
<1>3. p \in Paths /\ stamp[w] \in Nat
  BY <1>1, <1>2 DEF WritersTyped
<1>4. /\ writing' \in [Writers -> WriteSteps] /\ writing'[w] = "idle"
      /\ path' \in [Writers -> Paths \cup {NoPath}] /\ path'[w] = NoPath
      /\ stamp' \in [Writers -> Nat]
      /\ \A v \in Writers \ {w} :
            writing'[v] = writing[v] /\ path'[v] = path[v] /\ stamp'[v] = stamp[v]
  BY <1>1, <1>2, WriterLeavesFacts
<1>5. /\ note' \in [Paths -> {"absent", "torn", "whole", "foreign"}] /\ note'[p] = "whole"
      /\ \A q \in Paths \ {p} : note'[q] = note[q]
  BY <1>1, <1>2, <1>3 DEF WritersTyped
<1>6. /\ created' \in [Paths -> Nat] /\ created'[p] = stamp[w]
      /\ \A q \in Paths \ {p} : created'[q] = created[q]
  BY <1>1, <1>2, <1>3 DEF WritersTyped
<1>7. /\ born' \in [Paths -> Nat] /\ born'[p] = IF born[p] = 0 THEN stamp[w] ELSE born[p]
      /\ \A q \in Paths \ {p} : born'[q] = born[q]
  BY <1>1, <1>2, <1>3 DEF WritersTyped
<1>8. \A v \in Writers : writing'[v] = "idle" <=> path'[v] = NoPath
  BY <1>1, <1>4 DEF WritersTyped
<1>9. WritersTyped'
  BY <1>1, <1>2, <1>4, <1>5, <1>6, <1>7, <1>8 DEF WritersTyped
<1>10. AbsentAreUnborn'
  BY <1>5, <1>7 DEF NotesInv, AbsentAreUnborn
<1>11. ASSUME NEW q \in Paths \ broken' PROVE SoundNote(q)'
  <2>1. SoundNote(q)
    BY <1>2 DEF NotesInv
  <2>2. CASE q # p
    <3>1. \A v \in Writers :
             /\ path'[v] = q <=> path[v] = q
             /\ path[v] = q => writing'[v] = writing[v] /\ stamp'[v] = stamp[v]
      BY <1>3, <1>4, <2>2, VaultAssumption
    <3>2. note'[q] = note[q] /\ created'[q] = created[q] /\ born'[q] = born[q]
      BY <1>5, <1>6, <1>7, <2>2
    <3> QED
      BY <2>1, <3>1, <3>2, ElsewhereSound
  <2>3. CASE q = p
    <3>1. \A v \in Writers : path'[v] # q
      BY <1>3, <1>4, <2>1, <2>3, VaultAssumption DEF SoundNote
    <3>2. born[q] \in {0, stamp[w]}
      BY <1>2, <2>1, <2>3 DEF SoundNote
    <3>3. created'[q] = born'[q]
      BY <1>6, <1>7, <2>3, <3>2
    <3> QED
      BY <1>5, <2>3, <3>1, <3>3 DEF SoundNote
  <2> QED
    BY <2>2, <2>3
<1> QED
  BY <1>9, <1>10, <1>11 DEF NotesInv

LEMMA DeleteKeeps ==
    ASSUME NotesInv, NEW p \in Paths, DeleteNote(p)
    PROVE  NotesInv'
<1>1. WritersTyped
  BY DEF NotesInv
<1>2. /\ writing' = [w \in Writers |-> IF writing[w] = "fill" /\ path[w] = p THEN "idle"
                                                                        ELSE writing[w]]
      /\ path' = [w \in Writers |-> IF writing'[w] = "idle" THEN NoPath ELSE path[w]]
      /\ stamp' = [w \in Writers |-> IF writing'[w] = "idle" THEN 0 ELSE stamp[w]]
      /\ note' = [note EXCEPT ![p] = "absent"] /\ created' = [created EXCEPT ![p] = 0]
      /\ born' = [born EXCEPT ![p] = 0]
      /\ broken' = IF AtWork(p) THEN broken \cup {p} ELSE broken \ {p}
      /\ UNCHANGED stamps
  BY DEF DeleteNote
<1>3. writing' \in [Writers -> WriteSteps] /\ stamp' \in [Writers -> Nat]
  BY <1>1, <1>2 DEF WritersTyped, WriteSteps
<1>4. path' \in [Writers -> Paths \cup {NoPath}]
  BY <1>1, <1>2 DEF WritersTyped
<1>5. /\ note' \in [Paths -> {"absent", "torn", "whole", "foreign"}] /\ note'[p] = "absent"
      /\ \A q \in Paths \ {p} : note'[q] = note[q]
  BY <1>1, <1>2 DEF WritersTyped
<1>6. /\ created' \in [Paths -> Nat] /\ born' \in [Paths -> Nat] /\ born'[p] = 0
      /\ \A q \in Paths \ {p} : created'[q] = created[q] /\ born'[q] = born[q]
  BY <1>1, <1>2 DEF WritersTyped
<1>7. \A w \in Writers : writing'[w] = "idle" <=> path'[w] = NoPath
  BY <1>1, <1>2, VaultAssumption DEF WritersTyped
<1>8. WritersTyped'
  BY <1>1, <1>2, <1>3, <1>4, <1>5, <1>6, <1>7 DEF WritersTyped
<1>9. AbsentAreUnborn'
  BY <1>5, <1>6 DEF NotesInv, AbsentAreUnborn
<1>10. \A w \in Writers, q \in Paths \ {p} :
          /\ path'[w] = q <=> path[w] = q
          /\ path[w] = q => writing'[w] = writing[w] /\ stamp'[w] = stamp[w]
  <2> SUFFICES ASSUME NEW w \in Writers, NEW q \in Paths \ {p}
               PROVE  /\ path'[w] = q <=> path[w] = q
                      /\ path[w] = q => writing'[w] = writing[w] /\ stamp'[w] = stamp[w]
    OBVIOUS
  <2>1. path[w] = q => writing[w] # "idle"
    BY <1>1, VaultAssumption DEF WritersTyped
  <2> QED
    BY <1>2, <2>1, VaultAssumption
<1>11. ASSUME NEW q \in Paths \ broken' PROVE SoundNote(q)'
  <2>1. CASE q # p
    <3>1. SoundNote(q)
      BY <1>2, <2>1 DEF NotesInv
    <3>2. note'[q] = note[q] /\ created'[q] = created[q] /\ born'[q] = born[q]
      BY <1>5, <1>6, <2>1
    <3>3. \A w \in Writers :
             /\ path'[w] = q <=> path[w] = q
             /\ path[w] = q => writing'[w] = writing[w] /\ stamp'[w] = stamp[w]
      BY <1>10, <2>1
    <3> QED
      BY <3>1, <3>2, <3>3, ElsewhereSound
  <2>2. CASE q = p
    <3>1. \A w \in Writers : path[w] # q
      BY <1>2, <2>2 DEF AtWork
    <3>2. \A w \in Writers : path'[w] # q
      BY <1>2, <3>1, VaultAssumption
    <3> QED
      BY <1>5, <2>2, <3>2 DEF SoundNote
  <2> QED
    BY <2>1, <2>2
<1> QED
  BY <1>8, <1>9, <1>11 DEF NotesInv

LEMMA EditsKeep ==
    ASSUME NotesInv, NEW p \in Paths, EditByHand(p) \/ Repair(p)
    PROVE  NotesInv'
<1>1. WritersTyped
  BY DEF NotesInv
<1>2. PICK k \in {"whole", "foreign"} :
          note[p] \in {"whole", "foreign"} /\ note' = [note EXCEPT ![p] = k]
  BY DEF EditByHand, Repair
<1>3. UNCHANGED <<created, stamps, writing, path, stamp, born, broken>>
  BY DEF EditByHand, Repair, writer
<1>4. /\ note' \in [Paths -> {"absent", "torn", "whole", "foreign"}] /\ note'[p] = k
      /\ \A q \in Paths \ {p} : note'[q] = note[q]
  BY <1>1, <1>2 DEF WritersTyped
<1>5. WritersTyped'
  BY <1>1, <1>3, <1>4 DEF WritersTyped
<1>6. AbsentAreUnborn'
  BY <1>2, <1>3, <1>4 DEF NotesInv, AbsentAreUnborn
<1>7. ASSUME NEW q \in Paths \ broken' PROVE SoundNote(q)'
  <2>1. SoundNote(q)
    BY <1>3 DEF NotesInv
  <2> QED
    BY <1>2, <1>3, <1>4, <2>1 DEF SoundNote
<1> QED
  BY <1>5, <1>6, <1>7 DEF NotesInv

LEMMA SearchingKeepsNotes ==
    ASSUME NotesInv, UNCHANGED <<vaultFiles, writer, born, broken>>
    PROVE  NotesInv'
  BY DEF vaultFiles, writer, NotesInv, WritersTyped, AbsentAreUnborn, SoundNote

LEMMA NotesInvHolds == VaultSpec => []NotesInv
<1>1. VaultInit => NotesInv
  BY VaultAssumption DEF VaultInit, NotesInv, WritersTyped, AbsentAreUnborn, SoundNote, WriteSteps
<1>2. NotesInv /\ [VaultNext]_vaultVars => NotesInv'
  <2> SUFFICES ASSUME NotesInv, [VaultNext]_vaultVars PROVE NotesInv'
    OBVIOUS
  <2>1. CASE UNCHANGED vaultVars
    BY <2>1, SearchingKeepsNotes DEF vaultVars, vaultFiles, writer
  <2>2. ASSUME NEW p \in Paths, DeleteNote(p) \/ EditByHand(p) \/ Repair(p) PROVE NotesInv'
    BY <2>2, DeleteKeeps, EditsKeep
  <2>3. ASSUME NEW w \in Writers, NEW p \in Paths, Write(w, p) \/ WriteDaily(w, p)
        PROVE  NotesInv'
    BY <2>3, WriteKeeps DEF WriteDaily
  <2>4. ASSUME NEW w \in Writers, Look(w) \/ ReadExisting(w) \/ OpenNote(w) \/ Fill(w)
        PROVE  NotesInv'
    BY <2>4, LookKeeps, ReadKeeps, OpenKeeps, FillKeeps
  <2>5. ASSUME NEW w \in Writers, WriterDies(w) PROVE NotesInv'
    <3>1. /\ writing[w] # "idle" /\ WriterLeaves(w) /\ UNCHANGED <<note, created, stamps, born>>
          /\ broken \subseteq broken' /\ (writing[w] = "fill" => path[w] \in broken')
      BY <2>5 DEF WriterDies, vaultFiles
    <3> QED
      BY <3>1, WriterStops
  <2>6. ASSUME NEW r \in Readers,
               \/ Search(r) \/ ReadNote(r) \/ SearchEnds(r) \/ Answered(r)
               \/ \E p \in Paths : NextNote(r, p)
        PROVE  NotesInv'
    <3>1. UNCHANGED <<vaultFiles, writer, born, broken>>
      BY <2>6 DEF Search, ReadNote, SearchEnds, Answered, NextNote
    <3> QED
      BY <3>1, SearchingKeepsNotes
  <2> QED
    BY <2>1, <2>2, <2>3, <2>4, <2>5, <2>6 DEF VaultNext
<1> QED
  BY <1>1, <1>2, PTL DEF VaultSpec

\* For any number of writers and of notes: a note keeps its first "created", unless two
\* writes of it overlapped, or a delete and a write, or a writer died with it open.
THEOREM FirstCreatedIsKept == VaultSpec => []CreatedIsKept
<1>1. NotesInv => CreatedIsKept
  BY DEF NotesInv, SoundNote, CreatedIsKept
<1> QED
  BY <1>1, NotesInvHolds, PTL

SearchTyped ==
    /\ note \in [Paths -> {"absent", "torn", "whole", "foreign"}]
    /\ listed \in [Readers -> SUBSET Paths] /\ found \in [Readers -> SUBSET Paths]
    /\ steady \in [Readers -> SUBSET Paths]
    /\ phase \in [Readers -> {"idle", "next", "read", "done", "failed"}]
    /\ reading \in [Readers -> Paths \cup {NoPath}]

\* The path that a search is about to read.
InHand(r) == IF phase[r] = "read" THEN {reading[r]} ELSE {}

\* What was there all the time is whole, and is found already, or listed, or in hand;
\* what cannot be read, or is gone from under the search, excuses it.
SoundSearch(r) ==
    /\ phase[r] \in {"next", "read"} =>
          /\ \A p \in steady[r] : note[p] = "whole"
          /\ \A p \in Paths : note[p] = "foreign" => r \in pardoned
          /\ steady[r] \subseteq found[r] \cup listed[r] \cup InHand(r)
    /\ phase[r] = "read" =>
          reading[r] \in Paths /\ (note[reading[r]] = "absent" => r \in pardoned)
    /\ phase[r] = "done" => steady[r] \subseteq found[r]
    /\ phase[r] = "failed" => r \in pardoned

SearchInv == SearchTyped /\ \A r \in Readers : SoundSearch(r)

\* A step of a writer, or of the owner: a note that does not stay whole is no longer
\* steady, and whoever searches while one is deleted or spoilt is excused.
LEMMA FilesMove ==
    ASSUME SearchInv, UNCHANGED search, NEW p \in Paths,
           NEW k \in {"absent", "torn", "whole", "foreign"}, note' = [note EXCEPT ![p] = k],
           pardoned \subseteq pardoned',
           Unsteady(p) \/ (k = "whole" /\ steady' = steady),
           k \in {"absent", "foreign"} => Searching \subseteq pardoned'
    PROVE  SearchInv'
<1>1. UNCHANGED <<listed, found, phase, reading>>
  BY DEF search
<1>2. /\ note' \in [Paths -> {"absent", "torn", "whole", "foreign"}] /\ note'[p] = k
      /\ \A q \in Paths \ {p} : note'[q] = note[q]
  BY DEF SearchInv, SearchTyped
<1>3. /\ steady' \in [Readers -> SUBSET Paths]
      /\ \A r \in Readers : steady'[r] \subseteq steady[r] /\ (p \in steady'[r] => k = "whole")
  <2>1. steady \in [Readers -> SUBSET Paths]
    BY DEF SearchInv, SearchTyped
  <2> QED
    BY <2>1 DEF Unsteady
<1>4. SearchTyped'
  BY <1>1, <1>2, <1>3 DEF SearchInv, SearchTyped
<1>5. ASSUME NEW r \in Readers PROVE SoundSearch(r)'
  <2>1. SoundSearch(r) /\ steady[r] \subseteq Paths
    BY DEF SearchInv, SearchTyped
  <2>2. InHand(r)' = InHand(r)
    BY <1>1 DEF InHand
  <2>3. phase[r] \in {"next", "read"} /\ k \in {"absent", "foreign"} => r \in pardoned'
    BY DEF Searching
  <2>4. CASE phase[r] \in {"next", "read"}
    <3>1. \A q \in steady'[r] : note'[q] = "whole"
      BY <1>2, <1>3, <2>1, <2>4 DEF SoundSearch
    <3>2. \A q \in Paths : note'[q] = "foreign" => r \in pardoned'
      BY <1>2, <2>1, <2>3, <2>4 DEF SoundSearch
    <3>3. steady'[r] \subseteq found[r] \cup listed[r] \cup InHand(r)
      BY <1>3, <2>1, <2>4 DEF SoundSearch
    <3>4. phase[r] = "read" =>
             reading[r] \in Paths /\ (note'[reading[r]] = "absent" => r \in pardoned')
      BY <1>2, <2>1, <2>3 DEF SoundSearch
    <3> QED
      BY <1>1, <2>2, <2>4, <3>1, <3>2, <3>3, <3>4 DEF SoundSearch
  <2>5. CASE phase[r] \notin {"next", "read"}
    BY <1>1, <1>3, <2>1, <2>5 DEF SoundSearch
  <2> QED
    BY <2>4, <2>5
<1> QED
  BY <1>4, <1>5 DEF SearchInv

\* A step of one search says nothing about the others.
LEMMA OneSearch ==
    ASSUME SearchInv, NEW r \in Readers, UNCHANGED note, SearchTyped', SoundSearch(r)',
           \A s \in Readers \ {r} :
               /\ listed'[s] = listed[s] /\ found'[s] = found[s] /\ steady'[s] = steady[s]
               /\ phase'[s] = phase[s] /\ reading'[s] = reading[s]
               /\ s \in pardoned <=> s \in pardoned'
    PROVE  SearchInv'
<1>1. ASSUME NEW s \in Readers \ {r} PROVE SoundSearch(s)'
  <2>1. SoundSearch(s) /\ InHand(s)' = InHand(s)
    BY DEF SearchInv, InHand
  <2>2. /\ listed'[s] = listed[s] /\ found'[s] = found[s] /\ steady'[s] = steady[s]
        /\ phase'[s] = phase[s] /\ reading'[s] = reading[s]
        /\ s \in pardoned <=> s \in pardoned'
    OBVIOUS
  <2>3. phase'[s] \in {"next", "read"} =>
          /\ \A p \in steady'[s] : note'[p] = "whole"
          /\ \A p \in Paths : note'[p] = "foreign" => s \in pardoned'
          /\ steady'[s] \subseteq found'[s] \cup listed'[s] \cup InHand(s)'
    BY <2>1, <2>2 DEF SoundSearch
  <2>4. /\ phase'[s] = "read" =>
              reading'[s] \in Paths /\ (note'[reading'[s]] = "absent" => s \in pardoned')
        /\ phase'[s] = "done" => steady'[s] \subseteq found'[s]
        /\ phase'[s] = "failed" => s \in pardoned'
    BY <2>1, <2>2 DEF SoundSearch
  <2> QED
    BY <2>3, <2>4 DEF SoundSearch
<1> QED
  BY <1>1 DEF SearchInv

LEMMA SearchBegins ==
    ASSUME SearchInv, NEW r \in Readers, Search(r)
    PROVE  SearchInv'
<1>1. SearchTyped
  BY DEF SearchInv
<1>2. /\ phase' = [phase EXCEPT ![r] = "next"]
      /\ listed' = [listed EXCEPT ![r] = {p \in Paths : Exists(p)}]
      /\ found' = [found EXCEPT ![r] = {}]
      /\ steady' = [steady EXCEPT ![r] = {p \in Paths : note[p] = "whole"}]
      /\ UNCHANGED <<note, reading>>
  BY DEF Search, Enter, vaultFiles
<1>3. pardoned' = IF \E p \in Paths : note[p] = "foreign" THEN pardoned \cup {r} ELSE pardoned \ {r}
  BY DEF Search
<1>4. SearchTyped'
  BY <1>1, <1>2 DEF SearchTyped
<1>5. /\ phase'[r] = "next" /\ steady'[r] = {p \in Paths : note[p] = "whole"}
      /\ listed'[r] = {p \in Paths : Exists(p)}
  BY <1>1, <1>2 DEF SearchTyped
<1>6. SoundSearch(r)'
  <2>1. steady'[r] \subseteq listed'[r]
    BY <1>5 DEF Exists
  <2>2. \A p \in Paths : note'[p] = "foreign" => r \in pardoned'
    BY <1>2, <1>3
  <2>3. \A p \in steady'[r] : note'[p] = "whole"
    BY <1>2, <1>5
  <2> QED
    BY <1>5, <2>1, <2>2, <2>3 DEF SoundSearch
<1>7. \A s \in Readers \ {r} :
         /\ listed'[s] = listed[s] /\ found'[s] = found[s] /\ steady'[s] = steady[s]
         /\ phase'[s] = phase[s] /\ reading'[s] = reading[s]
         /\ s \in pardoned <=> s \in pardoned'
  BY <1>1, <1>2, <1>3 DEF SearchTyped
<1> QED
  BY <1>2, <1>4, <1>6, <1>7, OneSearch

LEMMA SearchGoesOn ==
    ASSUME SearchInv, NEW r \in Readers, NEW p \in Paths, NextNote(r, p)
    PROVE  SearchInv'
<1>1. SearchTyped /\ SoundSearch(r)
  BY DEF SearchInv
<1>2. /\ phase[r] = "next" /\ p \in listed[r]
      /\ listed' = [listed EXCEPT ![r] = listed[r] \ {p}]
      /\ UNCHANGED <<note, found, steady, pardoned>>
  BY <1>1 DEF NextNote, vaultFiles, SearchTyped
<1>3. /\ listed' \in [Readers -> SUBSET Paths] /\ listed'[r] = listed[r] \ {p}
      /\ \A s \in Readers \ {r} : listed'[s] = listed[s]
  <2>1. listed \in [Readers -> SUBSET Paths] /\ listed[r] \ {p} \in SUBSET Paths
    BY <1>1 DEF SearchTyped
  <2> QED
    BY <1>2, <2>1
<1>4. /\ \A q \in steady[r] : note[q] = "whole"
      /\ \A q \in Paths : note[q] = "foreign" => r \in pardoned
      /\ steady[r] \subseteq found[r] \cup listed[r] \cup InHand(r)
      /\ InHand(r) = {}
  BY <1>1, <1>2 DEF SoundSearch, InHand
<1>5. CASE Exists(p)
  <2>1. reading' = [reading EXCEPT ![r] = p] /\ phase' = [phase EXCEPT ![r] = "read"]
    BY <1>5 DEF NextNote, Enter
  <2>2. SearchTyped'
    BY <1>1, <1>2, <1>3, <2>1 DEF SearchTyped
  <2>3. phase'[r] = "read" /\ reading'[r] = p
    BY <1>1, <2>1 DEF SearchTyped
  <2>4. InHand(r)' = {p}
    BY <2>3 DEF InHand
  <2>5. steady'[r] \subseteq found'[r] \cup listed'[r] \cup InHand(r)'
    BY <1>2, <1>3, <1>4, <2>4
  <2>6. note'[p] # "absent"
    BY <1>2, <1>5 DEF Exists
  <2>7. SoundSearch(r)'
    BY <1>2, <1>4, <2>3, <2>5, <2>6 DEF SoundSearch
  <2>8. \A s \in Readers \ {r} : phase'[s] = phase[s] /\ reading'[s] = reading[s]
    BY <1>1, <2>1 DEF SearchTyped
  <2> QED
    BY <1>2, <1>3, <2>2, <2>7, <2>8, OneSearch
<1>6. CASE ~Exists(p)
  <2>1. UNCHANGED <<reading, phase>>
    BY <1>6 DEF NextNote
  <2>2. SearchTyped'
    BY <1>1, <1>2, <1>3, <2>1 DEF SearchTyped
  <2>3. p \notin steady[r]
    BY <1>4, <1>6 DEF Exists
  <2>4. steady'[r] \subseteq found'[r] \cup listed'[r] \cup InHand(r)'
    BY <1>2, <1>3, <1>4, <2>3
  <2>5. SoundSearch(r)'
    BY <1>2, <1>4, <2>1, <2>4 DEF SoundSearch
  <2> QED
    BY <1>2, <1>3, <2>1, <2>2, <2>5, OneSearch
<1> QED
  BY <1>5, <1>6

LEMMA SearchReads ==
    ASSUME SearchInv, NEW r \in Readers, ReadNote(r)
    PROVE  SearchInv'
<1>1. SearchTyped /\ SoundSearch(r)
  BY DEF SearchInv
<1> DEFINE p == reading[r]
<1>2. /\ phase[r] = "read" /\ reading' = [reading EXCEPT ![r] = NoPath]
      /\ UNCHANGED <<note, listed, steady, pardoned>>
  BY DEF ReadNote, vaultFiles
<1>3. p \in Paths /\ (note[p] = "absent" => r \in pardoned) /\ (note[p] = "foreign" => r \in pardoned)
  BY <1>1, <1>2 DEF SoundSearch
<1>4. reading' \in [Readers -> Paths \cup {NoPath}] /\ \A s \in Readers \ {r} : reading'[s] = reading[s]
  BY <1>1, <1>2 DEF SearchTyped
<1>5. /\ \A q \in steady[r] : note[q] = "whole"
      /\ \A q \in Paths : note[q] = "foreign" => r \in pardoned
      /\ steady[r] \subseteq found[r] \cup listed[r] \cup {p}
  BY <1>1, <1>2 DEF SoundSearch, InHand
<1>6. CASE note[p] \in {"absent", "foreign"}
  <2>1. phase' = [phase EXCEPT ![r] = "failed"] /\ UNCHANGED found
    BY <1>6 DEF ReadNote, Enter
  <2>2. /\ phase' \in [Readers -> {"idle", "next", "read", "done", "failed"}]
        /\ phase'[r] = "failed" /\ \A s \in Readers \ {r} : phase'[s] = phase[s]
    BY <1>1, <2>1 DEF SearchTyped
  <2>3. SearchTyped'
    BY <1>1, <1>2, <1>4, <2>1, <2>2 DEF SearchTyped
  <2>4. SoundSearch(r)'
    BY <1>2, <1>3, <1>6, <2>2 DEF SoundSearch
  <2> QED
    BY <1>2, <1>4, <2>1, <2>2, <2>3, <2>4, OneSearch
<1>7. CASE note[p] \notin {"absent", "foreign"}
  <2>1. /\ phase' = [phase EXCEPT ![r] = "next"]
        /\ found' = [found EXCEPT ![r] = IF note[p] = "whole" THEN found[r] \cup {p} ELSE found[r]]
    BY <1>1, <1>7 DEF ReadNote, Enter, SearchTyped
  <2>2. /\ phase' \in [Readers -> {"idle", "next", "read", "done", "failed"}]
        /\ phase'[r] = "next" /\ \A s \in Readers \ {r} : phase'[s] = phase[s]
    BY <1>1, <2>1 DEF SearchTyped
  <2>3. /\ found' \in [Readers -> SUBSET Paths]
        /\ found'[r] = IF note[p] = "whole" THEN found[r] \cup {p} ELSE found[r]
        /\ \A s \in Readers \ {r} : found'[s] = found[s]
    <3>1. found \in [Readers -> SUBSET Paths] /\ found[r] \cup {p} \in SUBSET Paths
      BY <1>1, <1>3 DEF SearchTyped
    <3> QED
      BY <2>1, <3>1
  <2>4. SearchTyped'
    BY <1>1, <1>2, <1>4, <2>2, <2>3 DEF SearchTyped
  <2>5. steady'[r] \subseteq found'[r] \cup listed'[r] \cup InHand(r)'
    BY <1>2, <1>5, <2>3
  <2>6. SoundSearch(r)'
    BY <1>2, <1>5, <2>2, <2>5 DEF SoundSearch
  <2> QED
    BY <1>2, <1>4, <2>2, <2>3, <2>4, <2>6, OneSearch
<1> QED
  BY <1>6, <1>7

LEMMA SearchStops ==
    ASSUME SearchInv, NEW r \in Readers, SearchEnds(r) \/ Answered(r)
    PROVE  SearchInv'
<1>1. SearchTyped /\ SoundSearch(r)
  BY DEF SearchInv
<1>2. CASE SearchEnds(r)
  <2>1. /\ phase[r] = "next" /\ listed[r] = {} /\ phase' = [phase EXCEPT ![r] = "done"]
        /\ UNCHANGED <<note, listed, found, reading, steady, pardoned>>
    BY <1>2 DEF SearchEnds, Enter, vaultFiles
  <2>2. /\ phase' \in [Readers -> {"idle", "next", "read", "done", "failed"}]
        /\ phase'[r] = "done" /\ \A s \in Readers \ {r} : phase'[s] = phase[s]
    BY <1>1, <2>1 DEF SearchTyped
  <2>3. SearchTyped'
    BY <1>1, <2>1, <2>2 DEF SearchTyped
  <2>4. steady[r] \subseteq found[r]
    BY <1>1, <2>1 DEF SoundSearch, InHand
  <2>5. SoundSearch(r)'
    BY <2>1, <2>2, <2>4 DEF SoundSearch
  <2> QED
    BY <2>1, <2>2, <2>3, <2>5, OneSearch
<1>3. CASE Answered(r)
  <2>1. /\ phase' = [phase EXCEPT ![r] = "idle"]
        /\ listed' = [listed EXCEPT ![r] = {}] /\ found' = [found EXCEPT ![r] = {}]
        /\ steady' = [steady EXCEPT ![r] = {}] /\ pardoned' = pardoned \ {r}
        /\ UNCHANGED <<note, reading>>
    BY <1>3 DEF Answered, Enter, vaultFiles
  <2>2. SearchTyped'
    BY <1>1, <2>1 DEF SearchTyped
  <2>3. phase'[r] = "idle"
    BY <1>1, <2>1 DEF SearchTyped
  <2>4. SoundSearch(r)'
    BY <2>3 DEF SoundSearch
  <2>5. \A s \in Readers \ {r} :
           /\ listed'[s] = listed[s] /\ found'[s] = found[s] /\ steady'[s] = steady[s]
           /\ phase'[s] = phase[s] /\ reading'[s] = reading[s]
           /\ s \in pardoned <=> s \in pardoned'
    BY <1>1, <2>1 DEF SearchTyped
  <2> QED
    BY <2>1, <2>2, <2>4, <2>5, OneSearch
<1> QED
  BY <1>2, <1>3

LEMMA FilesAndSearch ==
    ASSUME SearchInv, WritersTyped,
           \/ \E p \in Paths : DeleteNote(p) \/ EditByHand(p) \/ Repair(p)
           \/ \E w \in Writers : OpenNote(w) \/ Fill(w)
    PROVE  SearchInv'
<1>1. ASSUME NEW p \in Paths, DeleteNote(p) PROVE SearchInv'
  <2>1. /\ note' = [note EXCEPT ![p] = "absent"] /\ Unsteady(p)
        /\ pardoned' = pardoned \cup Searching /\ UNCHANGED search
    BY <1>1 DEF DeleteNote
  <2> QED
    BY <2>1, FilesMove
<1>2. ASSUME NEW p \in Paths, EditByHand(p) PROVE SearchInv'
  <2>1. /\ note' = [note EXCEPT ![p] = "foreign"] /\ Unsteady(p)
        /\ pardoned' = pardoned \cup Searching /\ UNCHANGED search
    BY <1>2 DEF EditByHand
  <2> QED
    BY <2>1, FilesMove
<1>3. ASSUME NEW p \in Paths, Repair(p) PROVE SearchInv'
  <2>1. note' = [note EXCEPT ![p] = "whole"] /\ UNCHANGED <<search, steady, pardoned>>
    BY <1>3 DEF Repair
  <2> QED
    BY <2>1, FilesMove
<1>4. ASSUME NEW w \in Writers, OpenNote(w) PROVE SearchInv'
  <2>1. path[w] \in Paths
    BY <1>4 DEF WritersTyped, OpenNote
  <2>2. /\ note' = [note EXCEPT ![path[w]] = "torn"] /\ Unsteady(path[w])
        /\ UNCHANGED <<search, pardoned>>
    BY <1>4 DEF OpenNote
  <2> QED
    BY <2>1, <2>2, FilesMove
<1>5. ASSUME NEW w \in Writers, Fill(w) PROVE SearchInv'
  <2>1. path[w] \in Paths
    BY <1>5 DEF WritersTyped, Fill
  <2>2. note' = [note EXCEPT ![path[w]] = "whole"] /\ UNCHANGED <<search, steady, pardoned>>
    BY <1>5 DEF Fill
  <2> QED
    BY <2>1, <2>2, FilesMove
<1> QED
  BY <1>1, <1>2, <1>3, <1>4, <1>5

\* For any number of writers, searches and notes: a search finds every note that was
\* there, whole, all the time it ran, and it fails only if there was a note it cannot
\* read or one was deleted.
THEOREM EverySearchIsComplete == VaultSpec => []SearchesAreComplete
<1>1. VaultInit => SearchInv
  BY DEF VaultInit, SearchInv, SearchTyped, SoundSearch
<1>2. SearchInv /\ NotesInv /\ [VaultNext]_vaultVars => SearchInv'
  <2> SUFFICES ASSUME SearchInv, NotesInv, [VaultNext]_vaultVars PROVE SearchInv'
    OBVIOUS
  <2>0. WritersTyped
    BY DEF NotesInv
  <2>1. ASSUME UNCHANGED <<note, search, steady, pardoned>> PROVE SearchInv'
    BY <2>1 DEF search, SearchInv, SearchTyped, SoundSearch, InHand
  <2>2. CASE UNCHANGED vaultVars
    BY <2>1, <2>2 DEF vaultVars, search
  <2>3. CASE \/ \E p \in Paths : DeleteNote(p) \/ EditByHand(p) \/ Repair(p)
             \/ \E w \in Writers : OpenNote(w) \/ Fill(w)
    BY <2>0, <2>3, FilesAndSearch
  <2>4. ASSUME NEW w \in Writers,
               \/ \E p \in Paths : Write(w, p) \/ WriteDaily(w, p)
               \/ Look(w) \/ ReadExisting(w) \/ WriterDies(w)
        PROVE  SearchInv'
    BY <2>1, <2>4 DEF Write, WriteDaily, Look, ReadExisting, WriterDies, vaultFiles
  <2>5. ASSUME NEW r \in Readers,
               \/ Search(r) \/ ReadNote(r) \/ SearchEnds(r) \/ Answered(r)
               \/ \E p \in Paths : NextNote(r, p)
        PROVE  SearchInv'
    BY <2>5, SearchBegins, SearchReads, SearchStops, SearchGoesOn
  <2> QED
    BY <2>2, <2>3, <2>4, <2>5 DEF VaultNext
<1>3. SearchInv => SearchesAreComplete
  BY DEF SearchInv, SoundSearch, SearchesAreComplete
<1> QED
  BY <1>1, <1>2, <1>3, NotesInvHolds, PTL DEF VaultSpec

----------------------------------------------------------------------------
(* The connection to Redis and the context window                          *)

HotSteps == {"idle", "error", "refused", "check", "lock", "connect", "use", "trim", "expire"}
Pushing == {"trim", "expire"}

HotTyped ==
    /\ up \in BOOLEAN /\ client \in BOOLEAN /\ connected \in BOOLEAN /\ size \in Nat
    /\ lives \in BOOLEAN /\ cut \in BOOLEAN
    /\ step \in [Users -> HotSteps] /\ calm \in [Users -> BOOLEAN] /\ clean \in [Users -> BOOLEAN]

\* A call that no outage has met has Redis, and a client once it is past the test.
CalmCallsGoOn ==
    \A u \in Users : calm[u] =>
        up /\ step[u] # "error" /\ (step[u] \in {"use"} \cup Pushing => client)

\* What is too long will be trimmed, also after a push that was cut short if a push
\* that began later has trimmed the window.
LongIsTrimmed ==
    (~cut \/ \E u \in Users : clean[u] /\ step[u] = "expire")
        => size <= MaxSize \/ \E u \in Users : step[u] = "trim"

\* What has no time to live will get one.
WindowWillExpire == ~cut => (size > 0 => lives) \/ \E u \in Users : step[u] \in Pushing

HotInv == HotTyped /\ CalmCallsGoOn /\ LongIsTrimmed /\ WindowWillExpire

LEMMA UserSteps ==
    ASSUME HotTyped, NEW u \in Users, NEW s \in HotSteps, step' = [step EXCEPT ![u] = s]
    PROVE  /\ step' \in [Users -> HotSteps] /\ step'[u] = s
           /\ \A v \in Users \ {u} : step'[v] = step[v]
  BY DEF HotTyped

SameOrNoWindow == (size' = size /\ lives' = lives) \/ (size' = 0 /\ lives' = FALSE)

\* A step of one call that leaves the window alone, or removes it.
LEMMA CallGoesOn ==
    ASSUME HotInv, NEW u \in Users, step[u] \notin Pushing,
           NEW s \in HotSteps \ Pushing, step' = [step EXCEPT ![u] = s],
           UNCHANGED <<up, cut, clean>>, client' \in BOOLEAN, connected' \in BOOLEAN,
           client => client', SameOrNoWindow,
           calm' \in [Users -> BOOLEAN], \A v \in Users \ {u} : calm'[v] = calm[v],
           calm'[u] => up /\ s # "error" /\ (s = "use" => client')
    PROVE  HotInv'
<1>1. HotTyped
  BY DEF HotInv
<1>2. /\ step' \in [Users -> HotSteps] /\ step'[u] = s
      /\ \A v \in Users \ {u} : step'[v] = step[v]
  BY <1>1, UserSteps
<1>3. size \in Nat /\ 0 \in Nat /\ lives \in BOOLEAN
  BY <1>1 DEF HotTyped
<1>4. size' \in Nat /\ lives' \in BOOLEAN
  BY <1>3 DEF SameOrNoWindow
<1>5. HotTyped'
  BY <1>1, <1>2, <1>4 DEF HotTyped
<1>6. CalmCallsGoOn'
  <2> SUFFICES ASSUME NEW v \in Users, calm'[v]
               PROVE  up' /\ step'[v] # "error" /\ (step'[v] \in {"use"} \cup Pushing => client')
    BY DEF CalmCallsGoOn
  <2>1. CASE v = u
    BY <1>2, <2>1
  <2>2. CASE v # u
    BY <1>2, <2>2 DEF HotInv, CalmCallsGoOn
  <2> QED
    BY <2>1, <2>2
<1>7. \A v \in Users : step'[v] \in Pushing <=> step[v] \in Pushing
  BY <1>2
<1>8. \A v \in Users : (step'[v] = "trim" <=> step[v] = "trim") /\ (step'[v] = "expire" <=> step[v] = "expire")
  BY <1>2 DEF Pushing
<1>9. size <= MaxSize => size' <= MaxSize
  BY <1>3, HotAssumption DEF SameOrNoWindow
<1>10. LongIsTrimmed'
  BY <1>8, <1>9 DEF HotInv, LongIsTrimmed
<1>11. (size > 0 => lives) => (size' > 0 => lives')
  BY <1>3 DEF SameOrNoWindow
<1>12. WindowWillExpire'
  BY <1>7, <1>11 DEF HotInv, WindowWillExpire
<1> QED
  BY <1>5, <1>6, <1>10, <1>12 DEF HotInv

\* An outage or a disconnect, after which no call is calm; or nothing of what the
\* properties speak of.
LEMMA WorldMoves ==
    ASSUME HotInv, UNCHANGED <<step, cut, clean>>,
           up' \in BOOLEAN, client' \in BOOLEAN, connected' \in BOOLEAN,
           \/ up' = up /\ client' = client /\ calm' = calm
           \/ calm' = [u \in Users |-> FALSE]
           \/ up' = TRUE /\ client' = client /\ calm' = calm,
           SameOrNoWindow
    PROVE  HotInv'
<1>1. HotTyped
  BY DEF HotInv
<1>2. size \in Nat /\ 0 \in Nat /\ lives \in BOOLEAN
  BY <1>1 DEF HotTyped
<1>3. size' \in Nat /\ lives' \in BOOLEAN
  BY <1>2 DEF SameOrNoWindow
<1>4. calm' \in [Users -> BOOLEAN]
  BY <1>1 DEF HotTyped
<1>5. HotTyped'
  BY <1>1, <1>3, <1>4 DEF HotTyped
<1>6. CalmCallsGoOn'
  BY DEF HotInv, CalmCallsGoOn
<1>7. (size <= MaxSize => size' <= MaxSize) /\ ((size > 0 => lives) => (size' > 0 => lives'))
  BY <1>2, HotAssumption DEF SameOrNoWindow
<1>8. LongIsTrimmed'
  BY <1>7 DEF HotInv, LongIsTrimmed
<1>9. WindowWillExpire'
  BY <1>7 DEF HotInv, WindowWillExpire
<1> QED
  BY <1>5, <1>6, <1>8, <1>9 DEF HotInv

\* A push that is cut short makes no claim on the window, and unmakes every other one.
LEMMA PushIsCut ==
    ASSUME HotInv, NEW u \in Users, step[u] \in {"use"} \cup Pushing, Fails, CutShort(u),
           UNCHANGED <<up, client, connected>>, size' \in Nat, lives' \in BOOLEAN
    PROVE  HotInv'
<1>1. HotTyped
  BY DEF HotInv
<1>2. /\ step' = [step EXCEPT ![u] = "error"] /\ calm' = calm /\ cut' = TRUE
      /\ clean' = [v \in Users |-> FALSE]
  BY DEF CutShort, Error, UserGoes
<1>3. /\ step' \in [Users -> HotSteps] /\ step'[u] = "error"
      /\ \A v \in Users \ {u} : step'[v] = step[v]
  BY <1>1, <1>2, UserSteps DEF HotSteps
<1>4. ~calm[u]
  BY DEF HotInv, CalmCallsGoOn, Fails
<1>5. HotTyped'
  BY <1>1, <1>2, <1>3 DEF HotTyped
<1>6. CalmCallsGoOn'
  BY <1>2, <1>3, <1>4 DEF HotInv, CalmCallsGoOn
<1>7. LongIsTrimmed' /\ WindowWillExpire'
  BY <1>2 DEF LongIsTrimmed, WindowWillExpire
<1> QED
  BY <1>5, <1>6, <1>7 DEF HotInv

LEMMA ConnectionKeeps ==
    ASSUME HotInv, NEW u \in Users, EnsureConnected(u) \/ TakeLock(u) \/ Connect(u)
    PROVE  HotInv'
<1>1. /\ up \in BOOLEAN /\ client \in BOOLEAN /\ connected \in BOOLEAN
      /\ step \in [Users -> HotSteps] /\ calm \in [Users -> BOOLEAN]
  BY DEF HotInv, HotTyped
<1>2. calm[u] => up /\ (step[u] = "use" => client)
  BY DEF HotInv, CalmCallsGoOn
<1>3. UNCHANGED <<up, cut, clean, size, lives, calm>>
  BY DEF EnsureConnected, TakeLock, Connect, push, UserGoes, Error
<1>a. /\ SameOrNoWindow /\ calm' \in [Users -> BOOLEAN]
      /\ \A v \in Users \ {u} : calm'[v] = calm[v]
  BY <1>1, <1>3 DEF SameOrNoWindow
<1>4. CASE EnsureConnected(u)
  <2>1. step[u] = "check" /\ client' = client /\ connected' \in {connected, FALSE}
    BY <1>4 DEF EnsureConnected
  <2>2. PICK s \in {"use", "lock", "error"} :
            /\ step' = [step EXCEPT ![u] = s]
            /\ s = "use" => client
            /\ s = "error" => ~up
    BY <1>4 DEF EnsureConnected, UserGoes, Error
  <2>3. s \in HotSteps \ Pushing /\ step[u] \notin Pushing
    BY <2>1 DEF HotSteps, Pushing
  <2>4. client' \in BOOLEAN /\ connected' \in BOOLEAN /\ (client => client')
    BY <1>1, <2>1
  <2>5. calm'[u] => up /\ s # "error" /\ (s = "use" => client')
    BY <1>2, <1>3, <2>1, <2>2
  <2> QED
    BY <1>3, <1>a, <2>2, <2>3, <2>4, <2>5, CallGoesOn
<1>5. CASE TakeLock(u)
  <2>1. /\ step[u] = "lock" /\ step' = [step EXCEPT ![u] = "connect"]
        /\ UNCHANGED <<client, connected>>
    BY <1>5 DEF TakeLock, UserGoes
  <2>2. "connect" \in HotSteps \ Pushing /\ step[u] \notin Pushing
    BY <2>1 DEF HotSteps, Pushing
  <2>3. client' \in BOOLEAN /\ connected' \in BOOLEAN /\ (client => client')
    BY <1>1, <2>1
  <2> QED
    BY <1>2, <1>3, <1>a, <2>1, <2>2, <2>3, CallGoesOn
<1>6. CASE Connect(u)
  <2>1. step[u] = "connect" /\ client' = TRUE /\ connected' \in {TRUE, FALSE, connected}
    BY <1>6 DEF Connect
  <2>2. PICK s \in {"use", "connect", "error"} :
            /\ step' = [step EXCEPT ![u] = s]
            /\ s = "error" => ~up
    <3>1. step' = step => step' = [step EXCEPT ![u] = "connect"]
      BY <1>1, <2>1
    <3> QED
      BY <1>6, <3>1 DEF Connect, UserGoes, Error
  <2>3. s \in HotSteps \ Pushing /\ step[u] \notin Pushing
    BY <2>1 DEF HotSteps, Pushing
  <2>4. client' \in BOOLEAN /\ connected' \in BOOLEAN /\ (client => client')
    BY <1>1, <2>1
  <2>5. calm'[u] => up /\ s # "error" /\ (s = "use" => client')
    BY <1>2, <1>3, <2>1, <2>2
  <2> QED
    BY <1>3, <1>a, <2>2, <2>3, <2>4, <2>5, CallGoesOn
<1> QED
  BY <1>4, <1>5, <1>6

LEMMA LpushKeeps ==
    ASSUME HotInv, NEW u \in Users, NEW n \in 0 .. 2, Lpush(u, n)
    PROVE  HotInv'
<1>1. HotTyped
  BY DEF HotInv
<1>2. /\ step[u] = "use" /\ size' = size + n /\ UNCHANGED <<up, client, connected, lives>>
  BY DEF Lpush, connection
<1>3. size' \in Nat /\ lives' \in BOOLEAN
  BY <1>1, <1>2 DEF HotTyped
<1>4. CASE Fails /\ n > 0 /\ CutShort(u)
  BY <1>2, <1>3, <1>4, PushIsCut
<1>5. CASE Fails /\ n = 0 /\ Error(u) /\ UNCHANGED push
  <2>1. /\ step' = [step EXCEPT ![u] = "error"] /\ UNCHANGED <<calm, cut, clean>>
    BY <1>5 DEF Error, UserGoes, push
  <2>2. size' = size
    BY <1>1, <1>2, <1>5 DEF HotTyped
  <2>3. ~calm[u]
    BY <1>2, <1>5 DEF HotInv, CalmCallsGoOn, Fails
  <2>4. /\ "error" \in HotSteps \ Pushing /\ step[u] \notin Pushing
    BY <1>2 DEF HotSteps, Pushing
  <2>5. /\ calm' \in [Users -> BOOLEAN] /\ client' \in BOOLEAN /\ connected' \in BOOLEAN
        /\ SameOrNoWindow
    BY <1>1, <1>2, <2>1, <2>2 DEF HotTyped, SameOrNoWindow
  <2> QED
    BY <1>2, <2>1, <2>3, <2>4, <2>5, CallGoesOn
<1>6. CASE ~Fails /\ n > 0 /\ UserGoes(u, "trim") /\ clean' = [clean EXCEPT ![u] = TRUE]
           /\ UNCHANGED cut
  <2>1. step' = [step EXCEPT ![u] = "trim"] /\ calm' = calm
    BY <1>6 DEF UserGoes
  <2>2. /\ step' \in [Users -> HotSteps] /\ step'[u] = "trim"
        /\ \A v \in Users \ {u} : step'[v] = step[v]
    BY <1>1, <2>1, UserSteps DEF HotSteps
  <2>3. clean' \in [Users -> BOOLEAN]
    BY <1>1, <1>6 DEF HotTyped
  <2>4. HotTyped'
    BY <1>1, <1>2, <1>3, <1>6, <2>1, <2>2, <2>3 DEF HotTyped
  <2>5. CalmCallsGoOn'
    BY <1>2, <1>6, <2>1, <2>2 DEF HotInv, CalmCallsGoOn, Fails
  <2>6. LongIsTrimmed' /\ WindowWillExpire'
    BY <2>2 DEF LongIsTrimmed, WindowWillExpire, Pushing
  <2> QED
    BY <2>4, <2>5, <2>6 DEF HotInv
<1> QED
  BY <1>4, <1>5, <1>6 DEF Lpush

LEMMA LtrimKeeps ==
    ASSUME HotInv, NEW u \in Users, Ltrim(u)
    PROVE  HotInv'
<1>1. HotTyped
  BY DEF HotInv
<1>2. step[u] = "trim" /\ UNCHANGED <<up, client, connected, lives>>
  BY DEF Ltrim, connection
<1>3. Trimmed \in Nat /\ Trimmed <= MaxSize /\ (Trimmed > 0 => size > 0)
  <2>1. size \in Nat
    BY <1>1 DEF HotTyped
  <2> QED
    BY <2>1, HotAssumption DEF Trimmed
<1>4. CASE Fails /\ CutShort(u) /\ size' \in AfterLoss(size, Trimmed)
  <2>1. size' \in Nat /\ lives' \in BOOLEAN
    BY <1>1, <1>2, <1>3, <1>4 DEF HotTyped, AfterLoss
  <2> QED
    BY <1>2, <1>4, <2>1, PushIsCut DEF Pushing
<1>5. CASE ~Fails /\ UserGoes(u, "expire") /\ size' = Trimmed /\ UNCHANGED push
  <2>1. step' = [step EXCEPT ![u] = "expire"] /\ UNCHANGED <<calm, cut, clean>>
    BY <1>5 DEF UserGoes, push
  <2>2. /\ step' \in [Users -> HotSteps] /\ step'[u] = "expire"
        /\ \A v \in Users \ {u} : step'[v] = step[v]
    BY <1>1, <2>1, UserSteps DEF HotSteps
  <2>3. HotTyped'
    BY <1>1, <1>2, <1>3, <1>5, <2>1, <2>2 DEF HotTyped
  <2>4. CalmCallsGoOn'
    BY <1>2, <1>5, <2>1, <2>2 DEF HotInv, CalmCallsGoOn, Fails
  <2>5. LongIsTrimmed'
    BY <1>3, <1>5 DEF LongIsTrimmed
  <2>6. WindowWillExpire'
    BY <2>2 DEF WindowWillExpire, Pushing
  <2> QED
    BY <2>3, <2>4, <2>5, <2>6 DEF HotInv
<1> QED
  BY <1>4, <1>5 DEF Ltrim

LEMMA ExpireKeeps ==
    ASSUME HotInv, NEW u \in Users, ExpireWindow(u)
    PROVE  HotInv'
<1>1. HotTyped
  BY DEF HotInv
<1>2. step[u] = "expire" /\ UNCHANGED <<up, client, connected, size>>
  BY DEF ExpireWindow, connection
<1>3. CASE Fails /\ CutShort(u) /\ lives' \in AfterLoss(lives, size > 0)
  <2>1. size' \in Nat /\ lives' \in BOOLEAN
    <3>1. lives \in BOOLEAN /\ (size > 0) \in BOOLEAN /\ size \in Nat
      BY <1>1 DEF HotTyped
    <3>2. lives' = lives \/ lives' = (size > 0)
      BY <1>3 DEF AfterLoss
    <3> QED
      BY <1>2, <3>1, <3>2
  <2> QED
    BY <1>2, <1>3, <2>1, PushIsCut DEF Pushing
<1>4. CASE /\ ~Fails /\ Done(u) /\ lives' = (size > 0)
           /\ cut' = (cut /\ ~clean[u]) /\ clean' = [clean EXCEPT ![u] = FALSE]
  <2>1. step' = [step EXCEPT ![u] = "idle"] /\ calm' = [calm EXCEPT ![u] = FALSE]
    BY <1>4 DEF Done
  <2>2. /\ step' \in [Users -> HotSteps] /\ step'[u] = "idle"
        /\ \A v \in Users \ {u} : step'[v] = step[v]
    BY <1>1, <2>1, UserSteps DEF HotSteps
  <2>3. /\ calm' \in [Users -> BOOLEAN] /\ ~calm'[u]
        /\ \A v \in Users \ {u} : calm'[v] = calm[v]
    BY <1>1, <2>1 DEF HotTyped
  <2>4. /\ clean' \in [Users -> BOOLEAN] /\ ~clean'[u]
        /\ \A v \in Users \ {u} : clean'[v] = clean[v]
    BY <1>1, <1>4 DEF HotTyped
  <2>5. lives' \in BOOLEAN /\ cut' \in BOOLEAN
    BY <1>1, <1>4 DEF HotTyped
  <2>6. HotTyped'
    BY <1>1, <1>2, <2>2, <2>3, <2>4, <2>5 DEF HotTyped
  <2>7. CalmCallsGoOn'
    <3> SUFFICES ASSUME NEW v \in Users, calm'[v]
                 PROVE  up' /\ step'[v] # "error" /\ (step'[v] \in {"use"} \cup Pushing => client')
      BY DEF CalmCallsGoOn
    <3>1. v # u
      BY <2>3
    <3> QED
      BY <1>2, <2>2, <2>3, <3>1 DEF HotInv, CalmCallsGoOn
  <2>8. LongIsTrimmed'
    <3> SUFFICES ASSUME ~cut' \/ \E v \in Users : clean'[v] /\ step'[v] = "expire"
                 PROVE  size' <= MaxSize \/ \E v \in Users : step'[v] = "trim"
      BY DEF LongIsTrimmed
    <3>1. ~cut \/ \E v \in Users : clean[v] /\ step[v] = "expire"
      <4>1. ~cut' => ~cut \/ clean[u]
        BY <1>4
      <4>2. ASSUME NEW v \in Users, clean'[v], step'[v] = "expire"
            PROVE  clean[v] /\ step[v] = "expire"
        BY <2>2, <2>4, <4>2
      <4> QED
        BY <1>2, <4>1, <4>2
    <3>2. size <= MaxSize \/ \E v \in Users : step[v] = "trim"
      BY <3>1 DEF HotInv, LongIsTrimmed
    <3>3. \A v \in Users : step[v] = "trim" => step'[v] = "trim"
      BY <1>2, <2>2
    <3> QED
      BY <1>2, <3>2, <3>3
  <2>9. WindowWillExpire'
    BY <1>2, <1>4 DEF WindowWillExpire
  <2> QED
    BY <2>6, <2>7, <2>8, <2>9 DEF HotInv
<1> QED
  BY <1>3, <1>4 DEF ExpireWindow

\* What ends a call that is no push: an answer, an error, or an entry that is refused.
LEMMA CallEnds ==
    ASSUME HotInv, NEW u \in Users, step[u] = "use",
           \/ Done(u) \/ UserGoes(u, "refused")
           \/ Fails /\ Error(u),
           UNCHANGED <<up, client, connected, cut, clean>>, SameOrNoWindow
    PROVE  HotInv'
<1>1. /\ client \in BOOLEAN /\ connected \in BOOLEAN /\ calm \in [Users -> BOOLEAN]
  BY DEF HotInv, HotTyped
<1>2. calm[u] => up /\ client
  BY DEF HotInv, CalmCallsGoOn
<1>3. PICK s \in {"idle", "refused", "error"} :
          /\ step' = [step EXCEPT ![u] = s]
          /\ s = "error" => Fails
          /\ calm' \in {calm, [calm EXCEPT ![u] = FALSE]}
  BY DEF Done, UserGoes, Error
<1>4. /\ calm' \in [Users -> BOOLEAN] /\ \A v \in Users \ {u} : calm'[v] = calm[v]
      /\ calm'[u] => calm[u]
  BY <1>1, <1>3
<1>5. s \in HotSteps \ Pushing /\ step[u] \notin Pushing
  BY DEF HotSteps, Pushing
<1>6. calm'[u] => up /\ s # "error" /\ (s = "use" => client')
  BY <1>2, <1>3, <1>4 DEF Fails
<1> QED
  BY <1>1, <1>3, <1>4, <1>5, <1>6, CallGoesOn

LEMMA CommandsKeep ==
    ASSUME HotInv, NEW u \in Users,
           \/ ReadContext(u) \/ ClearContext(u)
           \/ \E kind \in Kinds : PutEntry(u, kind) \/ GetEntry(u, kind)
    PROVE  HotInv'
<1>1. step[u] = "use" /\ UNCHANGED <<up, client, connected, cut, clean>>
  BY DEF ReadContext, ClearContext, PutEntry, GetEntry, connection, push
<1>2. Done(u) \/ UserGoes(u, "refused") \/ (Fails /\ Error(u))
  BY DEF ReadContext, ClearContext, PutEntry, GetEntry
<1>3. SameOrNoWindow
  <2>1. CASE ClearContext(u)
    <3>1. CASE \E w \in AfterLoss(<<size, lives>>, <<0, FALSE>>) : size' = w[1] /\ lives' = w[2]
      <4>1. PICK w \in {<<size, lives>>, <<0, FALSE>>} : size' = w[1] /\ lives' = w[2]
        BY <3>1 DEF AfterLoss
      <4>2. w = <<size, lives>> => size' = size /\ lives' = lives
        BY <4>1
      <4>3. w = <<0, FALSE>> => size' = 0 /\ lives' = FALSE
        <5>1. ASSUME w = <<0, FALSE>> PROVE size' = <<0, FALSE>>[1] /\ lives' = <<0, FALSE>>[2]
          BY <4>1, <5>1
        <5>2. <<0, FALSE>>[1] = 0 /\ <<0, FALSE>>[2] = FALSE
          OBVIOUS
        <5> QED
          BY <5>1, <5>2
      <4> QED
        BY <4>1, <4>2, <4>3 DEF SameOrNoWindow
    <3>2. CASE size' = 0 /\ lives' = FALSE
      BY <3>2 DEF SameOrNoWindow
    <3> QED
      BY <2>1, <3>1, <3>2 DEF ClearContext
  <2>2. CASE ReadContext(u) \/ \E kind \in Kinds : PutEntry(u, kind) \/ GetEntry(u, kind)
    BY <2>2 DEF ReadContext, PutEntry, GetEntry, SameOrNoWindow
  <2> QED
    BY <2>1, <2>2
<1> QED
  BY <1>1, <1>2, <1>3, CallEnds

LEMMA BeginCallKeeps ==
    ASSUME HotInv, NEW u \in Users, NEW o \in Ops, BeginCall(u, o)
    PROVE  HotInv'
<1>1. /\ client \in BOOLEAN /\ connected \in BOOLEAN /\ calm \in [Users -> BOOLEAN] /\ up \in BOOLEAN
  BY DEF HotInv, HotTyped
<1>2. /\ AtRest(u) /\ step' = [step EXCEPT ![u] = "check"] /\ calm' = [calm EXCEPT ![u] = up]
      /\ UNCHANGED <<up, client, connected, cut, clean, size, lives>>
  BY DEF BeginCall, connection, push
<1>3. /\ calm' \in [Users -> BOOLEAN] /\ \A v \in Users \ {u} : calm'[v] = calm[v]
      /\ calm'[u] => up
  BY <1>1, <1>2
<1>4. "check" \in HotSteps \ Pushing /\ step[u] \notin Pushing
  BY <1>2 DEF AtRest, HotSteps, Pushing
<1>5. SameOrNoWindow
  BY <1>2 DEF SameOrNoWindow
<1> QED
  BY <1>1, <1>2, <1>3, <1>4, <1>5, CallGoesOn

LEMMA WorldKeeps ==
    ASSUME HotInv,
           \/ Outage \/ Recover \/ WindowExpires \/ Disconnect
           \/ \E kind \in Kinds : CachedExpires(kind)
           \/ UNCHANGED hotVars
    PROVE  HotInv'
<1>1. up \in BOOLEAN /\ client \in BOOLEAN /\ connected \in BOOLEAN
  BY DEF HotInv, HotTyped
<1>2. UNCHANGED <<step, cut, clean>>
  BY DEF Outage, Recover, WindowExpires, Disconnect, CachedExpires, hotVars, push
<1>3. SameOrNoWindow
  BY DEF Outage, Recover, WindowExpires, Disconnect, CachedExpires, hotVars, SameOrNoWindow
<1>4. up' \in BOOLEAN /\ client' \in BOOLEAN /\ connected' \in BOOLEAN
  BY <1>1 DEF Outage, Recover, WindowExpires, Disconnect, CachedExpires, hotVars, connection
<1>5. \/ up' = up /\ client' = client /\ calm' = calm
      \/ calm' = [u \in Users |-> FALSE]
      \/ up' = TRUE /\ client' = client /\ calm' = calm
  BY DEF Outage, Recover, WindowExpires, Disconnect, CachedExpires, hotVars, connection
<1> QED
  BY <1>2, <1>3, <1>4, <1>5, WorldMoves

LEMMA HotInvHolds == HotSpec => []HotInv
<1>1. HotInit => HotInv
  <2> SUFFICES ASSUME HotInit PROVE HotInv
    OBVIOUS
  <2>1. HotTyped
    BY DEF HotInit, HotTyped, HotSteps
  <2>2. 0 <= MaxSize /\ ~(0 > 0)
    BY HotAssumption
  <2>3. CalmCallsGoOn
    BY DEF HotInit, CalmCallsGoOn
  <2> QED
    BY <2>1, <2>2, <2>3 DEF HotInit, HotInv, LongIsTrimmed, WindowWillExpire
<1>2. HotInv /\ [HotNext]_hotVars => HotInv'
  <2> SUFFICES ASSUME HotInv, [HotNext]_hotVars PROVE HotInv'
    OBVIOUS
  <2>1. CASE \/ Outage \/ Recover \/ WindowExpires \/ Disconnect
             \/ \E kind \in Kinds : CachedExpires(kind)
             \/ UNCHANGED hotVars
    BY <2>1, WorldKeeps
  <2>2. ASSUME NEW u \in Users, NEW o \in Ops, BeginCall(u, o) PROVE HotInv'
    BY <2>2, BeginCallKeeps
  <2>3. ASSUME NEW u \in Users, EnsureConnected(u) \/ TakeLock(u) \/ Connect(u) PROVE HotInv'
    BY <2>3, ConnectionKeeps
  <2>4. ASSUME NEW u \in Users, NEW n \in 0 .. 2, Lpush(u, n) PROVE HotInv'
    BY <2>4, LpushKeeps
  <2>5. ASSUME NEW u \in Users, Ltrim(u) \/ ExpireWindow(u) PROVE HotInv'
    BY <2>5, LtrimKeeps, ExpireKeeps
  <2>6. ASSUME NEW u \in Users,
               \/ ReadContext(u) \/ ClearContext(u)
               \/ \E kind \in Kinds : PutEntry(u, kind) \/ GetEntry(u, kind)
        PROVE  HotInv'
    BY <2>6, CommandsKeep
  <2> QED
    BY <2>1, <2>2, <2>3, <2>4, <2>5, <2>6 DEF HotNext
<1> QED
  BY <1>1, <1>2, PTL DEF HotSpec

\* For any number of threads, attempts and outages: a call ends in an error only if
\* Redis was away, or the client was disconnected, while it was under way.
THEOREM ConnectRepairs == HotSpec => []OnlyOutagesFail
<1>1. HotInv => OnlyOutagesFail
  BY DEF HotInv, CalmCallsGoOn, OnlyOutagesFail
<1> QED
  BY <1>1, HotInvHolds, PTL

\* For any number of threads and any size of the window: with no push under way or cut
\* short, the window is bounded and will expire.
THEOREM WindowIsBounded == HotSpec => []WindowIsKept
<1>1. HotInv => WindowIsKept
  BY DEF HotInv, LongIsTrimmed, WindowWillExpire, WindowIsKept, Pushing
<1> QED
  BY <1>1, HotInvHolds, PTL
----------------------------------------------------------------------------
(* The embedding providers                                                 *)

\* The vectors of the first provider, until one has refused.
SoundVectors == {v \in Vectors : refusals = 0 => v.from = 1}

ProviderTyped ==
    /\ answering \subseteq Providers /\ refusals \in Nat
    /\ memory \in Seq(SoundVectors)
    /\ unified \in [Texts -> SUBSET SoundVectors]
    /\ doing \in [Embedders -> Resting \cup {"look up", "ask", "store", "enter"}]
    /\ texts \in [Embedders -> Seq(Texts)]
    /\ results \in [Embedders -> Seq(SoundVectors \cup {NoVector})]
    /\ uncached \in [Embedders -> Seq(Nat)] /\ next \in [Embedders -> Nat]
    /\ fresh \in [Embedders -> Seq(SoundVectors)]
    /\ evicting \in [Embedders -> Vectors \cup {NoVector}]
    /\ excused \subseteq Embedders

\* The text has its own vector, or waits for it.
Served(c, i) == results[c][i] # NoVector /\ results[c][i].text = texts[c][i]
Waits(c, i, from) == \E k \in from .. Len(uncached[c]) : uncached[c][k] = i

\* Where the call stands: what of its batch is served, what waits, and what came for it.
CallStands(c) ==
    /\ Len(results[c]) = Len(texts[c])
    /\ doing[c] = "look up" =>
         /\ next[c] \in 1 .. Len(texts[c]) + 1
         /\ \A i \in 1 .. next[c] - 1 : Served(c, i) \/ Waits(c, i, 1)
    /\ doing[c] \in {"ask", "store"} =>
         \A i \in 1 .. Len(texts[c]) : Served(c, i) \/ Waits(c, i, 1)
    /\ doing[c] = "enter" =>
         /\ fresh[c] # <<>>
         /\ \A i \in 1 .. Len(texts[c]) : Served(c, i) \/ Waits(c, i, 2)
    /\ doing[c] = "done" => \A i \in 1 .. Len(texts[c]) : Served(c, i)
    /\ doing[c] \notin Resting =>
         \A k \in 1 .. Len(uncached[c]) : uncached[c][k] \in 1 .. Len(texts[c])
    /\ doing[c] \in {"store", "enter"} =>
         /\ Len(fresh[c]) = Len(uncached[c])
         /\ \A k \in 1 .. Len(fresh[c]) : fresh[c][k].text = texts[c][uncached[c][k]]

\* A call without an excuse is alone, and what it will delete is there.
IsAlone(c) ==
    c \notin excused =>
        /\ doing[c] # "failed"
        /\ doing[c] \notin Resting => \A d \in Embedders \ {c} : doing[d] \in Resting
        /\ evicting[c] # NoVector => InMemory(evicting[c].text) # {}

ProviderInv ==
    /\ ProviderTyped
    /\ refusals = 0 => answering = Providers
    /\ \A t \in Texts : \A w \in unified[t] : w.text = t
    /\ \A c \in Embedders :
         /\ CallStands(c) /\ IsAlone(c)
         /\ doing[c] = "ask" /\ refusals = 0 => next[c] = 1
         /\ evicting[c] # NoVector => doing[c] = "enter"

\* An update in place and an addition at the end keep a sequence in its set, and so does
\* the removal of one element.
LEMMA PutKeeps ==
    ASSUME NEW S, NEW m \in Seq(S), NEW v \in S
    PROVE  Put(m, v) \in Seq(S)
<1>1. CASE \E i \in DOMAIN m : m[i].text = v.text
  <2>1. Put(m, v) = [i \in 1 .. Len(m) |-> IF m[i].text = v.text THEN v ELSE m[i]]
    <3>1. Put(m, v) = [i \in DOMAIN m |-> IF m[i].text = v.text THEN v ELSE m[i]]
      BY ONLY <1>1 DEF Put
    <3>2. DOMAIN m = 1 .. Len(m)
      OBVIOUS
    <3> QED
      BY ONLY <3>1, <3>2
  <2>2. \A i \in 1 .. Len(m) : (IF m[i].text = v.text THEN v ELSE m[i]) \in S
    OBVIOUS
  <2> QED
    BY <2>1, <2>2
<1>2. CASE ~ \E i \in DOMAIN m : m[i].text = v.text
  BY <1>2 DEF Put
<1> QED
  BY <1>1, <1>2

LEMMA WithoutKeeps ==
    ASSUME NEW S, NEW m \in Seq(S), NEW t, \E i \in DOMAIN m : m[i].text = t
    PROVE  Without(m, t) \in Seq(S)
<1> DEFINE i == CHOOSE i \in DOMAIN m : m[i].text = t
<1>1. i \in 1 .. Len(m)
  OBVIOUS
<1>2. Without(m, t) = SubSeq(m, 1, i - 1) \o SubSeq(m, i + 1, Len(m))
  BY DEF Without, RemoveAt
<1> HIDE DEF i
<1>3. SubSeq(m, 1, i - 1) \in Seq(S) /\ SubSeq(m, i + 1, Len(m)) \in Seq(S)
  BY <1>1
<1> QED
  BY <1>2, <1>3

LEMMA ProviderFacts ==
    ASSUME ProviderTyped
    PROVE  /\ refusals \in Nat /\ memory \in Seq(SoundVectors)
           /\ SoundVectors \subseteq Vectors /\ NoVector \notin Vectors
           /\ \A v \in Vectors : v.text \in Texts /\ v.from \in Providers
           /\ \A c \in Embedders :
                /\ texts[c] \in Seq(Texts) /\ results[c] \in Seq(SoundVectors \cup {NoVector})
                /\ uncached[c] \in Seq(Nat) /\ next[c] \in Nat /\ fresh[c] \in Seq(SoundVectors)
                /\ evicting[c] \in Vectors \cup {NoVector}
<1>1. SoundVectors \subseteq Vectors /\ NoVector \notin Vectors
  BY ProviderAssumption DEF SoundVectors, Vectors
<1>2. \A v \in Vectors : v.text \in Texts /\ v.from \in Providers
  BY DEF Vectors
<1> QED
  BY <1>1, <1>2 DEF ProviderTyped

\* What a step leaves of a caller.
SameFor(d) ==
    /\ doing'[d] = doing[d] /\ texts'[d] = texts[d] /\ results'[d] = results[d]
    /\ uncached'[d] = uncached[d] /\ next'[d] = next[d] /\ fresh'[d] = fresh[d]
    /\ evicting'[d] = evicting[d]

LEMMA SameStands ==
    ASSUME NEW d, CallStands(d), SameFor(d)
    PROVE  CallStands(d)'
<1>1. /\ doing'[d] = doing[d] /\ texts'[d] = texts[d] /\ results'[d] = results[d]
      /\ uncached'[d] = uncached[d] /\ next'[d] = next[d] /\ fresh'[d] = fresh[d]
  BY DEF SameFor
<1>2. \A i, from : (Served(d, i)' <=> Served(d, i)) /\ (Waits(d, i, from)' <=> Waits(d, i, from))
  BY <1>1, Zenon DEF Served, Waits
<1> QED
  BY <1>1, <1>2, Zenon DEF CallStands

Steps == Resting \cup {"look up", "ask", "store", "enter"}

CallStep(c) ==
    \/ GetCached(c) \/ LookedUp(c) \/ AskProvider(c) \/ AllFailed(c)
    \/ StoreVector(c) \/ EnterVector(c) \/ AlreadyGone(c) \/ Stored(c)

\* The step touches nothing that is another caller's.
OnlyOf(c) ==
    /\ doing' = [doing EXCEPT ![c] = doing'[c]] /\ results' = [results EXCEPT ![c] = results'[c]]
    /\ uncached' = [uncached EXCEPT ![c] = uncached'[c]] /\ next' = [next EXCEPT ![c] = next'[c]]
    /\ fresh' = [fresh EXCEPT ![c] = fresh'[c]]
    /\ evicting' = [evicting EXCEPT ![c] = evicting'[c]]

LEMMA OneCaller ==
    ASSUME ProviderTyped, NEW c \in Embedders, CallStep(c)
    PROVE  /\ OnlyOf(c) /\ UNCHANGED <<answering, refusals, texts>> /\ doing[c] \notin Resting
           /\ excused' = excused \/ excused' = excused \cup {c}
           /\ doing'[c] \in Steps
<1>1. \A e, v : /\ doing' = [doing EXCEPT ![c] = v] => doing'[c] = v
                /\ results' = [results EXCEPT ![c] = v] => results'[c] = v
                /\ uncached' = [uncached EXCEPT ![c] = v] => uncached'[c] = v
                /\ next' = [next EXCEPT ![c] = v] => next'[c] = v
                /\ fresh' = [fresh EXCEPT ![c] = v] => fresh'[c] = v
                /\ evicting' = [evicting EXCEPT ![c] = v] => evicting'[c] = v
  BY DEF ProviderTyped
<1>2. /\ doing = [doing EXCEPT ![c] = doing[c]] /\ results = [results EXCEPT ![c] = results[c]]
      /\ uncached = [uncached EXCEPT ![c] = uncached[c]] /\ next = [next EXCEPT ![c] = next[c]]
      /\ fresh = [fresh EXCEPT ![c] = fresh[c]]
      /\ evicting = [evicting EXCEPT ![c] = evicting[c]]
  BY DEF ProviderTyped
<1>3. CASE GetCached(c)
  BY <1>1, <1>2, <1>3 DEF GetCached, EmbedderGoes, GoesTo, services, OnlyOf, Resting, Steps
<1>4. CASE LookedUp(c)
  BY <1>1, <1>2, <1>4 DEF LookedUp, EmbedderGoes, GoesTo, services, OnlyOf, Resting, Steps
<1>5. CASE AskProvider(c)
  BY <1>1, <1>2, <1>5 DEF AskProvider, EmbedderGoes, GoesTo, services, OnlyOf, Resting, Steps
<1>6. CASE AllFailed(c)
  BY <1>1, <1>2, <1>6 DEF AllFailed, EmbedderGoes, GoesTo, services, OnlyOf, Resting, Steps
<1>7. CASE StoreVector(c)
  BY <1>1, <1>2, <1>7 DEF StoreVector, EmbedderGoes, GoesTo, services, OnlyOf, Resting, Steps
<1>8. CASE EnterVector(c)
  BY <1>1, <1>2, <1>8 DEF EnterVector, EmbedderGoes, GoesTo, services, OnlyOf, Resting, Steps
<1>9. CASE AlreadyGone(c)
  BY <1>1, <1>2, <1>9 DEF AlreadyGone, EmbedderGoes, GoesTo, services, OnlyOf, Resting, Steps
<1>10. CASE Stored(c)
  BY <1>1, <1>2, <1>10 DEF Stored, EmbedderGoes, GoesTo, services, OnlyOf, Resting, Steps
<1> QED
  BY <1>3, <1>4, <1>5, <1>6, <1>7, <1>8, <1>9, <1>10 DEF CallStep

LEMMA OneCallerTyped ==
    ASSUME ProviderTyped, NEW c \in Embedders, CallStep(c),
           memory' \in Seq(SoundVectors), unified' \in [Texts -> SUBSET SoundVectors],
           results'[c] \in Seq(SoundVectors \cup {NoVector}), uncached'[c] \in Seq(Nat),
           next'[c] \in Nat, fresh'[c] \in Seq(SoundVectors),
           evicting'[c] \in Vectors \cup {NoVector}
    PROVE  ProviderTyped' /\ \A d \in Embedders \ {c} : SameFor(d)
<1>1. /\ OnlyOf(c) /\ UNCHANGED <<answering, refusals, texts>> /\ doing'[c] \in Steps
      /\ excused' = excused \/ excused' = excused \cup {c}
  BY OneCaller
<1>2. SoundVectors' = SoundVectors
  BY <1>1 DEF SoundVectors, Vectors
<1>3. /\ doing' = [doing EXCEPT ![c] = doing'[c]]
      /\ results' = [results EXCEPT ![c] = results'[c]]
      /\ uncached' = [uncached EXCEPT ![c] = uncached'[c]] /\ next' = [next EXCEPT ![c] = next'[c]]
      /\ fresh' = [fresh EXCEPT ![c] = fresh'[c]]
      /\ evicting' = [evicting EXCEPT ![c] = evicting'[c]]
  BY <1>1 DEF OnlyOf
<1>4. /\ doing \in [Embedders -> Steps]
      /\ results \in [Embedders -> Seq(SoundVectors \cup {NoVector})]
      /\ uncached \in [Embedders -> Seq(Nat)] /\ next \in [Embedders -> Nat]
      /\ fresh \in [Embedders -> Seq(SoundVectors)]
      /\ evicting \in [Embedders -> Vectors \cup {NoVector}]
      /\ answering \subseteq Providers /\ refusals \in Nat
      /\ texts \in [Embedders -> Seq(Texts)]
  BY DEF ProviderTyped, Steps
<1>5. doing' \in [Embedders -> Steps]
  BY ONLY <1>1, <1>3, <1>4
<1>6. results' \in [Embedders -> Seq(SoundVectors \cup {NoVector})]
  BY <1>3, <1>4
<1>7. uncached' \in [Embedders -> Seq(Nat)]
  BY <1>3, <1>4
<1>8. next' \in [Embedders -> Nat]
  BY <1>3, <1>4
<1>9. fresh' \in [Embedders -> Seq(SoundVectors)]
  BY <1>3, <1>4
<1>10. evicting' \in [Embedders -> Vectors \cup {NoVector}]
  BY <1>3, <1>4
<1>11. excused' \subseteq Embedders
  BY <1>1 DEF ProviderTyped
<1>12. ProviderTyped'
  BY <1>1, <1>2, <1>4, <1>5, <1>6, <1>7, <1>8, <1>9, <1>10, <1>11, Zenon
     DEF ProviderTyped, Steps, Vectors
<1>13. \A d \in Embedders \ {c} : SameFor(d)
  BY <1>1, <1>3, <1>4 DEF SameFor
<1> QED
  BY <1>12, <1>13

\* A step of a call under way: it disturbs no call that is alone.
LEMMA CallKeeps ==
    ASSUME ProviderInv, NEW c \in Embedders, CallStep(c),
           memory' \in Seq(SoundVectors), unified' \in [Texts -> SUBSET SoundVectors],
           \A t \in Texts : \A w \in unified'[t] : w.text = t,
           results'[c] \in Seq(SoundVectors \cup {NoVector}), uncached'[c] \in Seq(Nat),
           next'[c] \in Nat, fresh'[c] \in Seq(SoundVectors),
           evicting'[c] \in Vectors \cup {NoVector},
           CallStands(c)',
           doing'[c] = "ask" /\ refusals = 0 => next'[c] = 1,
           evicting'[c] # NoVector => doing'[c] = "enter",
           c \notin excused' =>
               /\ doing'[c] # "failed"
               /\ evicting'[c] # NoVector => InMemory(evicting[c].text)' # {}
    PROVE  ProviderInv'
<1>1. /\ UNCHANGED <<answering, refusals, texts>> /\ doing[c] \notin Resting
      /\ excused' = excused \/ excused' = excused \cup {c}
  BY OneCaller DEF ProviderInv
<1>2. ProviderTyped' /\ \A d \in Embedders \ {c} : SameFor(d)
  BY OneCallerTyped DEF ProviderInv
<1>3. \A d \in Embedders \ {c} : CallStands(d)'
  BY <1>2, SameStands DEF ProviderInv
<1>4. \A d \in Embedders \ {c} : /\ doing'[d] = "ask" /\ refusals = 0 => next'[d] = 1
                                 /\ evicting'[d] # NoVector => doing'[d] = "enter"
  BY <1>2 DEF ProviderInv, SameFor
<1>5. IsAlone(c)'
  <2>1. c \notin excused' => \A d \in Embedders \ {c} : doing'[d] \in Resting
    BY <1>1, <1>2 DEF ProviderInv, IsAlone, SameFor
  <2> QED
    BY <2>1 DEF IsAlone
<1>6. ASSUME NEW d \in Embedders \ {c}
      PROVE  IsAlone(d)'
  <2>1. ASSUME d \notin excused'
        PROVE  doing[d] \in Resting /\ doing[d] # "failed"
    BY <1>1, <2>1 DEF ProviderInv, IsAlone
  <2>2. d \notin excused' => evicting[d] = NoVector
    BY <2>1 DEF ProviderInv, Resting
  <2> QED
    BY <1>2, <2>1, <2>2 DEF IsAlone, SameFor
<1> QED
  BY <1>1, <1>2, <1>3, <1>4, <1>5, <1>6 DEF ProviderInv

LEMMA ServicesKeep ==
    ASSUME ProviderInv,
           \/ \E gone \in SUBSET Providers : ServicesFail(gone)
           \/ \E p \in Providers : Recovers(p)
    PROVE  ProviderInv'
<1>1. /\ UNCHANGED <<memory, unified, doing, texts, results, uncached, next, fresh, evicting, excused>>
      /\ \/ refusals' = refusals + 1 /\ answering' \subseteq answering
         \/ /\ UNCHANGED refusals
            /\ \E p \in Providers : p \notin answering /\ answering' = answering \cup {p}
  BY DEF ServicesFail, Recovers, services
<1>2. ProviderTyped /\ refusals \in Nat
  BY ProviderFacts DEF ProviderInv, ProviderTyped
<1>3. SoundVectors \subseteq SoundVectors'
  BY <1>1, <1>2 DEF SoundVectors
<1>4. ProviderTyped'
  <2>1. answering' \subseteq Providers /\ refusals' \in Nat
    <3>1. answering \subseteq Providers
      BY <1>2 DEF ProviderTyped
    <3>2. refusals' \in Nat
      BY <1>1, <1>2
    <3> QED
      BY <1>1, <3>1, <3>2
  <2>2. unified' \in [Texts -> SUBSET SoundVectors]
    <3>1. unified \in [Texts -> SUBSET SoundVectors]
      BY <1>2 DEF ProviderTyped
    <3> QED
      BY <1>1, <3>1
  <2>3. unified' \in [Texts -> SUBSET SoundVectors']
    BY <2>2, <1>3
  <2>4. memory \in Seq(SoundVectors')
    <3>1. memory \in Seq(SoundVectors)
      BY <1>2 DEF ProviderTyped
    <3> QED
      BY <1>3, <3>1
  <2>5. \A c \in Embedders : /\ results[c] \in Seq(SoundVectors' \cup {NoVector})
                             /\ fresh[c] \in Seq(SoundVectors')
    <3> TAKE c \in Embedders
    <3>1. results[c] \in Seq(SoundVectors \cup {NoVector}) /\ fresh[c] \in Seq(SoundVectors)
      BY <1>2, ProviderFacts
    <3> QED
      BY <3>1, <1>3
  <2>6. /\ results \in [Embedders -> Seq(SoundVectors' \cup {NoVector})]
        /\ fresh \in [Embedders -> Seq(SoundVectors')]
    BY <1>2, <2>5 DEF ProviderTyped
  <2> QED
    BY <1>1, <1>2, <2>1, <2>3, <2>4, <2>6 DEF ProviderTyped, Vectors
<1>5. \A t \in Texts : \A w \in unified'[t] : w.text = t
  BY <1>1, <1>2 DEF ProviderInv, ProviderTyped
<1>6. /\ refusals' = 0 => answering' = Providers
      /\ refusals' = 0 => refusals = 0
  BY <1>1, <1>2 DEF ProviderInv
<1>7. \A c \in Embedders : SameFor(c)
  BY <1>1 DEF SameFor
<1>8. \A c \in Embedders : CallStands(c)'
  BY <1>7, SameStands DEF ProviderInv
<1>9. \A c \in Embedders : IsAlone(c)'
  BY <1>1 DEF ProviderInv, IsAlone, InMemory
<1> QED
  BY <1>1, <1>4, <1>5, <1>6, <1>8, <1>9 DEF ProviderInv

LEMMA BeginKeeps ==
    ASSUME ProviderInv, NEW c \in Embedders, NEW b \in Batches, BeginBatch(c, b)
    PROVE  ProviderInv'
<1>1. ProviderTyped /\ doing[c] \in Resting /\ b \in Seq(Texts)
  BY ProviderAssumption DEF ProviderInv, BeginBatch
<1>2. /\ UNCHANGED <<answering, refusals, memory, unified, fresh, evicting>>
      /\ doing' = [doing EXCEPT ![c] = "look up"] /\ next' = [next EXCEPT ![c] = 1]
      /\ texts' = [texts EXCEPT ![c] = b] /\ uncached' = [uncached EXCEPT ![c] = <<>>]
      /\ results' = [results EXCEPT ![c] = [i \in 1 .. Len(b) |-> NoVector]]
  <2>1. DOMAIN b = 1 .. Len(b)
    BY <1>1
  <2> QED
    BY <2>1, Zenon DEF BeginBatch, EmbedderGoes, GoesTo, services
<1>3. [i \in 1 .. Len(b) |-> NoVector] \in Seq(SoundVectors \cup {NoVector})
  BY <1>1
<1>4. SoundVectors' = SoundVectors
  BY <1>2 DEF SoundVectors, Vectors
<1>5. ProviderTyped'
  <2>1. results' \in [Embedders -> Seq(SoundVectors \cup {NoVector})]
    <3>1. results \in [Embedders -> Seq(SoundVectors \cup {NoVector})]
      BY <1>1 DEF ProviderTyped
    <3> QED
      BY <1>2, <1>3, <3>1
  <2>2. texts' \in [Embedders -> Seq(Texts)]
    BY <1>1, <1>2 DEF ProviderTyped
  <2>3. uncached' \in [Embedders -> Seq(Nat)]
    <3>1. uncached \in [Embedders -> Seq(Nat)]
      BY <1>1 DEF ProviderTyped
    <3>2. << >> \in Seq(Nat)
      OBVIOUS
    <3> QED
      BY <1>2, <3>1, <3>2
  <2>4. next' \in [Embedders -> Nat]
    BY <1>1, <1>2 DEF ProviderTyped
  <2>5. doing' \in [Embedders -> Resting \cup {"look up", "ask", "store", "enter"}]
    BY <1>1, <1>2 DEF ProviderTyped
  <2>6. excused' \subseteq Embedders
    BY <1>1 DEF ProviderTyped, BeginBatch
  <2> QED
    BY <1>1, <1>2, <1>4, <2>1, <2>2, <2>3, <2>4, <2>5, <2>6 DEF ProviderTyped, Vectors
<1>6. /\ doing'[c] = "look up" /\ next'[c] = 1 /\ texts'[c] = b /\ uncached'[c] = <<>>
      /\ results'[c] = [i \in 1 .. Len(b) |-> NoVector]
      /\ evicting'[c] = NoVector
  <2>1. evicting'[c] = NoVector
    BY <1>1, <1>2 DEF ProviderInv, Resting
  <2> QED
    BY <1>1, <1>2, <2>1 DEF ProviderTyped
<1>7. \A d \in Embedders \ {c} : SameFor(d)
  BY <1>1, <1>2 DEF SameFor, ProviderTyped
<1>8. \A d \in Embedders : CallStands(d)'
  <2>1. CallStands(c)'
    <3>1. Len(b) \in Nat
      BY <1>1
    <3>2. Len([i \in 1 .. Len(b) |-> NoVector]) = Len(b) /\ Len(<< >>) = 0
      BY <3>1
    <3>3. Len(results'[c]) = Len(texts'[c]) /\ Len(uncached'[c]) = 0 /\ Len(texts'[c]) \in Nat
      BY <1>6, <3>1, <3>2
    <3>4. next'[c] \in 1 .. Len(texts'[c]) + 1 /\ 1 .. next'[c] - 1 = {}
      <4>1. next'[c] = 1
        BY <1>6
      <4> QED
        BY ONLY <3>3, <4>1
    <3>5. 1 .. Len(uncached'[c]) = {}
      BY ONLY <3>3
    <3> QED
      BY <1>6, <3>3, <3>4, <3>5 DEF CallStands, Resting
  <2>2. \A d \in Embedders \ {c} : CallStands(d)'
    BY <1>7, SameStands DEF ProviderInv
  <2> QED
    BY <2>1, <2>2
<1>9. \A d \in Embedders : IsAlone(d)'
  <2>1. CASE \A d \in Embedders \ {c} : doing[d] \in Resting
    <3>1. excused' = excused \ {c}
      BY <2>1 DEF BeginBatch
    <3>2. IsAlone(c)'
      BY <1>6, <1>7, <2>1 DEF IsAlone, SameFor
    <3>3. \A d \in Embedders \ {c} : doing'[d] \in Resting /\ evicting'[d] = NoVector
      BY <1>7, <2>1 DEF ProviderInv, SameFor, Resting
    <3>4. \A d \in Embedders \ {c} : doing'[d] = "failed" => d \in excused'
      BY <1>7, <3>1 DEF ProviderInv, IsAlone, SameFor
    <3>5. \A d \in Embedders \ {c} : IsAlone(d)'
      BY <3>3, <3>4 DEF IsAlone
    <3> QED
      BY <3>2, <3>5
  <2>2. CASE ~ \A d \in Embedders \ {c} : doing[d] \in Resting
    BY <2>2 DEF BeginBatch, IsAlone
  <2> QED
    BY <2>1, <2>2
<1>10. \A d \in Embedders : /\ doing'[d] = "ask" /\ refusals' = 0 => next'[d] = 1
                            /\ evicting'[d] # NoVector => doing'[d] = "enter"
  <2>1. doing'[c] # "ask" /\ evicting'[c] = NoVector
    BY <1>6
  <2>2. \A d \in Embedders \ {c} : /\ doing'[d] = doing[d] /\ next'[d] = next[d]
                                   /\ evicting'[d] = evicting[d] /\ refusals' = refusals
    BY <1>2, <1>7 DEF SameFor
  <2>3. \A d \in Embedders : /\ doing[d] = "ask" /\ refusals = 0 => next[d] = 1
                             /\ evicting[d] # NoVector => doing[d] = "enter"
    BY DEF ProviderInv
  <2> QED
    BY <2>1, <2>2, <2>3
<1> QED
  BY <1>2, <1>5, <1>8, <1>9, <1>10 DEF ProviderInv

LEMMA GetCachedKeeps ==
    ASSUME ProviderInv, NEW c \in Embedders, GetCached(c)
    PROVE  ProviderInv'
<1>0. PICK n \in Nat : n = next[c]
  BY ProviderFacts DEF ProviderInv
<1> DEFINE t == texts[c][n]
           r == results[c]
           u == uncached[c]
<1>1. /\ doing[c] = "look up" /\ ProviderTyped /\ CallStands(c) /\ evicting[c] = NoVector
      /\ UNCHANGED <<unified, doing, texts, fresh, evicting, excused>>
      /\ next' = [next EXCEPT ![c] = n + 1]
  BY <1>0 DEF GetCached, ProviderInv, GoesTo
<1>2. /\ memory \in Seq(SoundVectors) /\ SoundVectors \subseteq Vectors /\ NoVector \notin Vectors
      /\ texts[c] \in Seq(Texts) /\ r \in Seq(SoundVectors \cup {NoVector}) /\ u \in Seq(Nat)
      /\ n \in Nat /\ fresh[c] \in Seq(SoundVectors)
  BY <1>1, ProviderFacts
<1>3. /\ n \in 1 .. Len(texts[c]) /\ t \in Texts /\ Len(r) = Len(texts[c])
      /\ \A i \in 1 .. n - 1 : Served(c, i) \/ Waits(c, i, 1)
      /\ \A k \in 1 .. Len(u) : u[k] \in 1 .. Len(texts[c])
  <2>1. n \in DOMAIN texts[c]
    BY <1>0 DEF GetCached
  <2>2. n \in 1 .. Len(texts[c]) /\ t \in Texts
    BY <1>2, <2>1
  <2> QED
    BY <1>0, <1>1, <2>2 DEF CallStands, Resting
<1>4. next'[c] = n + 1 /\ n + 1 \in 1 .. Len(texts[c]) + 1 /\ n + 1 \in Nat
  <2>1. next'[c] = n + 1
    BY <1>1 DEF ProviderTyped
  <2>2. Len(texts[c]) \in Nat
    BY <1>2
  <2>3. n + 1 \in 1 .. Len(texts[c]) + 1
    BY ONLY <1>2, <1>3, <2>2
  <2> QED
    BY <1>2, <2>1, <2>3
<1>5. \/ /\ \E v \in SoundVectors : v.text = t /\ results' = [results EXCEPT ![c][n] = v]
         /\ uncached' = uncached /\ memory' \in Seq(SoundVectors)
      \/ /\ uncached' = [uncached EXCEPT ![c] = Append(u, n)]
         /\ results' = results /\ memory' = memory
  <2>1. CASE \E v \in InMemory(t) : results' = [results EXCEPT ![c][n] = v]
                                    /\ UNCHANGED <<memory, uncached>>
    <3>1. InMemory(t) \subseteq SoundVectors /\ \A v \in InMemory(t) : v.text = t
      BY <1>2 DEF InMemory, ToSet
    <3> QED
      BY <1>2, <2>1, <3>1
  <2>2. ASSUME NEW v \in unified[t], results' = [results EXCEPT ![c][n] = v],
               memory' = Put(memory, v), UNCHANGED uncached
        PROVE  /\ \E w \in SoundVectors : w.text = t /\ results' = [results EXCEPT ![c][n] = w]
               /\ uncached' = uncached /\ memory' \in Seq(SoundVectors)
    <3>1. v \in SoundVectors /\ v.text = t
      BY <1>1, <1>3, <2>2 DEF ProviderInv, ProviderTyped
    <3>2. memory' \in Seq(SoundVectors)
      BY <1>2, <2>2, <3>1, PutKeeps
    <3> QED
      BY <2>2, <3>1, <3>2
  <2> QED
    BY <1>0, <2>1, <2>2 DEF GetCached
<1>6. /\ results'[c] \in Seq(SoundVectors \cup {NoVector}) /\ uncached'[c] \in Seq(Nat)
      /\ memory' \in Seq(SoundVectors)
      /\ Len(results'[c]) = Len(texts[c])
      /\ \A k \in 1 .. Len(uncached'[c]) : uncached'[c][k] \in 1 .. Len(texts[c])
      /\ \A i \in 1 .. n : Served(c, i)' \/ Waits(c, i, 1)'
  <2>1. CASE /\ \E v \in SoundVectors : v.text = t /\ results' = [results EXCEPT ![c][n] = v]
             /\ uncached' = uncached /\ memory' \in Seq(SoundVectors)
    <3>1. PICK v \in SoundVectors : v.text = t /\ results' = [results EXCEPT ![c][n] = v]
      BY <2>1
    <3>2. results'[c] = [r EXCEPT ![n] = v]
      BY <1>1, <3>1 DEF ProviderTyped
    <3>3. /\ results'[c] \in Seq(SoundVectors \cup {NoVector}) /\ Len(results'[c]) = Len(r)
          /\ results'[c][n] = v /\ \A i \in 1 .. n - 1 : results'[c][i] = r[i]
      BY <1>2, <1>3, <3>2
    <3>4. Served(c, n)'
      BY <1>1, <1>2, <3>1, <3>3 DEF Served
    <3>5. \A i \in 1 .. n - 1 : Served(c, i)' \/ Waits(c, i, 1)'
      BY <1>1, <1>3, <2>1, <3>3 DEF Served, Waits
    <3>6. \A i \in 1 .. n : i = n \/ i \in 1 .. n - 1
      BY <1>2
    <3> QED
      BY <1>2, <1>3, <2>1, <3>3, <3>4, <3>5, <3>6
  <2>2. CASE /\ uncached' = [uncached EXCEPT ![c] = Append(u, n)]
             /\ results' = results /\ memory' = memory
    <3>1. uncached'[c] = Append(u, n)
      BY <1>1, <2>2 DEF ProviderTyped
    <3>2. /\ uncached'[c] \in Seq(Nat) /\ Len(uncached'[c]) = Len(u) + 1
          /\ uncached'[c][Len(u) + 1] = n /\ \A k \in 1 .. Len(u) : uncached'[c][k] = u[k]
          /\ Len(u) \in Nat
      BY <1>2, <3>1
    <3>3. \A k \in 1 .. Len(u) + 1 : k \in 1 .. Len(u) \/ k = Len(u) + 1
      BY <3>2
    <3>4. \A k \in 1 .. Len(uncached'[c]) : uncached'[c][k] \in 1 .. Len(texts[c])
      BY <1>3, <3>2, <3>3
    <3>5. \A k \in 1 .. Len(u) : k \in 1 .. Len(u) + 1
      BY <3>2
    <3>6. \A i \in 1 .. n - 1 : Served(c, i)' \/ Waits(c, i, 1)'
      BY <1>1, <1>3, <2>2, <3>2, <3>5 DEF Served, Waits
    <3>7. Len(u) + 1 \in 1 .. Len(u) + 1
      BY <3>2
    <3>8. Waits(c, n, 1)'
      BY <3>2, <3>7 DEF Waits
    <3>9. \A i \in 1 .. n : i = n \/ i \in 1 .. n - 1
      BY <1>2
    <3> QED
      BY <1>2, <1>3, <2>2, <3>2, <3>4, <3>6, <3>8, <3>9
  <2> QED
    BY <1>5, <2>1, <2>2
<1>7. CallStands(c)'
  <2>1. next'[c] - 1 = n
    BY <1>2, <1>4
  <2> QED
    BY <1>1, <1>4, <1>6, <2>1 DEF CallStands
<1>8. CallStep(c) /\ unified' \in [Texts -> SUBSET SoundVectors]
  BY <1>1 DEF CallStep, ProviderTyped
<1>9. \A x \in Texts : \A w \in unified'[x] : w.text = x
  BY <1>1 DEF ProviderInv
<1> QED
  BY <1>1, <1>2, <1>4, <1>6, <1>7, <1>8, <1>9, CallKeeps

LEMMA LookedUpKeeps ==
    ASSUME ProviderInv, NEW c \in Embedders, LookedUp(c)
    PROVE  ProviderInv'
<1>1. /\ doing[c] = "look up" /\ ProviderTyped /\ CallStands(c) /\ evicting[c] = NoVector
      /\ UNCHANGED <<memory, unified, texts, results, uncached, fresh, evicting, excused>>
      /\ next'[c] = 1 /\ next[c] > Len(texts[c])
      /\ doing'[c] = IF uncached[c] = << >> THEN "done" ELSE "ask"
  BY DEF LookedUp, ProviderInv, GoesTo, EmbedderGoes, ProviderTyped
<1>2. /\ memory \in Seq(SoundVectors) /\ texts[c] \in Seq(Texts)
      /\ results[c] \in Seq(SoundVectors \cup {NoVector}) /\ uncached[c] \in Seq(Nat)
      /\ next[c] \in Nat /\ fresh[c] \in Seq(SoundVectors) /\ 1 \in Nat
  BY <1>1, ProviderFacts
<1>3. /\ Len(results[c]) = Len(texts[c]) /\ next[c] \in 1 .. Len(texts[c]) + 1
      /\ \A i \in 1 .. next[c] - 1 : Served(c, i) \/ Waits(c, i, 1)
      /\ \A k \in 1 .. Len(uncached[c]) : uncached[c][k] \in 1 .. Len(texts[c])
  BY <1>1 DEF CallStands, Resting
<1>4. \A i \in 1 .. Len(texts[c]) : Served(c, i) \/ Waits(c, i, 1)
  <2>1. Len(texts[c]) \in Nat
    BY <1>2
  <2>2. next[c] > Len(texts[c]) /\ next[c] \in 1 .. Len(texts[c]) + 1 /\ next[c] \in Nat
    BY <1>1, <1>2, <1>3
  <2>3. next[c] - 1 = Len(texts[c])
    BY ONLY <2>1, <2>2
  <2> QED
    BY <1>3, <2>3
<1>5. \A i \in 1 .. Len(texts[c]) : Served(c, i)' \/ Waits(c, i, 1)'
  BY <1>1, <1>4 DEF Served, Waits
<1>6. uncached[c] = << >> => \A i : ~ Waits(c, i, 1)'
  <2>1. Len(<< >>) = 0 /\ 1 .. 0 = {}
    OBVIOUS
  <2> QED
    BY <1>1, <2>1 DEF Waits
<1>7. CallStands(c)'
  BY <1>1, <1>3, <1>5, <1>6 DEF CallStands, Resting
<1>8. CallStep(c) /\ unified' \in [Texts -> SUBSET SoundVectors]
  BY <1>1 DEF CallStep, ProviderTyped
<1>9. \A x \in Texts : \A w \in unified'[x] : w.text = x
  BY <1>1 DEF ProviderInv
<1> QED
  BY <1>1, <1>2, <1>7, <1>8, <1>9, CallKeeps

LEMMA AskKeeps ==
    ASSUME ProviderInv, NEW c \in Embedders, AskProvider(c) \/ AllFailed(c)
    PROVE  ProviderInv'
<1> DEFINE u == uncached[c]
<1>1. /\ doing[c] = "ask" /\ ProviderTyped /\ CallStands(c) /\ evicting[c] = NoVector
      /\ UNCHANGED <<refusals, memory, unified, texts, results, uncached, evicting>>
  BY DEF AskProvider, AllFailed, ProviderInv, services
<1>2. /\ memory \in Seq(SoundVectors) /\ texts[c] \in Seq(Texts) /\ refusals \in Nat
      /\ results[c] \in Seq(SoundVectors \cup {NoVector}) /\ u \in Seq(Nat)
      /\ next[c] \in Nat /\ fresh[c] \in Seq(SoundVectors)
  BY <1>1, ProviderFacts
<1>3. /\ Len(results[c]) = Len(texts[c])
      /\ \A i \in 1 .. Len(texts[c]) : Served(c, i) \/ Waits(c, i, 1)
      /\ \A k \in 1 .. Len(u) : u[k] \in 1 .. Len(texts[c])
  BY <1>1 DEF CallStands, Resting
<1>4. CallStep(c) /\ unified' \in [Texts -> SUBSET SoundVectors]
  BY <1>1 DEF CallStep, ProviderTyped
<1>5. \A x \in Texts : \A w \in unified'[x] : w.text = x
  BY <1>1 DEF ProviderInv
<1>6. \A i \in 1 .. Len(texts[c]) : Served(c, i)' \/ Waits(c, i, 1)'
  BY <1>1, <1>3 DEF Served, Waits
<1>d. DOMAIN next = Embedders /\ DOMAIN doing = Embedders /\ DOMAIN fresh = Embedders
  BY <1>1, Zenon DEF ProviderTyped
<1>7. CASE AskProvider(c) /\ next[c] \in answering
  <2> DEFINE f == [i \in 1 .. Len(u) |-> [text |-> texts[c][u[i]], from |-> next[c]]]
  <2>1. fresh' = [fresh EXCEPT ![c] = f]
    <3>1. DOMAIN u = 1 .. Len(u)
      BY <1>2
    <3> QED
      BY <1>7, <3>1, Zenon DEF AskProvider
  <2>2. /\ next'[c] = 1 /\ doing'[c] = "store" /\ fresh'[c] = f /\ excused' = excused
    <3>1. /\ next' = [next EXCEPT ![c] = 1] /\ doing' = [doing EXCEPT ![c] = "store"]
          /\ excused' = excused
      BY <1>7, Zenon DEF AskProvider, GoesTo, EmbedderGoes
    <3> HIDE DEF f
    <3> QED
      BY <1>d, <2>1, <3>1, Zenon
  <2>3. \A i \in 1 .. Len(u) : texts[c][u[i]] \in Texts
    <3>1. \A n \in 1 .. Len(texts[c]) : texts[c][n] \in Texts
      BY <1>2
    <3> QED
      BY <1>3, <3>1, Zenon
  <2>4. next[c] \in Providers /\ (refusals = 0 => next[c] = 1)
    BY <1>1, <1>7 DEF AskProvider, ProviderInv
  <2>5. \A i \in 1 .. Len(u) : [text |-> texts[c][u[i]], from |-> next[c]] \in SoundVectors
    BY <2>3, <2>4 DEF SoundVectors, Vectors
  <2>6. f \in Seq(SoundVectors) /\ Len(f) = Len(u)
    <3>1. Len(u) \in Nat
      BY <1>2
    <3> QED
      BY <2>5, <3>1
  <2>7. \A k \in 1 .. Len(u) : f[k].text = texts[c][u[k]]
    OBVIOUS
  <2> HIDE DEF f
  <2>8. CallStands(c)'
    BY <1>1, <1>3, <1>6, <2>2, <2>6, <2>7 DEF CallStands, Resting
  <2> QED
    <3>1. /\ next'[c] \in Nat /\ fresh'[c] \in Seq(SoundVectors) /\ evicting'[c] = NoVector
          /\ doing'[c] = "store" /\ results'[c] = results[c] /\ uncached'[c] = u
      BY <1>1, <2>2, <2>6
    <3>2. memory' \in Seq(SoundVectors)
      BY <1>1, <1>2
    <3> QED
      BY <1>2, <1>4, <1>5, <2>8, <3>1, <3>2, CallKeeps
<1>8. CASE AskProvider(c) /\ next[c] \notin answering
  <2>1. refusals # 0
    BY <1>8 DEF AskProvider, ProviderInv
  <2>2. fresh' = fresh /\ doing' = doing /\ excused' = excused
    BY <1>8 DEF AskProvider
  <2>3. next'[c] = next[c] + 1
    BY <1>1, <1>8 DEF AskProvider, GoesTo, ProviderTyped
  <2>4. next'[c] \in Nat
    BY <1>2, <2>3
  <2>5. CallStands(c)'
    BY <1>1, <1>3, <1>6, <2>2 DEF CallStands, Resting
  <2> QED
    BY <1>1, <1>2, <1>4, <1>5, <2>1, <2>2, <2>4, <2>5, CallKeeps
<1>9. CASE AllFailed(c)
  <2>1. next'[c] = 0 /\ fresh' = fresh /\ doing'[c] = "failed" /\ c \in excused'
    BY <1>1, <1>9 DEF AllFailed, GoesTo, EmbedderGoes, ProviderTyped
  <2>2. CallStands(c)'
    BY <1>1, <1>3, <2>1 DEF CallStands, Resting
  <2>3. 0 \in Nat
    OBVIOUS
  <2> QED
    BY <1>1, <1>2, <1>4, <1>5, <2>1, <2>2, <2>3, CallKeeps
<1> QED
  BY <1>7, <1>8, <1>9

LEMMA StoreVectorKeeps ==
    ASSUME ProviderInv, NEW c \in Embedders, StoreVector(c)
    PROVE  ProviderInv'
<1> DEFINE u == uncached[c]
           r == results[c]
           f == fresh[c]
<1>1. /\ doing[c] = "store" /\ f # << >> /\ ProviderTyped /\ CallStands(c)
      /\ UNCHANGED <<memory, unified, texts, uncached, next, fresh, excused>>
      /\ results' = [results EXCEPT ![c][Head(u)] = Head(f)]
      /\ evicting' = [evicting EXCEPT ![c] = IF Len(memory) >= MaxMemory THEN Head(memory)
                                             ELSE NoVector]
  BY DEF StoreVector, Place, ProviderInv
<1>2. /\ memory \in Seq(SoundVectors) /\ texts[c] \in Seq(Texts)
      /\ r \in Seq(SoundVectors \cup {NoVector}) /\ u \in Seq(Nat)
      /\ next[c] \in Nat /\ f \in Seq(SoundVectors)
      /\ SoundVectors \subseteq Vectors /\ NoVector \notin Vectors
  BY <1>1, ProviderFacts
<1>3. /\ Len(r) = Len(texts[c]) /\ Len(f) = Len(u)
      /\ \A i \in 1 .. Len(texts[c]) : Served(c, i) \/ Waits(c, i, 1)
      /\ \A k \in 1 .. Len(u) : u[k] \in 1 .. Len(texts[c])
      /\ \A k \in 1 .. Len(f) : f[k].text = texts[c][u[k]]
  BY <1>1 DEF CallStands, Resting
<1>4. PICK p, v : p = u[1] /\ v = f[1]
  OBVIOUS
<1>5. /\ p = Head(u) /\ v = Head(f) /\ v \in SoundVectors /\ 1 \in 1 .. Len(u)
      /\ p \in 1 .. Len(texts[c]) /\ v.text = texts[c][p]
  <2>1. Len(f) # 0 /\ Len(f) \in Nat
    BY <1>1, <1>2
  <2>2. 1 \in 1 .. Len(f) /\ 1 \in 1 .. Len(u)
    BY <1>3, <2>1
  <2>3. Head(u) = u[1] /\ Head(f) = f[1] /\ f[1] \in SoundVectors
    BY <1>2, <2>2
  <2> QED
    BY <1>3, <1>4, <2>2, <2>3
<1>6. doing'[c] = "enter"
  BY <1>1 DEF StoreVector, EmbedderGoes, ProviderTyped
<1>7. results'[c] = [r EXCEPT ![p] = v]
  BY <1>1, <1>5 DEF ProviderTyped
<1>8. /\ results'[c] \in Seq(SoundVectors \cup {NoVector}) /\ Len(results'[c]) = Len(texts[c])
      /\ results'[c][p] = v
      /\ \A i \in 1 .. Len(texts[c]) : i # p => results'[c][i] = r[i]
  BY <1>2, <1>3, <1>5, <1>7
<1>9. \A i \in 1 .. Len(texts[c]) : Served(c, i)' \/ Waits(c, i, 2)'
  <2> TAKE i \in 1 .. Len(texts[c])
  <2>1. CASE i = p
    <3>1. v # NoVector
      BY <1>2, <1>5
    <3> QED
      BY <1>1, <1>5, <1>8, <2>1, <3>1 DEF Served
  <2>2. CASE i # p /\ Served(c, i)
    BY <1>1, <1>8, <2>2 DEF Served
  <2>3. CASE i # p /\ Waits(c, i, 1)
    <3>1. PICK k \in 1 .. Len(u) : u[k] = i
      BY <2>3 DEF Waits
    <3>2. k # 1
      BY <1>4, <2>3, <3>1
    <3>3. Len(u) \in Nat
      BY <1>2
    <3>4. k \in 2 .. Len(u)
      BY ONLY <3>1, <3>2, <3>3
    <3> QED
      BY <1>1, <3>1, <3>4 DEF Waits
  <2> QED
    BY <1>3, <2>1, <2>2, <2>3
<1>10. CallStands(c)'
  BY <1>1, <1>3, <1>6, <1>8, <1>9 DEF CallStands, Resting
<1>11. evicting'[c] # NoVector => evicting'[c] \in ToSet(memory) /\ evicting'[c] \in Vectors
  <2>1. evicting'[c] = IF Len(memory) >= MaxMemory THEN Head(memory) ELSE NoVector
    BY <1>1 DEF ProviderTyped
  <2>2. Len(memory) >= MaxMemory => 1 \in 1 .. Len(memory)
    BY <1>2, ProviderAssumption
  <2>3. 1 \in 1 .. Len(memory) => /\ Head(memory) = memory[1] /\ memory[1] \in SoundVectors
                                  /\ 1 \in DOMAIN memory
    BY <1>2
  <2> QED
    BY <1>2, <2>1, <2>2, <2>3 DEF ToSet
<1>12. evicting'[c] # NoVector => InMemory(evicting[c].text)' # {}
  BY <1>1, <1>11 DEF InMemory
<1>13. CallStep(c) /\ unified' \in [Texts -> SUBSET SoundVectors]
  BY <1>1 DEF CallStep, ProviderTyped
<1>14. \A x \in Texts : \A w \in unified'[x] : w.text = x
  BY <1>1 DEF ProviderInv
<1> QED
  BY <1>1, <1>2, <1>6, <1>8, <1>10, <1>11, <1>12, <1>13, <1>14, CallKeeps

LEMMA EnterVectorKeeps ==
    ASSUME ProviderInv, NEW c \in Embedders, EnterVector(c)
    PROVE  ProviderInv'
<1> DEFINE u == uncached[c]
           f == fresh[c]
<1>1. /\ doing[c] = "enter" /\ f # << >> /\ ProviderTyped /\ CallStands(c)
      /\ UNCHANGED <<texts, results, next, excused>>
      /\ evicting[c] # NoVector => InMemory(evicting[c].text) # {}
      /\ memory' = Put(IF evicting[c] = NoVector THEN memory
                       ELSE Without(memory, evicting[c].text), Head(f))
      /\ unified' = [unified EXCEPT ![Head(f).text] = @ \cup {Head(f)}]
      /\ fresh' = [fresh EXCEPT ![c] = Tail(f)] /\ uncached' = [uncached EXCEPT ![c] = Tail(u)]
      /\ evicting' = [evicting EXCEPT ![c] = NoVector] /\ doing' = [doing EXCEPT ![c] = "store"]
  BY DEF EnterVector, EmbedderGoes, ProviderInv, CallStands
<1>2. /\ memory \in Seq(SoundVectors) /\ texts[c] \in Seq(Texts)
      /\ results[c] \in Seq(SoundVectors \cup {NoVector}) /\ u \in Seq(Nat)
      /\ next[c] \in Nat /\ f \in Seq(SoundVectors)
      /\ SoundVectors \subseteq Vectors /\ \A v \in Vectors : v.text \in Texts
  BY <1>1, ProviderFacts
<1>3. /\ Len(results[c]) = Len(texts[c]) /\ Len(f) = Len(u)
      /\ \A i \in 1 .. Len(texts[c]) : Served(c, i) \/ Waits(c, i, 2)
      /\ \A k \in 1 .. Len(u) : u[k] \in 1 .. Len(texts[c])
      /\ \A k \in 1 .. Len(f) : f[k].text = texts[c][u[k]]
  BY <1>1 DEF CallStands, Resting
<1>4. PICK v : v = Head(f)
  OBVIOUS
<1>5. v \in SoundVectors /\ v.text \in Texts
  BY <1>1, <1>2, <1>4
<1>6. memory' \in Seq(SoundVectors)
  <2>1. evicting[c] # NoVector => Without(memory, evicting[c].text) \in Seq(SoundVectors)
    <3>1. ASSUME evicting[c] # NoVector
          PROVE  \E i \in DOMAIN memory : memory[i].text = evicting[c].text
      BY <1>1, <3>1 DEF InMemory, ToSet
    <3> QED
      BY <1>2, <3>1, WithoutKeeps
  <2>2. PICK m \in Seq(SoundVectors) : memory' = Put(m, v)
    BY <1>1, <1>2, <1>4, <2>1
  <2> QED
    BY <1>5, <2>2, PutKeeps
<1>7. unified' \in [Texts -> SUBSET SoundVectors]
  <2>1. unified \in [Texts -> SUBSET SoundVectors]
    BY <1>1 DEF ProviderTyped
  <2> QED
    BY <1>1, <1>4, <1>5, <2>1
<1>8. \A x \in Texts : \A w \in unified'[x] : w.text = x
  <2>1. unified \in [Texts -> SUBSET SoundVectors]
    BY <1>1 DEF ProviderTyped
  <2>2. \A x \in Texts : unified'[x] = unified[x] \cup (IF x = v.text THEN {v} ELSE {})
    BY <1>1, <1>4, <2>1
  <2>3. \A x \in Texts : \A w \in unified[x] : w.text = x
    BY DEF ProviderInv
  <2> QED
    BY <2>2, <2>3
<1>9. /\ fresh'[c] = Tail(f) /\ uncached'[c] = Tail(u) /\ evicting'[c] = NoVector
      /\ doing'[c] = "store"
  BY <1>1 DEF ProviderTyped
<1>10. /\ fresh'[c] \in Seq(SoundVectors) /\ uncached'[c] \in Seq(Nat)
       /\ Len(fresh'[c]) = Len(f) - 1 /\ Len(uncached'[c]) = Len(u) - 1 /\ Len(u) \in Nat \ {0}
       /\ \A k \in 1 .. Len(u) - 1 : uncached'[c][k] = u[k + 1] /\ fresh'[c][k] = f[k + 1]
  <2>1. Len(f) # 0 /\ Len(f) \in Nat
    BY <1>1, <1>2
  <2>2. u # << >>
    BY <1>2, <1>3, <2>1
  <2>3. Tail(f) \in Seq(SoundVectors) /\ Tail(u) \in Seq(Nat)
    BY <1>1, <1>2, <2>2
  <2>4. Len(Tail(f)) = Len(f) - 1 /\ Len(Tail(u)) = Len(u) - 1
    BY <1>1, <1>2, <2>2
  <2>5. \A k \in 1 .. Len(u) - 1 : Tail(u)[k] = u[k + 1]
    BY <1>2, <2>2
  <2>6. \A k \in 1 .. Len(f) - 1 : Tail(f)[k] = f[k + 1]
    BY <1>1, <1>2
  <2> QED
    BY <1>3, <1>9, <2>1, <2>3, <2>4, <2>5, <2>6
<1>11. \A k \in 1 .. Len(u) - 1 : k + 1 \in 1 .. Len(u)
  BY <1>10
<1>12. /\ \A k \in 1 .. Len(uncached'[c]) : uncached'[c][k] \in 1 .. Len(texts[c])
       /\ \A k \in 1 .. Len(fresh'[c]) : fresh'[c][k].text = texts[c][uncached'[c][k]]
  <2>1. Len(fresh'[c]) = Len(u) - 1 /\ Len(uncached'[c]) = Len(u) - 1
    BY <1>3, <1>10
  <2> QED
    <3>1. \A k \in 1 .. Len(u) - 1 : /\ uncached'[c][k] = u[k + 1] /\ fresh'[c][k] = f[k + 1]
                                     /\ k + 1 \in 1 .. Len(u)
      BY <1>10, <1>11, Zenon
    <3>2. \A k \in 1 .. Len(u) : u[k] \in 1 .. Len(texts[c]) /\ f[k].text = texts[c][u[k]]
      BY <1>3, Zenon
    <3> QED
      BY ONLY <2>1, <3>1, <3>2, Zenon
<1>13. \A i \in 1 .. Len(texts[c]) : Served(c, i)' \/ Waits(c, i, 1)'
  <2> TAKE i \in 1 .. Len(texts[c])
  <2>1. CASE Served(c, i)
    BY <1>1, <2>1 DEF Served
  <2>2. CASE Waits(c, i, 2)
    <3>1. PICK k \in 2 .. Len(u) : u[k] = i
      BY <2>2 DEF Waits
    <3>2. k - 1 \in 1 .. Len(u) - 1 /\ (k - 1) + 1 = k
      <4>1. Len(u) \in Nat
        BY <1>10
      <4> QED
        BY ONLY <3>1, <4>1
    <3>3. uncached'[c][k - 1] = i /\ k - 1 \in 1 .. Len(uncached'[c])
      BY <1>10, <3>1, <3>2
    <3> QED
      BY <3>3 DEF Waits
  <2> QED
    BY <1>3, <2>1, <2>2
<1>14. CallStands(c)'
  BY <1>1, <1>3, <1>9, <1>10, <1>12, <1>13 DEF CallStands, Resting
<1>15. CallStep(c)
  BY DEF CallStep
<1> QED
  BY <1>1, <1>2, <1>6, <1>7, <1>8, <1>9, <1>10, <1>14, <1>15, CallKeeps

LEMMA EndKeeps ==
    ASSUME ProviderInv, NEW c \in Embedders, AlreadyGone(c) \/ Stored(c)
    PROVE  ProviderInv'
<1>1. /\ ProviderTyped /\ CallStands(c) /\ IsAlone(c)
      /\ UNCHANGED <<memory, unified, texts, results, next, excused>>
  BY DEF AlreadyGone, Stored, ProviderInv
<1>2. /\ memory \in Seq(SoundVectors) /\ texts[c] \in Seq(Texts)
      /\ results[c] \in Seq(SoundVectors \cup {NoVector}) /\ uncached[c] \in Seq(Nat)
      /\ next[c] \in Nat /\ fresh[c] \in Seq(SoundVectors)
  BY <1>1, ProviderFacts
<1>3. CallStep(c) /\ unified' \in [Texts -> SUBSET SoundVectors]
  BY <1>1 DEF CallStep, ProviderTyped
<1>4. \A x \in Texts : \A w \in unified'[x] : w.text = x
  BY <1>1 DEF ProviderInv
<1>5. CASE AlreadyGone(c)
  <2>1. /\ doing'[c] = "failed" /\ fresh'[c] = << >> /\ uncached'[c] = << >>
        /\ evicting'[c] = NoVector
    BY <1>1, <1>5 DEF AlreadyGone, EmbedderGoes, ProviderTyped
  <2>2. c \in excused'
    BY <1>1, <1>5 DEF AlreadyGone, IsAlone
  <2>3. fresh'[c] \in Seq(SoundVectors) /\ uncached'[c] \in Seq(Nat)
    BY <2>1
  <2>4. CallStands(c)'
    BY <1>1, <2>1 DEF CallStands, Resting
  <2> QED
    BY <1>1, <1>2, <1>3, <1>4, <2>1, <2>2, <2>3, <2>4, CallKeeps
<1>6. CASE Stored(c)
  <2>1. /\ doing[c] = "store" /\ fresh[c] = << >> /\ doing'[c] = "done"
        /\ UNCHANGED <<uncached, fresh, evicting>> /\ evicting[c] = NoVector
    BY <1>1, <1>6 DEF Stored, EmbedderGoes, ProviderTyped, ProviderInv
  <2>2. Len(uncached[c]) = 0
    BY <1>1, <2>1 DEF CallStands
  <2>3. \A i \in 1 .. Len(texts[c]) : Served(c, i)
    <3>1. 1 .. 0 = {}
      OBVIOUS
    <3> QED
      BY <1>1, <2>1, <2>2, <3>1 DEF CallStands, Waits
  <2>4. CallStands(c)'
    BY <1>1, <2>1, <2>3 DEF CallStands, Resting, Served
  <2> QED
    BY <1>1, <1>2, <1>3, <1>4, <2>1, <2>4, CallKeeps
<1> QED
  BY <1>5, <1>6
----------------------------------------------------------------------------
\* FallbackEmbeddingProvider under CachedEmbeddingProvider: whatever of a batch is cached,
\* evicted in the meantime or asked twice, each text gets its own vector, of the first
\* provider if none has ever refused; and a call fails only if no provider answered or
\* another call was under way.
THEOREM EachTextItsOwn == ProviderSpec => []EmbeddingsAreRight
<1>1. ProviderInit => ProviderInv
  <2> SUFFICES ASSUME ProviderInit
               PROVE  ProviderInv
    OBVIOUS
  <2>1. /\ answering = Providers /\ refusals = 0 /\ memory = << >> /\ excused = {}
        /\ \A t \in Texts : unified[t] = {}
        /\ \A c \in Embedders :
             /\ doing[c] = "idle" /\ texts[c] = << >> /\ results[c] = << >> /\ uncached[c] = << >>
             /\ next[c] = 0 /\ fresh[c] = << >> /\ evicting[c] = NoVector
    BY DEF ProviderInit
  <2>2. ProviderTyped
    <3>1. \A S : << >> \in Seq(S)
      OBVIOUS
    <3>2. texts \in [Embedders -> Seq(Texts)] /\ uncached \in [Embedders -> Seq(Nat)]
      BY <3>1 DEF ProviderInit
    <3>3. /\ results \in [Embedders -> Seq(SoundVectors \cup {NoVector})]
          /\ fresh \in [Embedders -> Seq(SoundVectors)] /\ memory \in Seq(SoundVectors)
      BY <3>1 DEF ProviderInit
    <3>4. refusals \in Nat /\ next \in [Embedders -> Nat]
      BY DEF ProviderInit
    <3>5. /\ answering \subseteq Providers /\ unified \in [Texts -> SUBSET SoundVectors]
          /\ doing \in [Embedders -> Resting \cup {"look up", "ask", "store", "enter"}]
          /\ evicting \in [Embedders -> Vectors \cup {NoVector}] /\ excused \subseteq Embedders
      BY DEF ProviderInit, Resting
    <3> QED
      BY <3>2, <3>3, <3>4, <3>5 DEF ProviderTyped
  <2>3. \A c \in Embedders : CallStands(c) /\ IsAlone(c)
    BY <2>1 DEF CallStands, IsAlone, Resting
  <2> QED
    BY <2>1, <2>2, <2>3 DEF ProviderInv
<1>2. ProviderInv /\ [ProviderNext]_providerVars => ProviderInv'
  <2> SUFFICES ASSUME ProviderInv, [ProviderNext]_providerVars
               PROVE  ProviderInv'
    OBVIOUS
  <2>1. CASE UNCHANGED providerVars
    <3>1. /\ UNCHANGED <<answering, refusals, memory, unified, excused>>
          /\ UNCHANGED <<doing, texts, results, uncached, next, fresh, evicting>>
      BY <2>1 DEF providerVars
    <3>2. \A c \in Embedders : CallStands(c)'
      BY <3>1, SameStands DEF ProviderInv, SameFor
    <3>3. \A c \in Embedders : IsAlone(c)'
      BY <3>1 DEF ProviderInv, IsAlone, InMemory
    <3>4. ProviderTyped'
      BY <3>1 DEF ProviderInv, ProviderTyped, SoundVectors, Vectors
    <3> QED
      BY <3>1, <3>2, <3>3, <3>4 DEF ProviderInv
  <2>2. CASE \/ \E gone \in SUBSET Providers : ServicesFail(gone)
             \/ \E p \in Providers : Recovers(p)
    BY <2>2, ServicesKeep
  <2>3. ASSUME NEW c \in Embedders,
               \/ \E b \in Batches : BeginBatch(c, b)
               \/ GetCached(c) \/ LookedUp(c) \/ AskProvider(c) \/ AllFailed(c)
               \/ StoreVector(c) \/ EnterVector(c) \/ AlreadyGone(c) \/ Stored(c)
        PROVE  ProviderInv'
    BY <2>3, BeginKeeps, GetCachedKeeps, LookedUpKeeps, AskKeeps, StoreVectorKeeps,
       EnterVectorKeeps, EndKeeps
  <2> QED
    BY <2>1, <2>2, <2>3 DEF ProviderNext
<1>3. ProviderInv => EmbeddingsAreRight
  <2> SUFFICES ASSUME ProviderInv, NEW c \in Embedders
               PROVE  /\ doing[c] = "done" =>
                           \A i \in DOMAIN texts[c] :
                               /\ results[c][i] # NoVector /\ results[c][i].text = texts[c][i]
                               /\ refusals = 0 => results[c][i].from = 1
                      /\ doing[c] = "failed" => c \in excused
    BY DEF EmbeddingsAreRight
  <2>1. /\ texts[c] \in Seq(Texts) /\ results[c] \in Seq(SoundVectors \cup {NoVector})
        /\ Len(results[c]) = Len(texts[c])
    BY ProviderFacts DEF ProviderInv, CallStands
  <2>2. DOMAIN texts[c] = 1 .. Len(texts[c])
        /\ \A i \in 1 .. Len(texts[c]) : results[c][i] \in SoundVectors \cup {NoVector}
    BY <2>1
  <2>3. doing[c] = "done" => \A i \in 1 .. Len(texts[c]) : Served(c, i)
    BY DEF ProviderInv, CallStands
  <2>4. doing[c] = "failed" => c \in excused
    BY DEF ProviderInv, IsAlone
  <2> QED
    BY <2>2, <2>3, <2>4 DEF Served, SoundVectors
<1> QED
  BY <1>1, <1>2, <1>3, PTL DEF ProviderSpec
=============================================================================
