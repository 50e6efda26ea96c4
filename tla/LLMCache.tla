------------------------------ MODULE LLMCache ------------------------------
(***************************************************************************)
(* llm_cache.py: get_or_generate, get, invalidate and clear, cut at every  *)
(* Redis command, at the lock of the index and at the await of the         *)
(* generator.  A command may fail, before or after it took effect; a call  *)
(* takes a failed lookup for a miss.                                       *)
(*                                                                         *)
(* An answer is the prompt it was generated for and a number.  The index   *)
(* maps the hashes of prompts to embeddings, so it is a set of prompts.    *)
(***************************************************************************)
EXTENDS Naturals, FiniteSets

CONSTANTS Askers, Prompts, Similar, Embedded, MaxAnswers, NoAnswer

VARIABLES
    entry,          \* the answers in Redis, by prompt
    index,          \* _embedding_index
    where,          \* the step an asker is at
    want, look,     \* its prompt, and the prompt whose entry it looks up
    got,            \* the answer it has read or generated
    left,           \* the keys that its clear has still to delete
    answers,        \* how many have been generated
    buried          \* history: answers removed while no other call was under way

llmVars == <<entry, index, where, want, look, got, left, answers, buried>>

Answers == [prompt : Prompts, number : 1..MaxAnswers]

ASSUME LlmAssumption == Prompts # {} /\ MaxAnswers \in Nat /\ NoAnswer \notin Answers

Alone(a) == \A b \in Askers \ {a} : where[b] = "idle"

\* Whether the answer to one prompt may be given to another.
Fits(p, q) == p = q \/ {p, q} \in Similar

LlmInit ==
    /\ entry = [p \in Prompts |-> NoAnswer] /\ index = {}
    /\ where = [a \in Askers |-> "idle"]
    /\ want = [a \in Askers |-> CHOOSE p \in Prompts : TRUE] /\ look = want
    /\ got = [a \in Askers |-> NoAnswer] /\ left = [a \in Askers |-> {}]
    /\ answers = 0 /\ buried = {}

AskerGoes(a, s) == where' = [where EXCEPT ![a] = s]

\* The call is over; what it looked up and held is of no more use.
AskerLeaves(a) ==
    /\ AskerGoes(a, "idle") /\ got' = [got EXCEPT ![a] = NoAnswer]
    /\ look' = [look EXCEPT ![a] = want[a]]

\* get and get_or_generate begin with the entry of the prompt itself.
Ask(a, p, s) ==
    /\ where[a] = "idle" /\ AskerGoes(a, s)
    /\ want' = [want EXCEPT ![a] = p] /\ look' = [look EXCEPT ![a] = p]
    /\ UNCHANGED <<entry, index, got, left, answers, buried>>

\* A lookup found nothing: after the exact entry comes a similar one, after that, or
\* without an embedding, the generator; get has only the first.
Missed(a, s) ==
    IF s = "only" THEN AskerLeaves(a)
    ELSE /\ AskerGoes(a, IF s = "exact" /\ want[a] \in Embedded THEN "match" ELSE "generate")
         /\ got' = [got EXCEPT ![a] = NoAnswer] /\ UNCHANGED look

Lookups == {"only", "exact", "close"}
Touching(s) ==
    CASE s = "only" -> "touch only" [] s = "exact" -> "touch exact" [] s = "close" -> "touch close"

\* _get_exact_match: GET, which fails, finds nothing, or finds an entry ...
Lookup(a, s) ==
    /\ where[a] = s
    /\ \/ Missed(a, s)
       \/ /\ entry[look[a]] # NoAnswer
          /\ got' = [got EXCEPT ![a] = entry[look[a]]]
          /\ AskerGoes(a, Touching(s)) /\ UNCHANGED look
    /\ UNCHANGED <<entry, index, want, left, answers, buried>>

\* ... which is written again with its access count, whatever has become of it since.
Touch(a, s) ==
    /\ where[a] = Touching(s)
    /\ \/ entry' = [entry EXCEPT ![look[a]] = got[a]] /\ (AskerLeaves(a) \/ Missed(a, s))
       \/ UNCHANGED entry /\ Missed(a, s)
    /\ UNCHANGED <<index, want, left, answers, buried>>

\* _find_semantic_match: the prompt itself is the best match, then those like it.
Closest(p) == IF p \in index THEN {p} ELSE {q \in index : Fits(p, q)}

Match(a) ==
    /\ where[a] = "match"
    /\ \/ \E q \in Closest(want[a]) : look' = [look EXCEPT ![a] = q] /\ AskerGoes(a, "close")
       \/ Closest(want[a]) = {} /\ UNCHANGED look /\ AskerGoes(a, "generate")
    /\ UNCHANGED <<entry, index, want, got, left, answers, buried>>

\* The generator is awaited; it gives an answer or raises.
Generate(a) ==
    /\ where[a] = "generate"
    /\ \/ /\ answers < MaxAnswers /\ answers' = answers + 1
          /\ got' = [got EXCEPT ![a] = [prompt |-> want[a], number |-> answers']]
          /\ AskerGoes(a, "store") /\ UNCHANGED look
       \/ AskerLeaves(a) /\ UNCHANGED answers
    /\ UNCHANGED <<entry, index, want, left, buried>>

\* Mutant: the answer is stored for the prompt whose entry was looked up last.
StoreUnderMatch(a) ==
    /\ where[a] = "store"
    /\ \/ /\ entry' = [entry EXCEPT ![look[a]] = got[a]]
          /\ \/ AskerLeaves(a)
             \/ want[a] \in Embedded /\ AskerGoes(a, "index") /\ UNCHANGED <<got, look>>
       \/ UNCHANGED entry /\ AskerLeaves(a)
    /\ UNCHANGED <<index, want, left, answers, buried>>

\* _store_response: SETEX, after which the prompt enters the index.
Store(a) ==
    /\ where[a] = "store"
    /\ \/ /\ entry' = [entry EXCEPT ![want[a]] = got[a]]
          /\ \/ AskerLeaves(a)
             \/ want[a] \in Embedded /\ AskerGoes(a, "index") /\ UNCHANGED <<got, look>>
       \/ UNCHANGED entry /\ AskerLeaves(a)
    /\ UNCHANGED <<index, want, left, answers, buried>>

AddToIndex(a) ==
    /\ where[a] = "index" /\ index' = index \cup {want[a]} /\ AskerLeaves(a)
    /\ UNCHANGED <<entry, want, left, answers, buried>>

TakeOut(a, gone) ==
    /\ entry' = [p \in Prompts |-> IF p \in gone THEN NoAnswer ELSE entry[p]]
    /\ buried' = IF Alone(a) THEN buried \cup ({entry[p] : p \in gone} \ {NoAnswer})
                 ELSE buried

\* Mutant: what is not in the index is taken to be in no cache.
InvalidateIndexed(a, p) ==
    /\ where[a] = "idle" /\ AskerGoes(a, "pop") /\ want' = [want EXCEPT ![a] = p]
    /\ look' = [look EXCEPT ![a] = p]
    /\ buried' = IF Alone(a) THEN buried \cup ({entry[p]} \ {NoAnswer}) ELSE buried
    /\ entry' = [entry EXCEPT ![p] = IF p \in index THEN NoAnswer ELSE @]
    /\ UNCHANGED <<index, got, left, answers>>

\* invalidate: DELETE, then the index.  If DELETE fails the index stays as it is.
Invalidate(a, p) ==
    /\ where[a] = "idle" /\ AskerGoes(a, "pop") /\ want' = [want EXCEPT ![a] = p]
    /\ look' = [look EXCEPT ![a] = p]
    /\ TakeOut(a, {p})
    /\ UNCHANGED <<index, got, left, answers>>

InvalidateFails(a, p) ==
    /\ where[a] = "idle" /\ entry' = [entry EXCEPT ![p] = NoAnswer]
    /\ UNCHANGED <<index, where, want, look, got, left, answers, buried>>

PopIndex(a) ==
    /\ where[a] = "pop" /\ index' = index \ {want[a]} /\ AskerGoes(a, "idle")
    /\ UNCHANGED <<entry, want, look, got, left, answers, buried>>

\* clear deletes what SCAN returns, batch by batch: at least what is there all along.
ClearAnswers(a) ==
    /\ where[a] = "idle" /\ AskerGoes(a, "clear")
    /\ left' = [left EXCEPT ![a] = {p \in Prompts : entry[p] # NoAnswer}]
    /\ UNCHANGED <<entry, index, want, look, got, answers, buried>>

ClearBatch(a, batch) ==
    /\ where[a] = "clear" /\ batch # {} /\ batch \subseteq left[a]
    /\ TakeOut(a, batch)
    /\ left' = [left EXCEPT ![a] = @ \ batch]
    /\ UNCHANGED <<index, where, want, look, got, answers>>

ClearEnds(a) ==
    /\ where[a] = "clear" /\ AskerGoes(a, "idle") /\ left' = [left EXCEPT ![a] = {}]
    /\ \/ left[a] = {} /\ index' = {}
       \/ UNCHANGED index
    /\ UNCHANGED <<entry, want, look, got, answers, buried>>

\* The hash of an entry that has expired stays in the index.
AnswerExpires(p) ==
    /\ entry[p] # NoAnswer /\ entry' = [entry EXCEPT ![p] = NoAnswer]
    /\ UNCHANGED <<index, where, want, look, got, left, answers, buried>>

LlmNext ==
    \/ \E p \in Prompts : AnswerExpires(p)
    \/ \E a \in Askers :
         \/ \E p \in Prompts : Ask(a, p, "only") \/ Ask(a, p, "exact")
         \/ \E s \in Lookups : Lookup(a, s) \/ Touch(a, s)
         \/ Match(a) \/ Generate(a) \/ Store(a) \/ AddToIndex(a)
         \/ \E p \in Prompts : Invalidate(a, p) \/ InvalidateFails(a, p)
         \/ PopIndex(a) \/ ClearAnswers(a) \/ ClearEnds(a)
         \/ \E batch \in SUBSET Prompts : ClearBatch(a, batch)

LlmSpec == LlmInit /\ [][LlmNext]_llmVars
-----------------------------------------------------------------------------
\* What invalidate or clear removed while no other call was under way is never served
\* again.  (A call that was under way may write it back: the entry it had read, or the
\* answer it was waiting for.)
RemovedStaysGone ==
    /\ \A p \in Prompts : entry[p] \notin buried
    /\ \A a \in Askers : got[a] \notin buried

\* Whatever expires, is removed or stored in between, the answer that is served was
\* generated for the prompt, or for one whose embedding is close to its own.
AnswersFit ==
    \A a \in Askers : got[a] # NoAnswer => Fits(want[a], got[a].prompt)

\* What was invalidated or cleared is not served again, and what is served answers the
\* prompt or one that is similar to it.
AnswersAreRight == RemovedStaysGone /\ AnswersFit
=============================================================================
