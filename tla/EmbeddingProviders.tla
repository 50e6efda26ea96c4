------------------------- MODULE EmbeddingProviders -------------------------
(***************************************************************************)
(* embedding_provider.py: FallbackEmbeddingProvider under                  *)
(* CachedEmbeddingProvider, called by threads without a lock.  A batch is  *)
(* looked up text by text, what is missing goes to the providers in their  *)
(* order, and the answers are put in their places and in the cache.        *)
(*                                                                         *)
(* A vector is the text it embeds and the provider it is from.  Behind the *)
(* memory cache, the unified cache of embedding_cache.py is no more than   *)
(* VectorStore says of it: it may give any vector of a text that it was    *)
(* given, an older one too, or none, as if it had lost them.  embed is a   *)
(* batch of one.                                                           *)
(***************************************************************************)
EXTENDS Naturals, Sequences, SequencesExt

CONSTANTS Embedders, Texts, Batches, Providers, MaxMemory, MaxRefusals, NoVector

ASSUME ProviderAssumption ==
    /\ Batches \subseteq Seq(Texts) /\ Providers \subseteq Nat /\ MaxMemory \in Nat \ {0}
    /\ NoVector \notin [text : Texts, from : Providers]

VARIABLES
    answering, refusals,    \* the providers that answer; how often one did not
    memory,         \* _memory_cache, oldest first
    unified,        \* the vectors of each text that the unified cache was given
    doing, texts,   \* the step of a caller, and its texts
    results,        \* one for each text
    uncached,       \* uncached_indices, those that have no new vector yet
    next,           \* the text, or the provider, it is at
    fresh,          \* the vectors that the provider gave
    evicting,       \* the oldest vector of the memory cache, which it will delete
    excused         \* history: no provider answered, or another call was under way

providerVars == <<answering, refusals, memory, unified, doing, texts, results, uncached, next,
                  fresh, evicting, excused>>
services == <<answering, refusals>>

\* fallback_order: a provider is its place in it.
Vectors == [text : Texts, from : Providers]

ProviderInit ==
    /\ answering = Providers /\ refusals = 0
    /\ memory = <<>> /\ unified = [t \in Texts |-> {}]
    /\ doing = [c \in Embedders |-> "idle"] /\ texts = [c \in Embedders |-> <<>>]
    /\ results = texts /\ uncached = texts /\ next = [c \in Embedders |-> 0] /\ fresh = texts
    /\ evicting = [c \in Embedders |-> NoVector] /\ excused = {}

EmbedderGoes(c, s) == doing' = [doing EXCEPT ![c] = s]
GoesTo(c, n) == next' = [next EXCEPT ![c] = n]

\* The network, or one service, is away.
ServicesFail(gone) ==
    /\ gone # {} /\ gone \subseteq answering /\ refusals < MaxRefusals
    /\ refusals' = refusals + 1 /\ answering' = answering \ gone
    /\ UNCHANGED <<memory, unified, doing, texts, results, uncached, next, fresh, evicting, excused>>
Recovers(p) ==
    /\ p \notin answering /\ answering' = answering \cup {p}
    /\ UNCHANGED <<refusals, memory, unified, doing, texts, results, uncached, next, fresh,
                   evicting, excused>>

Resting == {"idle", "done", "failed"}

BeginBatch(c, b) ==
    /\ doing[c] \in Resting /\ EmbedderGoes(c, "look up") /\ GoesTo(c, 1)
    /\ texts' = [texts EXCEPT ![c] = b]
    /\ results' = [results EXCEPT ![c] = [i \in DOMAIN b |-> NoVector]]
    /\ uncached' = [uncached EXCEPT ![c] = <<>>]
    /\ excused' = IF \A d \in Embedders \ {c} : doing[d] \in Resting
                  THEN excused \ {c} ELSE Embedders
    /\ UNCHANGED <<services, memory, unified, fresh, evicting>>

InMemory(t) == {v \in ToSet(memory) : v.text = t}

\* A dict keeps the place of a key that it has, and closes the gap of one that goes.
Put(m, v) ==
    IF \E i \in DOMAIN m : m[i].text = v.text
    THEN [i \in DOMAIN m |-> IF m[i].text = v.text THEN v ELSE m[i]]
    ELSE Append(m, v)
Without(m, t) == RemoveAt(m, CHOOSE i \in DOMAIN m : m[i].text = t)

\* _get_cached for one text; a hit in the unified cache enters the memory cache, which
\* has no limit here.
GetCached(c) ==
    /\ doing[c] = "look up" /\ next[c] \in DOMAIN texts[c] /\ GoesTo(c, next[c] + 1)
    /\ LET t == texts[c][next[c]] IN
       \/ /\ \E v \in InMemory(t) : results' = [results EXCEPT ![c][next[c]] = v]
          /\ UNCHANGED <<memory, uncached>>
       \/ /\ InMemory(t) = {}
          /\ \E v \in unified[t] :
                results' = [results EXCEPT ![c][next[c]] = v] /\ memory' = Put(memory, v)
          /\ UNCHANGED uncached
       \/ /\ InMemory(t) = {}
          /\ uncached' = [uncached EXCEPT ![c] = Append(@, next[c])]
          /\ UNCHANGED <<results, memory>>
    /\ UNCHANGED <<services, unified, doing, texts, fresh, evicting, excused>>

LookedUp(c) ==
    /\ doing[c] = "look up" /\ next[c] > Len(texts[c]) /\ GoesTo(c, 1)
    /\ EmbedderGoes(c, IF uncached[c] = <<>> THEN "done" ELSE "ask")
    /\ UNCHANGED <<services, memory, unified, texts, results, uncached, fresh, evicting, excused>>

\* One provider after the other; an error of any kind leads to the next.
AskProvider(c) ==
    /\ doing[c] = "ask" /\ next[c] \in Providers
    /\ IF next[c] \in answering
       THEN /\ fresh' = [fresh EXCEPT ![c] =
                   [i \in DOMAIN uncached[c] |->
                        [text |-> texts[c][uncached[c][i]], from |-> next[c]]]]
            /\ GoesTo(c, 1) /\ EmbedderGoes(c, "store")
       ELSE GoesTo(c, next[c] + 1) /\ UNCHANGED <<fresh, doing>>
    /\ UNCHANGED <<services, memory, unified, texts, results, uncached, evicting, excused>>

AllFailed(c) ==
    /\ doing[c] = "ask" /\ next[c] \notin Providers
    /\ EmbedderGoes(c, "failed") /\ GoesTo(c, 0) /\ excused' = excused \cup {c}
    /\ UNCHANGED <<services, memory, unified, texts, results, uncached, fresh, evicting>>

\* Mutant: the new vectors fill the results from the front.
PlaceFromFront(c) == 1 + Len(texts[c]) - Len(fresh[c])

\* The place of the next new vector: the indices and the vectors are zipped.
Place(c) == Head(uncached[c])

\* _set_cached: a full memory cache chooses its oldest key ...
StoreVector(c) ==
    /\ doing[c] = "store" /\ fresh[c] # <<>>
    /\ results' = [results EXCEPT ![c][Place(c)] = Head(fresh[c])]
    /\ evicting' = [evicting EXCEPT
                        ![c] = IF Len(memory) >= MaxMemory THEN Head(memory) ELSE NoVector]
    /\ EmbedderGoes(c, "enter")
    /\ UNCHANGED <<services, memory, unified, texts, uncached, next, fresh, excused>>

\* ... and deletes it, which raises if another thread has; then both caches are set.
EnterVector(c) ==
    /\ doing[c] = "enter"
    /\ evicting[c] # NoVector => InMemory(evicting[c].text) # {}
    /\ memory' = Put(IF evicting[c] = NoVector THEN memory
                     ELSE Without(memory, evicting[c].text), Head(fresh[c]))
    /\ unified' = [unified EXCEPT ![Head(fresh[c]).text] = @ \cup {Head(fresh[c])}]
    /\ fresh' = [fresh EXCEPT ![c] = Tail(@)] /\ uncached' = [uncached EXCEPT ![c] = Tail(@)]
    /\ evicting' = [evicting EXCEPT ![c] = NoVector] /\ EmbedderGoes(c, "store")
    /\ UNCHANGED <<services, texts, results, next, excused>>

AlreadyGone(c) ==
    /\ doing[c] = "enter" /\ evicting[c] # NoVector /\ InMemory(evicting[c].text) = {}
    /\ EmbedderGoes(c, "failed") /\ fresh' = [fresh EXCEPT ![c] = <<>>]
    /\ uncached' = [uncached EXCEPT ![c] = <<>>]
    /\ evicting' = [evicting EXCEPT ![c] = NoVector]
    /\ UNCHANGED <<services, memory, unified, texts, results, next, excused>>

Stored(c) ==
    /\ doing[c] = "store" /\ fresh[c] = <<>> /\ EmbedderGoes(c, "done")
    /\ UNCHANGED <<services, memory, unified, texts, results, uncached, next, fresh, evicting,
                   excused>>

ProviderNext ==
    \/ \E gone \in SUBSET Providers : ServicesFail(gone)
    \/ \E p \in Providers : Recovers(p)
    \/ \E c \in Embedders :
         \/ \E b \in Batches : BeginBatch(c, b)
         \/ GetCached(c) \/ LookedUp(c) \/ AskProvider(c) \/ AllFailed(c)
         \/ StoreVector(c) \/ EnterVector(c) \/ AlreadyGone(c) \/ Stored(c)

ProviderSpec == ProviderInit /\ [][ProviderNext]_providerVars
-----------------------------------------------------------------------------
\* Whatever of a batch is cached, evicted in the meantime or asked twice, each text gets
\* its own vector, by the first provider if none has ever failed; and a call fails only if
\* no provider answered or another call was under way.
EmbeddingsAreRight ==
    \A c \in Embedders :
        /\ doing[c] = "done" =>
             \A i \in DOMAIN texts[c] :
                 /\ results[c][i] # NoVector /\ results[c][i].text = texts[c][i]
                 /\ refusals = 0 => results[c][i].from = 1
        /\ doing[c] = "failed" => c \in excused
=============================================================================
