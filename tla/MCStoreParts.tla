---------------------------- MODULE MCStoreParts ----------------------------
(***************************************************************************)
(* Six parts of what the servers keep between calls: the sessions, the    *)
(* hot tier, the cache of the model's answers, the two tiers of            *)
(* embeddings, the embedding providers on top of what VectorStore says of  *)
(* them, and the statistics.  They share nothing that matters here, so a   *)
(* behaviour is one of one part, while the others rest.                    *)
(*                                                                         *)
(* Sessions: two servers on one Redis, each with a session of its own that *)
(* the other can restore, and one server without Redis.  Elsewhere two     *)
(* workers: threads, tasks or processes.  The window of the hot tier holds *)
(* one message, so that the second is trimmed; the list of three is two    *)
(* copies of a message that was sent again, on top of one.  Of the three   *)
(* prompts the second is like both others, which are not like each other.  *)
(* The memory cache of the providers holds one vector, so that the next    *)
(* one evicts it; a batch can have a text twice.  A batch of the           *)
(* statistics is two operations.                                           *)
(***************************************************************************)
EXTENDS SessionStore, HotTier, LLMCache, EmbeddingCache, EmbeddingProviders, StatsFile, TLC

CONSTANTS s1, s2, s3, a, b

FirstIds == (s1 :> a) @@ (s2 :> b) @@ (s3 :> a)
Alike == {{1, 2}, {2, 3}}

\* A batch of two texts, or of one twice.
Pairs == Texts \X Texts

VARIABLE part

MCInit ==
    /\ part \in {"session", "hot", "llm", "vectors", "provider", "stats"}
    /\ Init /\ HotInit /\ LlmInit /\ VectorInit /\ ProviderInit /\ StatsInit

MCNext ==
    \/ part = "session" /\ Next
       /\ UNCHANGED <<part, hotVars, llmVars, vectorVars, providerVars, statsVars>>
    \/ part = "hot" /\ HotNext
       /\ UNCHANGED <<part, vars, llmVars, vectorVars, providerVars, statsVars>>
    \/ part = "llm" /\ LlmNext
       /\ UNCHANGED <<part, vars, hotVars, vectorVars, providerVars, statsVars>>
    \/ part = "vectors" /\ VectorNext
       /\ UNCHANGED <<part, vars, hotVars, llmVars, providerVars, statsVars>>
    \/ part = "provider" /\ ProviderNext
       /\ UNCHANGED <<part, vars, hotVars, llmVars, vectorVars, statsVars>>
    \/ part = "stats" /\ StatsNext
       /\ UNCHANGED <<part, vars, hotVars, llmVars, vectorVars, providerVars>>

MCSpec == MCInit /\ [][MCNext]_<<part, vars, hotVars, llmVars, vectorVars, providerVars,
                                 statsVars>>

Symmetry == Permutations(Users)
=============================================================================
