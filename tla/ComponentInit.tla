--------------------------- MODULE ComponentInit ---------------------------
(***************************************************************************)
(* server_sdk.get_components: the components of the SDK server, created by *)
(* the first caller under a lock that later callers skip once the first of *)
(* them, the index, is set.  A constructor can raise.                      *)
(*                                                                         *)
(* The server's own calls all come from the thread of its event loop; the  *)
(* lock, and the callers here, are for others.                             *)
(***************************************************************************)
EXTENDS Naturals, Sequences

CONSTANTS Callers,
          NoCaller   \* not one of them

ASSUME SdkAssumption == NoCaller \notin Callers

\* The order of the assignments, and what the configuration can turn off.
Order == <<"index", "vault", "redis", "graphiti", "livegrep">>
Components == {"index", "vault", "redis", "graphiti", "livegrep"}
Optional == {"redis", "graphiti", "livegrep"}

VARIABLES set,     \* the module's globals that are not None
          enabled, \* the optional components that are configured
          building,    \* who holds _components_lock
          stage,      \* where each caller is
          next,    \* what the builder assigns next, as an index of Order
          builds,  \* history: objects constructed, by component
          raised,  \* history: a constructor has raised
          given    \* history: what was returned to each caller last

sdkVars == <<set, enabled, building, stage, next, builds, raised, given>>

SdkInit ==
    /\ set = {}
    /\ enabled \in SUBSET Optional
    /\ building = NoCaller
    /\ stage = [c \in Callers |-> "idle"]
    /\ next = 1
    /\ builds = [k \in Components |-> 0]
    /\ raised = FALSE
    /\ given = [c \in Callers |-> {}]

ToStage(c, where) == stage' = [stage EXCEPT ![c] = where]

\* The check before the lock.
CallComponents(c) ==
    /\ stage[c] = "idle"
    /\ ToStage(c, IF "index" \in set THEN "returning" ELSE "waiting")
    /\ UNCHANGED <<set, enabled, building, next, builds, raised, given>>

\* Mutant: no check after the lock.
AcquireUnchecked(c) ==
    /\ stage[c] = "waiting"
    /\ building = NoCaller
    /\ building' = c /\ ToStage(c, "building") /\ next' = 1
    /\ UNCHANGED <<set, enabled, builds, raised, given>>

\* The lock and the check after it.
AcquireComponents(c) ==
    /\ stage[c] = "waiting"
    /\ building = NoCaller
    /\ IF "index" \in set
       THEN ToStage(c, "returning") /\ UNCHANGED <<building, next>>
       ELSE building' = c /\ ToStage(c, "building") /\ next' = 1
    /\ UNCHANGED <<set, enabled, builds, raised, given>>

Coming(c) == stage[c] = "building" /\ next <= Len(Order)

\* Mutant: the vault can be turned off as well.
WantedOfAll(k) == k \in enabled \cup {"index"}

Wanted(k) == k \in enabled \cup (Components \ Optional)

Build(c) ==
    /\ Coming(c)
    /\ Wanted(Order[next])
    /\ set' = set \cup {Order[next]}
    /\ builds' = [builds EXCEPT ![Order[next]] = @ + 1]
    /\ next' = next + 1
    /\ UNCHANGED <<enabled, building, stage, raised, given>>

Skip(c) ==
    /\ Coming(c)
    /\ ~Wanted(Order[next])
    /\ next' = next + 1
    /\ UNCHANGED <<set, enabled, building, stage, builds, raised, given>>

\* A constructor raises: the call fails, and what was set remains set.
Raise(c) ==
    /\ Coming(c)
    /\ Wanted(Order[next])
    /\ ToStage(c, "idle")
    /\ building' = NoCaller
    /\ raised' = TRUE
    /\ UNCHANGED <<set, enabled, next, builds, given>>

\* The lock is left; a livegrep that does not answer is set to None before.
Built(c) ==
    /\ stage[c] = "building"
    /\ next > Len(Order)
    /\ set' \in {set, set \ {"livegrep"}}
    /\ building' = NoCaller
    /\ ToStage(c, "returning")
    /\ UNCHANGED <<enabled, next, builds, raised, given>>

ReturnComponents(c) ==
    /\ stage[c] = "returning"
    /\ given' = [given EXCEPT ![c] = set]
    /\ ToStage(c, "idle")
    /\ UNCHANGED <<set, enabled, building, next, builds, raised>>

SdkNext == \E c \in Callers :
           \/ CallComponents(c) \/ AcquireComponents(c) \/ Build(c) \/ Skip(c) \/ Raise(c)
           \/ Built(c) \/ ReturnComponents(c)

SdkSpec == SdkInit /\ [][SdkNext]_sdkVars

----------------------------------------------------------------------------
(* Properties                                                              *)

\* No component is constructed twice, whichever callers race for the lock and
\* whatever constructor has raised before.
BuiltOnce == \A k \in Components : builds[k] <= 1

\* "Returns tuple of: index: SQLiteIndex, vault: VaultManager": a caller that
\* is given the components is given the ones that are never turned off, unless
\* another caller is still building them or a constructor has raised before.
TuplesAreComplete ==
    [][\A c \in Callers :
          stage[c] = "returning" /\ building = NoCaller /\ ~raised
              => {"index", "vault"} \cup (enabled \ {"livegrep"}) \subseteq set]_given

\* get_components constructs nothing twice, and gives all there is, unless it is
\* being built or has failed.
ComponentsAreWhole == []BuiltOnce /\ TuplesAreComplete
=============================================================================
