--------------------------- MODULE PluginApproval ---------------------------
(***************************************************************************)
(* plugins/loader.py and plugins/registry.py: the allow list, a JSON file  *)
(* that approve and revoke read, change and write back without a lock, and *)
(* what a process loads and registers by it.  Each process makes one call  *)
(* at a time; it is cut where another process, the author of a plug-in or  *)
(* its own death can come in between.                                      *)
(*                                                                         *)
(* A plug-in is a file; its text is a number, which stands for its hash    *)
(* too, 0 for none.  A list is a function from plug-ins to hashes.         *)
(***************************************************************************)
EXTENDS Naturals

CONSTANTS Processes, Plugins, Names,
          MaxText  \* bound: the texts of a plug-in

VARIABLES
    text,       \* the text of each plug-in
    list, torn, \* the allow list; it has been opened for writing and not written
    at, plugin, \* the step of a process, and the plug-in it is about
    seen,       \* the list it has read
    claims,     \* the name that the object of each plug-in gives itself
    plugins,    \* PluginRegistry._plugins: the names
    tools,      \* PluginRegistry._tools: the names that they are filed under
    loaded,     \* history: the text that a process has executed and not yet registered
    approved,   \* history: what each plug-in was approved with, ever
    revoked,    \* history: revoked for good, while nobody else was at work
    edited      \* history: files edited after they were verified for a load

vars == <<text, list, torn, at, plugin, seen, claims, plugins, tools, loaded, approved,
          revoked, edited>>
registry == <<plugins, tools>>
history == <<loaded, approved, revoked, edited>>

Texts == 1..MaxText
Empty == [p \in Plugins |-> 0]
NoPlugin == "none"

Init ==
    /\ text = [p \in Plugins |-> 1] /\ list = Empty /\ torn = FALSE
    /\ at = [u \in Processes |-> "idle"] /\ plugin = [u \in Processes |-> NoPlugin]
    /\ seen = [u \in Processes |-> Empty] /\ claims \in [Plugins -> Names]
    /\ plugins = [u \in Processes |-> {}]
    /\ tools = [u \in Processes |-> {}]
    /\ loaded = [u \in Processes |-> 0]
    /\ approved = [p \in Plugins |-> {}] /\ revoked = {} /\ edited = {}

Goto(u, s) == at' = [at EXCEPT ![u] = s]
Leave(u) ==
    /\ Goto(u, "idle") /\ plugin' = [plugin EXCEPT ![u] = NoPlugin]
    /\ seen' = [seen EXCEPT ![u] = Empty]
Forget(u) == loaded' = [loaded EXCEPT ![u] = 0] /\ edited' = edited \ {u}
Alone(u) == \A v \in Processes \ {u} : at[v] = "idle"

\* _load_allowlist: no file, and one that is not JSON, are an empty list.
Read == IF torn THEN Empty ELSE list

Edit(p) ==
    /\ text[p] < MaxText /\ text' = [text EXCEPT ![p] = @ + 1]
    /\ edited' = edited \cup {u \in Processes : at[u] = "execute" /\ plugin[u] = p}
    /\ UNCHANGED <<list, torn, at, plugin, seen, claims, registry, loaded, approved, revoked>>

\* approve_plugin, revoke_plugin and load_plugins begin with the list.
Begin(u, s, p) ==
    /\ at[u] = "idle" /\ Goto(u, s)
    /\ plugin' = [plugin EXCEPT ![u] = p] /\ seen' = [seen EXCEPT ![u] = Read]
    /\ UNCHANGED <<text, list, torn, claims, registry, history>>

Changed(u) ==
    [seen[u] EXCEPT ![plugin[u]] = IF at[u] = "approve" THEN text[plugin[u]] ELSE 0]

\* The hash is taken, or the entry deleted, and the file opened, which empties it.
Open(u) ==
    /\ \/ at[u] = "approve"
       \/ at[u] = "revoke" /\ seen[u][plugin[u]] # 0
    /\ torn' = TRUE /\ seen' = [seen EXCEPT ![u] = Changed(u)]
    /\ approved' = [approved EXCEPT ![plugin[u]] = @ \cup ({Changed(u)[plugin[u]]} \ {0})]
    /\ revoked' = IF at[u] = "approve" THEN revoked \ {plugin[u]} ELSE revoked
    /\ Goto(u, IF at[u] = "approve" THEN "save" ELSE "save revoked")
    /\ UNCHANGED <<text, list, plugin, claims, registry, loaded, edited>>

\* A revocation holds from here on if nobody else is at work.
Save(u) ==
    /\ at[u] \in {"save", "save revoked"} /\ list' = seen[u] /\ torn' = FALSE
    /\ revoked' = IF at[u] = "save revoked" /\ Alone(u) THEN revoked \cup {plugin[u]}
                  ELSE revoked
    /\ Leave(u)
    /\ UNCHANGED <<text, claims, registry, loaded, approved, edited>>

NothingToRevoke(u) ==
    /\ at[u] = "revoke" /\ seen[u][plugin[u]] = 0 /\ Leave(u)
    /\ UNCHANGED <<text, list, torn, claims, registry, history>>

\* Mutant: what is on the list may be executed, whatever has become of it.
VerifiedByName(u) == seen[u][plugin[u]] # 0

\* verify_plugin
Verified(u) == seen[u][plugin[u]] = text[plugin[u]]

Verify(u) ==
    /\ at[u] = "load"
    /\ IF Verified(u) THEN Goto(u, "execute") /\ UNCHANGED <<plugin, seen>> ELSE Leave(u)
    /\ edited' = edited \ {u}
    /\ UNCHANGED <<text, list, torn, claims, registry, loaded, approved, revoked>>

\* load_plugin_from_file reads the file again.  It may raise, or hold no plug-in.
Execute(u) ==
    /\ at[u] = "execute"
    /\ \/ loaded' = [loaded EXCEPT ![u] = text[plugin[u]]]
          /\ Goto(u, "register") /\ UNCHANGED <<plugin, seen>>
       \/ UNCHANGED loaded /\ Leave(u)
    /\ UNCHANGED <<text, list, torn, claims, registry, approved, revoked, edited>>

\* PluginRegistry.register: a name is taken once; the plug-in's tools may raise after
\* it has been entered.
Register(u) ==
    /\ at[u] = "register"
    /\ LET n == claims[plugin[u]] IN
       \/ n \in plugins[u] /\ UNCHANGED registry
       \/ /\ n \notin plugins[u]
          /\ plugins' = [plugins EXCEPT ![u] = @ \cup {n}]
          /\ tools' \in {tools, [tools EXCEPT ![u] = @ \cup {n}]}
    /\ Leave(u) /\ Forget(u)
    /\ UNCHANGED <<text, list, torn, claims, approved, revoked>>

\* Mutant: a plug-in whose shutdown raises is gone, and its tools are not.
UnregisterPluginFirst(u, n) ==
    /\ at[u] = "idle" /\ n \in plugins[u]
    /\ plugins' = [plugins EXCEPT ![u] = @ \ {n}]
    /\ tools' \in {tools, [tools EXCEPT ![u] = @ \ {n}]}
    /\ UNCHANGED <<text, list, torn, at, plugin, seen, claims, history>>

\* unregister: the tools go first; if the plug-in's tools raise, nothing does.
Unregister(u, n) ==
    /\ at[u] = "idle" /\ n \in plugins[u]
    /\ plugins' = [plugins EXCEPT ![u] = @ \ {n}]
    /\ tools' = [tools EXCEPT ![u] = @ \ {n}]
    /\ UNCHANGED <<text, list, torn, at, plugin, seen, claims, history>>

\* A process dies; the file stays as it is.
Dies(u) ==
    /\ Leave(u)
    /\ plugins' = [plugins EXCEPT ![u] = {}]
    /\ tools' = [tools EXCEPT ![u] = {}] /\ Forget(u)
    /\ UNCHANGED <<text, list, torn, claims, approved, revoked>>

Next ==
    \/ \E p \in Plugins : Edit(p)
    \/ \E u \in Processes :
         \/ \E s \in {"approve", "revoke", "load"}, p \in Plugins : Begin(u, s, p)
         \/ Open(u) \/ Save(u) \/ NothingToRevoke(u)
         \/ Verify(u) \/ Execute(u) \/ Register(u)
         \/ \E n \in Names : Unregister(u, n)
         \/ Dies(u)

Spec == Init /\ [][Next]_vars
-----------------------------------------------------------------------------
\* However approvals, revocations, deaths and loads overlap, what is executed is a text
\* that was approved some time, unless its file was edited after it was verified.
ExecutedWasApproved ==
    \A u \in Processes :
        at[u] = "register" /\ u \notin edited => loaded[u] \in approved[plugin[u]]

\* What was revoked while nobody else was at work stays off the list until it is approved
\* again, and tools are filed under the names of registered plug-ins only.
RevokedStaysOff ==
    /\ ~torn => \A p \in revoked : list[p] = 0
    /\ \A u \in Processes : tools[u] \subseteq plugins[u]

\* Both of them: the allow list keeps what is approved and what is revoked.
ApprovalsHold == ExecutedWasApproved /\ RevokedStaysOff
=============================================================================
