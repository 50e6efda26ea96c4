---------------------------- MODULE MCAgentParts ----------------------------
(***************************************************************************)
(* The two parts that an agent's tools talk to over a pipe or a socket:    *)
(* the client in the editor and the permission broker.  They share nothing *)
(* that matters here, so a behaviour is one of one part, while the other   *)
(* rests; at rest none of the actions that are fair is enabled.            *)
(*                                                                         *)
(* Three processes of the server, so that one is replaced while another    *)
(* one goes on.  One request of the broker on the deny list, one approved  *)
(* automatically and two for a person to decide, one of which fills the    *)
(* queue.                                                                  *)
(***************************************************************************)
EXTENDS PermissionBroker, McpClient

VARIABLE part

MCInit == part \in {"client", "broker"} /\ Init /\ ClientInit

MCNext ==
    \/ part = "client" /\ ClientNext /\ UNCHANGED <<part, vars>>
    \/ part = "broker" /\ Next /\ UNCHANGED <<part, clientVars>>

MCSpec ==
    /\ MCInit /\ [][MCNext]_<<part, vars, clientVars>>
    /\ Fairness /\ ClientFairness
=============================================================================
