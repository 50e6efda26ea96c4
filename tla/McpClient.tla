----------------------------- MODULE McpClient -----------------------------
(***************************************************************************)
(* The VS Code extension's McpClient and the stdio loop of the memory      *)
(* server, over the pipes between them.  The client runs on one event      *)
(* loop; each action is one of its callbacks.  connect starts a process of *)
(* its own; a process that was started before it is neither awaited nor    *)
(* killed, and all of them share the client's buffer and its table of      *)
(* pending requests.                                                       *)
(*                                                                         *)
(* A request is its id.  An answer has the id of its request, or 0, and    *)
(* comes as a whole line, or in two chunks.                                *)
(***************************************************************************)
EXTENDS Naturals, Sequences, FiniteSets

CONSTANTS MaxProcs,  \* bound: processes that are started
          MaxCalls   \* bound: requests that are sent

Procs == 1 .. MaxProcs
Ids == 1 .. MaxCalls

VARIABLES activated,     \* the extension is activated and not yet deactivated
          process,    \* McpClient.process, 0 for null
          connected,  \* McpClient.connected
          requestId,  \* McpClient.requestId
          pendingRequests, \* McpClient.pendingRequests: the keys
          buffer,     \* McpClient.buffer: the chunks of the unfinished line
          state,      \* each process: unborn, up, down, or down and closed
          opens,      \* each process: the id of the initialize sent to it, or 0
          stdin,      \* each process: the ids it has not read
          stdout,     \* each process: the chunks the client has not read
          sentTo,     \* history: the process that each request was written to
          answeredBy, \* history: the process whose answer settled it, or 0
          overlapped  \* history: a connect came while another was waiting

client == <<activated, process, connected, requestId, pendingRequests, buffer>>
pipes == <<state, opens, stdin, stdout>>
history == <<sentTo, answeredBy, overlapped>>
clientVars == <<client, pipes, history>>

ClientInit ==
    /\ activated = TRUE /\ process = 0 /\ connected = FALSE
    /\ requestId = 0 /\ pendingRequests = {} /\ buffer = <<>>
    /\ state = [p \in Procs |-> "unborn"]
    /\ opens = [p \in Procs |-> 0]
    /\ stdin = [p \in Procs |-> <<>>]
    /\ stdout = [p \in Procs |-> <<>>]
    /\ sentTo = [i \in Ids |-> 0]
    /\ answeredBy = [i \in Ids |-> 0]
    /\ overlapped = FALSE

----------------------------------------------------------------------------
(* The client                                                              *)

\* call: the request, its entry and its timer.
Send(i, p) ==
    /\ i \in Ids
    /\ requestId' = i
    /\ pendingRequests' = pendingRequests \cup {i}
    /\ stdin' = [stdin EXCEPT ![p] = Append(@, i)]
    /\ sentTo' = [sentTo EXCEPT ![i] = p]

\* Mutant: each connection numbers its requests from one.
FirstIdOfOwn == 1

FirstId == requestId + 1

\* connect: unless it is connected, a new process, which is sent initialize.
Connect ==
    /\ activated
    /\ ~(connected /\ process # 0)
    /\ \E p \in Procs :
        /\ state[p] = "unborn" /\ \A q \in 1 .. p - 1 : state[q] # "unborn"
        /\ process' = p
        /\ state' = [state EXCEPT ![p] = "up"]
        /\ opens' = [opens EXCEPT ![p] = FirstId]
        /\ Send(FirstId, p)
    /\ overlapped' = (overlapped \/ \E q \in Procs : opens[q] \in pendingRequests)
    /\ UNCHANGED <<activated, connected, buffer, stdout, answeredBy>>

\* search, store, recall, list, getStats, delete; without a process they throw.
Call ==
    /\ activated
    /\ process # 0
    /\ Send(requestId + 1, process)
    /\ UNCHANGED <<activated, process, connected, buffer, state, opens, stdout,
                   answeredBy, overlapped>>

\* Mutant: no timer for what was sent to a process that has been replaced.
TimeoutOfCurrent(i) ==
    /\ i \in pendingRequests
    /\ sentTo[i] = process
    /\ pendingRequests' = pendingRequests \ {i}
    /\ UNCHANGED <<activated, process, connected, requestId, buffer, pipes, history>>

\* The timer of a request.
Timeout(i) ==
    /\ i \in pendingRequests
    /\ pendingRequests' = pendingRequests \ {i}
    /\ UNCHANGED <<activated, process, connected, requestId, buffer, pipes, history>>

\* A line that is an answer settles the request it names, if that is pending.
\* An initialize that is settled so makes the client connected, whichever
\* process it was sent to.
Settle(p, i) ==
    IF i \in pendingRequests
    THEN /\ pendingRequests' = pendingRequests \ {i}
         /\ answeredBy' = [answeredBy EXCEPT ![i] = p]
         /\ connected' = (connected \/ \E q \in Procs : opens[q] = i)
    ELSE UNCHANGED <<pendingRequests, answeredBy, connected>>

IsAnswer(line) ==
    \/ Len(line) = 1 /\ line[1].part = "whole"
    \/ Len(line) = 2 /\ line[1].part = "head" /\ line[2] = [line[1] EXCEPT !.part = "rest"]

\* handleData: a chunk that ends a line, which is parsed with what the buffer
\* holds, also of another process; one that is no JSON is dropped.
FinishLine(p) ==
    /\ stdout[p] # <<>>
    /\ LET chunk == Head(stdout[p])
       IN  /\ chunk.part \in {"whole", "rest"}
           /\ IF IsAnswer(Append(buffer, chunk)) THEN Settle(p, chunk.id)
              ELSE UNCHANGED <<pendingRequests, answeredBy, connected>>
    /\ buffer' = <<>>
    /\ stdout' = [stdout EXCEPT ![p] = Tail(@)]
    /\ UNCHANGED <<activated, process, requestId, state, opens, stdin, sentTo,
                   overlapped>>

\* A chunk that ends within a line.
KeepChunk(p) ==
    /\ stdout[p] # <<>>
    /\ LET chunk == Head(stdout[p])
       IN  \/ /\ chunk.part = "whole"
              /\ stdout' = [stdout EXCEPT ![p] = <<[chunk EXCEPT !.part = "rest"]>> \o Tail(@)]
              /\ buffer' = Append(buffer, [chunk EXCEPT !.part = "head"])
           \/ /\ chunk.part = "head"
              /\ stdout' = [stdout EXCEPT ![p] = Tail(@)]
              /\ buffer' = Append(buffer, chunk)
    /\ UNCHANGED <<activated, process, connected, requestId, pendingRequests, state,
                   opens, stdin, history>>

\* Mutant: the client listens for errors only.
CloseUnnoticed(p) ==
    /\ state[p] = "down" /\ stdout[p] = <<>>
    /\ state' = [state EXCEPT ![p] = "closed"]
    /\ UNCHANGED <<client, opens, stdin, stdout, history>>

\* The close event, after the last data of the process.
Close(p) ==
    /\ state[p] = "down" /\ stdout[p] = <<>>
    /\ state' = [state EXCEPT ![p] = "closed"]
    /\ connected' = FALSE
    /\ UNCHANGED <<activated, process, requestId, pendingRequests, buffer, opens, stdin,
                   stdout, history>>

\* What is left of a process that ends: what it wrote, the last line maybe
\* not to its end.
Ends(p) ==
    /\ state' = [state EXCEPT ![p] = "down"]
    /\ stdin' = [stdin EXCEPT ![p] = <<>>]
    /\ \/ UNCHANGED stdout
       \/ /\ stdout[p] # <<>>
          /\ LET last == Len(stdout[p])
             IN  /\ stdout[p][last].part = "whole"
                 /\ stdout' = [stdout EXCEPT ![p][last].part = "head"]

\* deactivate: disconnect kills the current process.
Deactivate ==
    /\ activated
    /\ activated' = FALSE
    /\ IF process # 0 /\ state[process] = "up"
       THEN Ends(process) ELSE UNCHANGED <<state, stdin, stdout>>
    /\ process' = 0
    /\ connected' = (connected /\ process = 0)
    /\ UNCHANGED <<requestId, pendingRequests, buffer, opens, history>>

----------------------------------------------------------------------------
(* The server                                                              *)

\* _handle_request answers with a result or an error of the tool or of the rate
\* limiter, which have the id of the request; when it raises, as it does when the
\* handlers cannot be made, run_stdio answers with the id 0.
AnswerIds(i) == {i, 0}

\* run_stdio reads a request and answers it.
Serve(p) ==
    /\ state[p] = "up"
    /\ stdin[p] # <<>>
    /\ \E i \in AnswerIds(Head(stdin[p])) :
        stdout' = [stdout EXCEPT ![p] = Append(@, [id |-> i, part |-> "whole"])]
    /\ stdin' = [stdin EXCEPT ![p] = Tail(@)]
    /\ UNCHANGED <<client, state, opens, history>>

\* The process dies, or never came up.
Die(p) ==
    /\ state[p] = "up"
    /\ Ends(p)
    /\ UNCHANGED <<client, opens, history>>

ClientNext ==
    \/ Connect \/ Call \/ Deactivate
    \/ \E i \in Ids : Timeout(i)
    \/ \E p \in Procs : FinishLine(p) \/ KeepChunk(p) \/ Close(p) \/ Serve(p) \/ Die(p)

\* A timer of the event loop fires; nothing is assumed of the servers.
ClientFairness == \A i \in Ids : WF_clientVars(Timeout(i))

ClientSpec == ClientInit /\ [][ClientNext]_clientVars /\ ClientFairness

----------------------------------------------------------------------------
(* Properties                                                              *)

\* A request is settled only by the answer of the process it was sent to,
\* although a process that was replaced goes on answering into the same table:
\* ids are never used twice, and no request has the id 0 of the server's errors.
AnswersMatch ==
    \A i \in Ids : answeredBy[i] # 0 => answeredBy[i] = sentTo[i]

\* Each call is answered, or rejected after 30 seconds: also one whose process
\* died or was replaced, whose answer was garbled by what another process left
\* in the buffer, or that was answered with the id 0.
EveryCallSettles == \A i \in Ids : i \in pendingRequests ~> i \notin pendingRequests

\* While the client says that it is connected, its current process has answered
\* initialize and its end has not been noticed, unless connects overlapped.
\* connect, which does nothing for a connected client, rests on it.
ConnectedIsServed ==
    activated /\ connected /\ ~overlapped
        => /\ process # 0
           /\ state[process] \in {"up", "down"}
           /\ answeredBy[opens[process]] = process
=============================================================================
