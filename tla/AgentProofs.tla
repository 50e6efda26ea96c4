----------------------------- MODULE AgentProofs -----------------------------
(***************************************************************************)
(* Proofs about what an agent's tools talk to.                             *)
(*                                                                         *)
(* The permission broker, for any requests, deny list, automatic approvals *)
(* and limit: its state is well typed and the queue of requests keeps its  *)
(* limit; what has ended is never granted again; and the daemon knows of   *)
(* every link it made for a ttl that is a number of seconds.               *)
(*                                                                         *)
(* The client of the editor, for any number of processes and of calls.     *)
(* That answers match rests on what is in the pipes: every id in them is   *)
(* that of a request which was written to the process at their end.        *)
(***************************************************************************)
EXTENDS PermissionBroker, McpClient, FiniteSetTheorems, TLAPS

----------------------------------------------------------------------------
(* The permission broker                                                   *)

Sets ==
    /\ running \in BOOLEAN /\ cleaner \in BOOLEAN
    /\ cleaner => running
    /\ pending \subseteq made /\ active \subseteq made
    /\ expired \subseteq active
    /\ links \subseteq made
    /\ made \subseteq Reqs
    /\ ended \subseteq made
    /\ leftover \subseteq made /\ unrecorded \subseteq made

\* Cardinalities say something of finite sets only.
PendingFits == IsFiniteSet(pending) /\ Cardinality(pending) <= MaxPending

\* A request that is granted waits no longer, so that denying what waits, or
\* revoking what is granted, ends all there is of it.
GrantedOnce == pending \cap active = {}

\* A daemon that is down knows nothing, so each link is one it left.
DownLeavesAll == ~running => links \subseteq leftover

BrokerInv ==
    Sets /\ PendingFits /\ GrantedOnce /\ EndedStaysEnded /\ LinksAreKnown /\ DownLeavesAll

LEMMA InvImpliesType == BrokerInv => TypeOK
BY DEF BrokerInv, Sets, PendingFits, TypeOK

\* What removing the mounts rs changes, whichever removals fail.
LEMMA UnmountsFacts ==
    ASSUME BrokerInv, NEW rs, rs \subseteq active, NEW kept, Unmounts(rs, kept)
    PROVE  /\ active' \subseteq active
           /\ expired' \subseteq active' /\ expired' \subseteq expired
           /\ links' \subseteq links
           /\ links \subseteq active \cup unrecorded \cup leftover
                => links' \subseteq active' \cup unrecorded \cup leftover
           /\ ended' = ended \cup (active \ active')
           /\ unrecorded' = unrecorded
<1>1. PICK unlinked \in SUBSET kept : links' = links \ ((rs \ kept) \cup unlinked)
  BY DEF Unmounts
<1>2. /\ active' = active \ (rs \ kept)
      /\ expired' = expired \ (rs \ kept)
      /\ ended' = ended \cup (rs \ kept)
      /\ unrecorded' = unrecorded
  BY DEF Unmounts
<1>3. expired \subseteq active
  BY DEF BrokerInv, Sets
<1>4. rs \ kept = active \ active'
  BY <1>2
<1> QED
  BY <1>1, <1>2, <1>3, <1>4

\* A revocation and a round of the clean-up keep the invariant.
LEMMA UnmountingKeeps ==
    ASSUME BrokerInv, NEW rs, rs \subseteq active, NEW kept, Unmounts(rs, kept),
           running, cleaner' \in {cleaner, FALSE},
           UNCHANGED <<running, pending, made, leftover>>
    PROVE  BrokerInv'
<1>1. /\ active' \subseteq active
      /\ expired' \subseteq active'
      /\ links' \subseteq links
      /\ links \subseteq active \cup unrecorded \cup leftover
           => links' \subseteq active' \cup unrecorded \cup leftover
      /\ ended' = ended \cup (active \ active')
      /\ unrecorded' = unrecorded
  BY UnmountsFacts
<1>2. Sets'
  BY <1>1 DEF BrokerInv, Sets
<1>3. PendingFits'
  BY DEF BrokerInv, PendingFits
<1>4. GrantedOnce'
  BY <1>1 DEF BrokerInv, GrantedOnce
<1>5. EndedStaysEnded'
  BY <1>1 DEF BrokerInv, GrantedOnce, EndedStaysEnded
<1>6. LinksAreKnown' /\ DownLeavesAll'
  BY <1>1 DEF BrokerInv, LinksAreKnown, DownLeavesAll
<1> QED
  BY <1>2, <1>3, <1>4, <1>5, <1>6 DEF BrokerInv

\* A request that is new is not known anywhere yet.
LEMMA RequestKeeps ==
    ASSUME BrokerInv, NEW r \in Reqs, Request(r)
    PROVE  BrokerInv'
<1>1. /\ running /\ r \notin made /\ made' = made \cup {r}
      /\ UNCHANGED <<running, cleaner, leftover>>
      /\ Cardinality(pending) < MaxPending
  BY DEF Request, Room
<1>2. r \notin pending \cup active \cup links \cup ended \cup unrecorded
  BY <1>1 DEF BrokerInv, Sets
<1>3. CASE ended' = ended \cup {r} /\ UNCHANGED <<pending, active, expired, links, unrecorded>>
  BY <1>1, <1>2, <1>3 DEF BrokerInv, Sets, PendingFits, GrantedOnce, EndedStaysEnded,
     LinksAreKnown, DownLeavesAll
<1>4. CASE Mounts(r) /\ UNCHANGED <<pending, ended>>
  BY <1>1, <1>2, <1>4 DEF Mounts, BrokerInv, Sets, PendingFits, GrantedOnce,
     EndedStaysEnded, LinksAreKnown, DownLeavesAll
<1>5. CASE MountFails(r) /\ UNCHANGED <<pending, ended>>
  BY <1>1, <1>2, <1>5 DEF MountFails, BrokerInv, Sets, PendingFits, GrantedOnce,
     EndedStaysEnded, LinksAreKnown, DownLeavesAll
<1>6. CASE MountsUnrecorded(r) /\ UNCHANGED <<pending, ended>>
  BY <1>1, <1>2, <1>6 DEF MountsUnrecorded, BrokerInv, Sets, PendingFits, GrantedOnce,
     EndedStaysEnded, LinksAreKnown, DownLeavesAll
<1>7. CASE pending' = pending \cup {r} /\ UNCHANGED <<active, expired, links, ended, unrecorded>>
  <2>1. PendingFits'
    <3>1. IsFiniteSet(pending) /\ Cardinality(pending) \in Nat
      BY FS_CardinalityType DEF BrokerInv, PendingFits
    <3>2. IsFiniteSet(pending') /\ Cardinality(pending') = Cardinality(pending) + 1
      BY <1>2, <1>7, <3>1, FS_AddElement
    <3> QED
      BY <1>1, <3>1, <3>2, BrokerAssumption DEF PendingFits
  <2>2. Sets' /\ GrantedOnce' /\ EndedStaysEnded'
    BY <1>1, <1>2, <1>7 DEF BrokerInv, Sets, GrantedOnce, EndedStaysEnded
  <2>3. LinksAreKnown' /\ DownLeavesAll'
    BY <1>1, <1>7 DEF BrokerInv, LinksAreKnown, DownLeavesAll
  <2> QED
    BY <2>1, <2>2, <2>3 DEF BrokerInv
<1> QED
  BY <1>3, <1>4, <1>5, <1>6, <1>7 DEF Request

\* A request that leaves the queue makes room in it.
LEMMA LeavingFits ==
    ASSUME PendingFits, NEW r, pending' = pending \ {r}
    PROVE  PendingFits'
<1>1. IsFiniteSet(pending) /\ Cardinality(pending) \in Nat
  BY FS_CardinalityType DEF PendingFits
<1>2. /\ IsFiniteSet(pending')
      /\ Cardinality(pending') \in Nat
      /\ Cardinality(pending') <= Cardinality(pending)
  BY <1>1, FS_Subset, FS_CardinalityType
<1> QED
  BY <1>1, <1>2, BrokerAssumption DEF PendingFits

LEMMA ApproveKeeps ==
    ASSUME BrokerInv, NEW r \in Reqs, Approve(r)
    PROVE  BrokerInv'
<1>1. running /\ r \in pending /\ UNCHANGED <<running, cleaner, made, ended, leftover>>
  BY DEF Approve
<1>2. r \in made /\ r \notin active \cup ended
  BY <1>1 DEF BrokerInv, Sets, GrantedOnce, EndedStaysEnded
<1>3. CASE Mounts(r) /\ pending' = pending \ {r}
  <2>1. PendingFits'
    BY <1>3, LeavingFits DEF BrokerInv
  <2> QED
    BY <1>1, <1>2, <1>3, <2>1 DEF Mounts, BrokerInv, Sets, GrantedOnce,
       EndedStaysEnded, LinksAreKnown, DownLeavesAll
<1>4. CASE MountsUnrecorded(r) /\ UNCHANGED pending
  BY <1>1, <1>2, <1>4 DEF MountsUnrecorded, BrokerInv, Sets, PendingFits, GrantedOnce,
     EndedStaysEnded, LinksAreKnown, DownLeavesAll
<1>5. CASE MountFails(r) /\ UNCHANGED pending
  BY <1>1, <1>5 DEF MountFails, BrokerInv, Sets, PendingFits, GrantedOnce,
     EndedStaysEnded, LinksAreKnown, DownLeavesAll
<1> QED
  BY <1>3, <1>4, <1>5 DEF Approve

LEMMA DenyKeeps ==
    ASSUME BrokerInv, NEW r \in Reqs, Deny(r)
    PROVE  BrokerInv'
<1>1. PendingFits'
  BY LeavingFits DEF Deny, BrokerInv
<1> QED
  BY <1>1 DEF Deny, BrokerInv, Sets, GrantedOnce, EndedStaysEnded, LinksAreKnown,
     DownLeavesAll

\* With the process goes all it knew, and what it granted and queued has ended.
LEMMA GoingDownKeeps ==
    ASSUME BrokerInv, running' = FALSE, cleaner' = FALSE,
           pending' = {}, active' = {}, expired' = {}, unrecorded' = {},
           links' \subseteq links, leftover' = links',
           ended' = ended \cup active \cup pending, UNCHANGED made
    PROVE  BrokerInv'
<1>1. PendingFits'
  BY FS_EmptySet, BrokerAssumption DEF PendingFits
<1> QED
  BY <1>1 DEF BrokerInv, Sets, GrantedOnce, EndedStaysEnded, LinksAreKnown, DownLeavesAll

LEMMA InvHolds == Spec => []BrokerInv
<1>1. Init => BrokerInv
  <2>1. Init => PendingFits
    BY FS_EmptySet, BrokerAssumption DEF Init, PendingFits
  <2> QED
    BY <2>1 DEF Init, BrokerInv, Sets, GrantedOnce, EndedStaysEnded, LinksAreKnown,
       DownLeavesAll
<1>2. BrokerInv /\ [Next]_vars => BrokerInv'
  <2> SUFFICES ASSUME BrokerInv, [Next]_vars PROVE BrokerInv'
    OBVIOUS
  <2>1. ASSUME NEW r \in Reqs, Request(r) PROVE BrokerInv'
    BY <2>1, RequestKeeps
  <2>2. ASSUME NEW r \in Reqs, Approve(r) PROVE BrokerInv'
    BY <2>2, ApproveKeeps
  <2>3. ASSUME NEW r \in Reqs, Deny(r) PROVE BrokerInv'
    BY <2>3, DenyKeeps
  <2>4. ASSUME NEW r \in Reqs, Revoke(r) PROVE BrokerInv'
    <3>1. PICK kept \in SUBSET {r} : Unmounts({r}, kept)
      BY <2>4 DEF Revoke
    <3>2. {r} \subseteq active /\ running /\ UNCHANGED <<running, cleaner, pending, made, leftover>>
      BY <2>4 DEF Revoke
    <3> QED
      BY <3>1, <3>2, UnmountingKeeps
  <2>5. ASSUME NEW r \in Reqs, TimePasses(r) PROVE BrokerInv'
    BY <2>5 DEF TimePasses, BrokerInv, Sets, PendingFits, GrantedOnce, EndedStaysEnded,
       LinksAreKnown, DownLeavesAll
  <2>6. ASSUME NEW kept \in SUBSET Reqs, Cleanup(kept) PROVE BrokerInv'
    <3>1. expired \subseteq active
      BY DEF BrokerInv, Sets
    <3> QED
      BY <2>6, <3>1, UnmountingKeeps DEF Cleanup
  <2>7. CASE CleanupEnds
    <3>1. PICK kept \in SUBSET expired : Unmounts(expired, kept)
      BY <2>7 DEF CleanupEnds
    <3>2. expired \subseteq active
      BY DEF BrokerInv, Sets
    <3> QED
      BY <2>7, <3>1, <3>2, UnmountingKeeps DEF CleanupEnds
  <2>8. CASE Start
    BY <2>8 DEF Start, BrokerInv, Sets, PendingFits, GrantedOnce, EndedStaysEnded,
       LinksAreKnown, DownLeavesAll
  <2>9. CASE Stop
    BY <2>9, GoingDownKeeps DEF Stop
  <2>10. CASE Crash
    BY <2>10, GoingDownKeeps DEF Crash
  <2>11. CASE UNCHANGED vars
    BY <2>11 DEF vars, BrokerInv, Sets, PendingFits, GrantedOnce, EndedStaysEnded,
       LinksAreKnown, DownLeavesAll
  <2> QED
    BY <2>1, <2>2, <2>3, <2>4, <2>5, <2>6, <2>7, <2>8, <2>9, <2>10, <2>11 DEF Next
<1> QED
  BY <1>1, <1>2, PTL DEF Spec

----------------------------------------------------------------------------

\* The broker's state is well typed and never more than max_pending_requests
\* wait for a decision.
THEOREM TypeCorrect == Spec => []TypeOK
BY InvHolds, InvImpliesType, PTL

\* A request that was denied, revoked or has expired is never granted again,
\* whatever fails, stops or crashes in between.
THEOREM NothingIsRevived == Spec => []EndedStaysEnded
<1>1. BrokerInv => EndedStaysEnded
  BY DEF BrokerInv
<1> QED
  BY <1>1, InvHolds, PTL

\* The daemon knows of every link, but for those that were made for a ttl which is
\* no number of seconds, or too large a one, and those an earlier daemon left.
THEOREM NoLinkIsForgotten == Spec => []LinksAreKnown
<1>1. BrokerInv => LinksAreKnown
  BY DEF BrokerInv
<1> QED
  BY <1>1, InvHolds, PTL

----------------------------------------------------------------------------
(* The client of the editor                                                *)

Chunk == [id : Nat, part : {"whole", "head", "rest"}]
States == {"unborn", "up", "down", "closed"}

ClientTyped ==
    /\ activated \in BOOLEAN /\ connected \in BOOLEAN /\ overlapped \in BOOLEAN
    /\ process \in Procs \cup {0}
    /\ requestId \in Nat
    /\ pendingRequests \subseteq Ids
    /\ buffer \in Seq(Chunk)
    /\ state \in [Procs -> States]
    /\ opens \in [Procs -> Nat]
    /\ stdin \in [Procs -> Seq(Nat)]
    /\ stdout \in [Procs -> Seq(Chunk)]
    /\ sentTo \in [Ids -> Nat] /\ answeredBy \in [Ids -> Nat]

\* A request that was written to p.
Sent(i, p) == i \in Ids /\ i <= requestId /\ sentTo[i] = p

PipesAreTrue ==
    /\ \A p \in Procs : \A k \in 1 .. Len(stdin[p]) : Sent(stdin[p][k], p)
    /\ \A p \in Procs : \A k \in 1 .. Len(stdout[p]) :
          stdout[p][k].id = 0 \/ Sent(stdout[p][k].id, p)

\* Ids that were not given yet are neither pending nor answered.
IdsAreFresh ==
    /\ \A i \in pendingRequests : i <= requestId
    /\ \A i \in Ids : i > requestId => answeredBy[i] = 0

AnswerInv == ClientTyped /\ PipesAreTrue /\ IdsAreFresh /\ AnswersMatch

\* Each process was sent its own initialize; one that is not there writes nothing.
OpensAreSent ==
    \A p \in Procs :
        /\ opens[p] # 0 => Sent(opens[p], p)
        /\ state[p] = "closed" => stdout[p] = <<>>
        /\ state[p] = "unborn" => stdout[p] = <<>> /\ stdin[p] = <<>> /\ opens[p] = 0

\* Unless connects overlapped, only the current process is still to answer initialize.
OnlyCurrentOpens ==
    activated /\ ~overlapped => \A p \in Procs : opens[p] \in pendingRequests => p = process

\* The current process has been sent one.
CurrentIsOpened == process # 0 => opens[process] # 0 /\ state[process] # "unborn"

ConnectInv == OpensAreSent /\ OnlyCurrentOpens /\ CurrentIsOpened /\ ConnectedIsServed

-----------------------------------------------------------------------------
\* What is left of a sequence has only what was in it.
LEMMA TailFacts ==
    ASSUME NEW S, NEW s \in Seq(S), s # <<>>
    PROVE  /\ Head(s) \in S /\ Head(s) = s[1] /\ 1 \in 1 .. Len(s)
           /\ Tail(s) \in Seq(S) /\ Len(Tail(s)) = Len(s) - 1
           /\ \A k \in 1 .. Len(Tail(s)) : Tail(s)[k] = s[k + 1] /\ k + 1 \in 1 .. Len(s)
  OBVIOUS

\* A longer sequence has what was in it, and the new element.
LEMMA AppendFacts ==
    ASSUME NEW S, NEW s \in Seq(S), NEW e \in S
    PROVE  /\ Append(s, e) \in Seq(S) /\ Append(s, e) # <<>>
           /\ \A k \in 1 .. Len(Append(s, e)) :
                 Append(s, e)[k] = e \/ (k \in 1 .. Len(s) /\ Append(s, e)[k] = s[k])
  OBVIOUS

\* Positive numbers are not 0, and processes and ids are numbers.
LEMMA NumberFacts ==
    /\ \A p \in Procs : p \in Nat /\ p # 0
    /\ \A i \in Ids : i \in Nat /\ i # 0
  BY DEF Procs, Ids

\* A request that is sent has an id that none had before.
LEMMA SendKeeps ==
    ASSUME AnswerInv, NEW p \in Procs, NEW i, i = requestId + 1, Send(i, p),
           UNCHANGED <<stdout, answeredBy>>
    PROVE  /\ pendingRequests' \subseteq Ids /\ requestId' \in Nat
           /\ stdin' \in [Procs -> Seq(Nat)] /\ sentTo' \in [Ids -> Nat]
           /\ PipesAreTrue' /\ IdsAreFresh' /\ AnswersMatch'
           /\ \A j, q : Sent(j, q) => Sent(j, q)'
           /\ Sent(i, p)' /\ i \notin pendingRequests /\ \A q : ~Sent(i, q)
  <1>1. i \in Ids /\ i \in Nat /\ requestId \in Nat /\ requestId' = i /\ i > requestId
    BY NumberFacts DEF Send, AnswerInv, ClientTyped
  <1>2. /\ pendingRequests' \subseteq Ids /\ requestId' \in Nat
        /\ stdin' \in [Procs -> Seq(Nat)] /\ sentTo' \in [Ids -> Nat]
    BY <1>1, NumberFacts DEF Send, AnswerInv, ClientTyped
  <1>3. /\ sentTo'[i] = p
        /\ \A j \in Ids : j <= requestId => j # i /\ sentTo'[j] = sentTo[j] /\ j <= requestId'
    <2>1. sentTo' = [sentTo EXCEPT ![i] = p] /\ sentTo \in [Ids -> Nat]
      BY DEF Send, AnswerInv, ClientTyped
    <2>2. sentTo'[i] = p /\ \A j \in Ids : j # i => sentTo'[j] = sentTo[j]
      BY ONLY <2>1, <1>1
    <2>3. \A j \in Ids : j <= requestId => j # i /\ j <= requestId'
      BY ONLY <1>1, NumberFacts
    <2> QED
      BY ONLY <2>2, <2>3
  <1>4. (\A j, q : Sent(j, q) => Sent(j, q)') /\ Sent(i, p)'
    <2>1. ASSUME NEW j, NEW q, Sent(j, q) PROVE Sent(j, q)'
      BY <2>1, <1>3 DEF Sent
    <2>2. Sent(i, p)'
      BY <1>1, <1>3 DEF Sent
    <2> QED
      BY <2>1, <2>2
  <1>5. PipesAreTrue'
    <2>1. ASSUME NEW q \in Procs, NEW k \in 1 .. Len(stdin'[q]) PROVE Sent(stdin[q][k], q)'
      <3>1. CASE q = p
        <4>1. stdin'[q] = Append(stdin[q], i) /\ stdin[q] \in Seq(Nat)
          BY <3>1 DEF Send, AnswerInv, ClientTyped
        <4>2. stdin'[q][k] = i \/ (k \in 1 .. Len(stdin[q]) /\ stdin'[q][k] = stdin[q][k])
          BY <4>1, <1>1, <2>1, AppendFacts
        <4> QED
          BY <4>2, <3>1, <1>4 DEF AnswerInv, PipesAreTrue
      <3>2. CASE q # p
        <4>1. stdin'[q] = stdin[q]
          BY <3>2 DEF Send, AnswerInv, ClientTyped
        <4> QED
          BY <4>1, <2>1, <1>4 DEF AnswerInv, PipesAreTrue
      <3> QED
        BY <3>1, <3>2
    <2>2. ASSUME NEW q \in Procs, NEW k \in 1 .. Len(stdout'[q])
          PROVE  stdout'[q][k].id = 0 \/ Sent(stdout[q][k].id, q)'
      BY <2>2, <1>4 DEF AnswerInv, PipesAreTrue
    <2> QED
      BY <2>1, <2>2 DEF PipesAreTrue
  <1>6. IdsAreFresh'
    <2>1. pendingRequests' = pendingRequests \cup {i} /\ \A j \in pendingRequests : j \in Nat /\ j <= requestId
      BY NumberFacts DEF Send, AnswerInv, ClientTyped, IdsAreFresh
    <2>2. \A j \in pendingRequests' : j <= requestId'
      BY <2>1, <1>1, NumberFacts
    <2>3. \A j \in Ids : j > requestId' => j > requestId
      BY <1>1, NumberFacts DEF AnswerInv, ClientTyped
    <2> QED
      BY <2>2, <2>3 DEF AnswerInv, IdsAreFresh
  <1>7. AnswersMatch'
    BY <1>1, <1>3, NumberFacts DEF AnswerInv, ClientTyped, IdsAreFresh, AnswersMatch
  <1>8. i \notin pendingRequests /\ \A q : ~Sent(i, q)
    BY <1>1 DEF AnswerInv, ClientTyped, IdsAreFresh, Sent
  <1> QED
    BY <1>2, <1>4, <1>5, <1>6, <1>7, <1>8

\* The end of a process leaves in its pipe what it wrote.
LEMMA EndsKeeps ==
    ASSUME AnswerInv, NEW p \in Procs, Ends(p), UNCHANGED <<requestId, sentTo>>
    PROVE  /\ state' \in [Procs -> States] /\ stdin' \in [Procs -> Seq(Nat)]
           /\ stdout' \in [Procs -> Seq(Chunk)] /\ PipesAreTrue'
           /\ \A q \in Procs \ {p} :
                 state'[q] = state[q] /\ stdin'[q] = stdin[q] /\ stdout'[q] = stdout[q]
           /\ state'[p] = "down"
  <1>1. /\ state' \in [Procs -> States] /\ state'[p] = "down"
        /\ stdin' \in [Procs -> Seq(Nat)] /\ stdin'[p] = <<>>
        /\ \A q \in Procs \ {p} : state'[q] = state[q] /\ stdin'[q] = stdin[q]
    BY DEF Ends, AnswerInv, ClientTyped, States
  <1>2. /\ stdout' \in [Procs -> Seq(Chunk)]
        /\ \A q \in Procs \ {p} : stdout'[q] = stdout[q]
        /\ Len(stdout'[p]) = Len(stdout[p])
        /\ \A k \in 1 .. Len(stdout[p]) : stdout'[p][k].id = stdout[p][k].id
    <2>1. CASE UNCHANGED stdout
      BY <2>1 DEF AnswerInv, ClientTyped
    <2>2. CASE stdout[p] # <<>> /\ stdout' = [stdout EXCEPT ![p][Len(stdout[p])].part = "head"]
      <3> DEFINE last == Len(stdout[p])
                 cut == [stdout[p][last] EXCEPT !.part = "head"]
      <3>1. last \in 1 .. Len(stdout[p]) /\ stdout[p] \in Seq(Chunk)
        BY <2>2 DEF AnswerInv, ClientTyped
      <3>2. cut \in Chunk /\ cut.id = stdout[p][last].id
        <4>1. stdout[p][last] \in Chunk
          BY <3>1
        <4> QED
          BY <4>1 DEF Chunk
      <3>3. stdout' = [stdout EXCEPT ![p] = [stdout[p] EXCEPT ![last] = cut]]
        BY <2>2
      <3>4. /\ [stdout[p] EXCEPT ![last] = cut] \in Seq(Chunk)
            /\ Len([stdout[p] EXCEPT ![last] = cut]) = Len(stdout[p])
        BY <3>1, <3>2
      <3> QED
        BY <3>1, <3>2, <3>3, <3>4 DEF AnswerInv, ClientTyped
    <2> QED
      BY <2>1, <2>2 DEF Ends
  <1>3. \A i, q : Sent(i, q)' = Sent(i, q)
    BY DEF Sent
  <1>4. PipesAreTrue'
    <2>0. PipesAreTrue
      BY DEF AnswerInv
    <2>1. ASSUME NEW q \in Procs, NEW k \in 1 .. Len(stdin'[q]) PROVE Sent(stdin[q][k], q)'
      BY <2>0, <2>1, <1>1, <1>3 DEF PipesAreTrue
    <2>2. ASSUME NEW q \in Procs, NEW k \in 1 .. Len(stdout'[q])
          PROVE  stdout'[q][k].id = 0 \/ Sent(stdout[q][k].id, q)'
      <3>1. k \in 1 .. Len(stdout[q]) /\ stdout'[q][k].id = stdout[q][k].id
        BY <1>2
      <3> QED
        BY <3>1, <1>3 DEF AnswerInv, PipesAreTrue
    <2> QED
      BY <2>1, <2>2 DEF PipesAreTrue
  <1> QED
    BY <1>1, <1>2, <1>4

\* Steps that write to no pipe and give no id keep the ids that are in the pipes.
LEMMA PipesShrink ==
    ASSUME AnswerInv, UNCHANGED <<requestId, sentTo, stdin>>, NEW p \in Procs,
           stdout' = [stdout EXCEPT ![p] = Tail(@)], stdout[p] # <<>>
    PROVE  stdout' \in [Procs -> Seq(Chunk)] /\ PipesAreTrue'
  <1>1. /\ stdout'[p] = Tail(stdout[p]) /\ stdout[p] \in Seq(Chunk)
        /\ \A q \in Procs \ {p} : stdout'[q] = stdout[q]
    BY DEF AnswerInv, ClientTyped
  <1>2. /\ Tail(stdout[p]) \in Seq(Chunk)
        /\ \A k \in 1 .. Len(stdout'[p]) :
              stdout'[p][k] = stdout[p][k + 1] /\ k + 1 \in 1 .. Len(stdout[p])
    <2> DEFINE s == stdout[p]
    <2>1. s \in Seq(Chunk) /\ s # <<>>
      BY <1>1
    <2>2. /\ Tail(s) \in Seq(Chunk)
          /\ \A k \in 1 .. Len(Tail(s)) : Tail(s)[k] = s[k + 1] /\ k + 1 \in 1 .. Len(s)
      BY <2>1, TailFacts
    <2> QED
      BY <2>2, <1>1
  <1>3. \A i, q : Sent(i, q)' = Sent(i, q)
    BY DEF Sent
  <1>4. \A k \in 1 .. Len(stdout'[p]) : stdout'[p][k].id = 0 \/ Sent(stdout'[p][k].id, p)
    BY <1>2 DEF AnswerInv, PipesAreTrue
  <1> QED
    BY <1>1, <1>2, <1>3, <1>4 DEF AnswerInv, ClientTyped, PipesAreTrue

\* connect and the tools send a request.
LEMMA CallKeeps == ASSUME AnswerInv, Connect \/ Call PROVE AnswerInv'
  <1> DEFINE i == requestId + 1
  <1>1. CASE Connect
    <2>1. PICK p \in Procs :
            /\ process' = p /\ state' = [state EXCEPT ![p] = "up"]
            /\ opens' = [opens EXCEPT ![p] = FirstId] /\ Send(FirstId, p)
      BY <1>1 DEF Connect
    <2>2. Send(i, p) /\ UNCHANGED <<stdout, answeredBy>> /\ FirstId \in Nat
      BY <1>1, <2>1 DEF Connect, FirstId, AnswerInv, ClientTyped
    <2>3. /\ pendingRequests' \subseteq Ids /\ requestId' \in Nat
          /\ stdin' \in [Procs -> Seq(Nat)] /\ sentTo' \in [Ids -> Nat]
          /\ PipesAreTrue' /\ IdsAreFresh' /\ AnswersMatch'
      BY <2>2, SendKeeps
    <2>4. /\ state' \in [Procs -> States] /\ opens' \in [Procs -> Nat]
          /\ process' \in Procs \cup {0} /\ overlapped' \in BOOLEAN
      BY <1>1, <2>1, <2>2 DEF Connect, AnswerInv, ClientTyped, States
    <2> QED
      BY <1>1, <2>3, <2>4 DEF Connect, AnswerInv, ClientTyped
  <1>2. CASE Call
    <2>1. process \in Procs /\ Send(i, process) /\ UNCHANGED <<stdout, answeredBy>>
      BY <1>2 DEF Call, AnswerInv, ClientTyped
    <2>2. /\ pendingRequests' \subseteq Ids /\ requestId' \in Nat
          /\ stdin' \in [Procs -> Seq(Nat)] /\ sentTo' \in [Ids -> Nat]
          /\ PipesAreTrue' /\ IdsAreFresh' /\ AnswersMatch'
      BY <2>1, SendKeeps
    <2> QED
      BY <1>2, <2>2 DEF Call, AnswerInv, ClientTyped
  <1> QED
    BY <1>1, <1>2

\* A line settles a request that was written to the process it comes from.
LEMMA LineKeeps == ASSUME AnswerInv, NEW p \in Procs, FinishLine(p) PROVE AnswerInv'
  <1> DEFINE c == Head(stdout[p])
  <1>1. stdout[p] \in Seq(Chunk) /\ stdout[p] # <<>>
    BY DEF FinishLine, AnswerInv, ClientTyped
  <1>2. c \in Chunk /\ c = stdout[p][1] /\ 1 \in 1 .. Len(stdout[p])
    BY <1>1, TailFacts
  <1>3. c.id \in Nat /\ (c.id = 0 \/ Sent(c.id, p))
    BY <1>2 DEF AnswerInv, PipesAreTrue, Chunk
  <1>4. \/ UNCHANGED <<pendingRequests, answeredBy, connected>>
        \/ /\ c.id \in pendingRequests /\ pendingRequests' = pendingRequests \ {c.id}
           /\ answeredBy' = [answeredBy EXCEPT ![c.id] = p]
           /\ connected' = (connected \/ \E q \in Procs : opens[q] = c.id)
    BY DEF FinishLine, Settle
  <1>5. /\ pendingRequests' \subseteq pendingRequests /\ connected' \in BOOLEAN
        /\ answeredBy' \in [Ids -> Nat]
        /\ \A i \in Ids : answeredBy'[i] = answeredBy[i] \/ (i \in pendingRequests /\ i = c.id /\ answeredBy'[i] = p)
    BY <1>4, NumberFacts DEF AnswerInv, ClientTyped
  <1>6. stdout' \in [Procs -> Seq(Chunk)] /\ PipesAreTrue'
    BY <1>1, PipesShrink DEF FinishLine
  <1>7. ClientTyped'
    <2>1. buffer' \in Seq(Chunk)
      BY DEF FinishLine
    <2> QED
      BY <1>5, <1>6, <2>1 DEF FinishLine, AnswerInv, ClientTyped
  <1>8. IdsAreFresh'
    <2>1. requestId' = requestId /\ IdsAreFresh
      BY DEF FinishLine, AnswerInv
    <2>2. \A i \in pendingRequests' : i <= requestId'
      BY <1>5, <2>1 DEF IdsAreFresh
    <2>3. \A i \in Ids : i > requestId => i \notin pendingRequests
      <3>1. requestId \in Nat /\ pendingRequests \subseteq Ids
        BY DEF AnswerInv, ClientTyped
      <3>2. \A i \in pendingRequests : i <= requestId
        BY <2>1 DEF IdsAreFresh
      <3> QED
        BY ONLY <3>1, <3>2, NumberFacts
    <2>4. \A i \in Ids : i > requestId' => answeredBy'[i] = 0
      BY <1>5, <2>1, <2>3 DEF IdsAreFresh
    <2> QED
      BY <2>2, <2>4 DEF IdsAreFresh
  <1>9. AnswersMatch'
    BY <1>3, <1>5, NumberFacts DEF FinishLine, AnswerInv, ClientTyped, AnswersMatch, Sent
  <1> QED
    BY <1>6, <1>7, <1>8, <1>9 DEF AnswerInv

\* A chunk that is cut keeps its id in both halves.
LEMMA ChunkKeeps == ASSUME AnswerInv, NEW p \in Procs, KeepChunk(p) PROVE AnswerInv'
  <1> DEFINE c == Head(stdout[p])
             rest == [c EXCEPT !.part = "rest"]
  <1>1. stdout[p] \in Seq(Chunk) /\ stdout[p] # <<>>
    BY DEF KeepChunk, AnswerInv, ClientTyped
  <1>2. /\ c \in Chunk /\ c = stdout[p][1] /\ 1 \in 1 .. Len(stdout[p])
        /\ Tail(stdout[p]) \in Seq(Chunk)
        /\ \A k \in 1 .. Len(Tail(stdout[p])) :
              Tail(stdout[p])[k] = stdout[p][k + 1] /\ k + 1 \in 1 .. Len(stdout[p])
    BY <1>1, TailFacts
  <1>3. rest \in Chunk /\ rest.id = c.id /\ [c EXCEPT !.part = "head"] \in Chunk
    BY <1>2 DEF Chunk
  <1>4. buffer' \in Seq(Chunk)
    <2>1. \E e \in Chunk : buffer' = Append(buffer, e)
      BY <1>2, <1>3 DEF KeepChunk
    <2> QED
      BY <2>1, AppendFacts DEF AnswerInv, ClientTyped
  <1>5. stdout' \in [Procs -> Seq(Chunk)] /\ PipesAreTrue'
    <2>1. CASE stdout' = [stdout EXCEPT ![p] = Tail(@)]
      BY <2>1, <1>1, PipesShrink DEF KeepChunk, history
    <2>2. CASE stdout' = [stdout EXCEPT ![p] = <<rest>> \o Tail(@)]
      <3> DEFINE s == <<rest>> \o Tail(stdout[p])
      <3>1. /\ s \in Seq(Chunk)
            /\ \A k \in 1 .. Len(s) :
                  s[k] = rest \/ (k - 1 \in 1 .. Len(Tail(stdout[p])) /\ s[k] = Tail(stdout[p])[k - 1])
        BY <1>2, <1>3
      <3>2. stdout'[p] = s /\ \A q \in Procs \ {p} : stdout'[q] = stdout[q]
        BY <2>2 DEF AnswerInv, ClientTyped
      <3>3. \A k \in 1 .. Len(s) : s[k].id = 0 \/ Sent(s[k].id, p)
        <4> SUFFICES ASSUME NEW k \in 1 .. Len(s) PROVE s[k].id = 0 \/ Sent(s[k].id, p)
          OBVIOUS
        <4>1. PICK m \in 1 .. Len(stdout[p]) : s[k].id = stdout[p][m].id
          BY <1>2, <1>3, <3>1
        <4> QED
          BY <4>1 DEF AnswerInv, PipesAreTrue
      <3>4. \A j, q : Sent(j, q)' = Sent(j, q)
        BY DEF KeepChunk, history, Sent
      <3>5. stdout' \in [Procs -> Seq(Chunk)]
        BY <2>2, <3>1 DEF AnswerInv, ClientTyped
      <3>6. stdin' = stdin
        BY DEF KeepChunk
      <3>7. \A q \in Procs : \A k \in 1 .. Len(stdin'[q]) : Sent(stdin[q][k], q)'
        BY <3>4, <3>6 DEF AnswerInv, PipesAreTrue
      <3>8. \A q \in Procs : \A k \in 1 .. Len(stdout'[q]) :
               (stdout[q][k].id = 0 \/ Sent(stdout[q][k].id, q))'
        <4>1. ASSUME NEW q \in Procs, NEW k \in 1 .. Len(stdout'[q])
              PROVE  stdout'[q][k].id = 0 \/ Sent(stdout'[q][k].id, q)
          <5>1. CASE q = p
            BY <5>1, <3>2, <3>3, <4>1
          <5>2. CASE q # p
            BY <5>2, <3>2, <4>1 DEF AnswerInv, PipesAreTrue
          <5> QED
            BY <5>1, <5>2
        <4> QED
          BY <4>1, <3>4
      <3> QED
        BY <3>5, <3>7, <3>8 DEF PipesAreTrue
    <2> QED
      BY <2>1, <2>2 DEF KeepChunk
  <1>6. ClientTyped'
    BY <1>4, <1>5 DEF KeepChunk, history, AnswerInv, ClientTyped
  <1>7. IdsAreFresh' /\ AnswersMatch'
    BY DEF KeepChunk, history, AnswerInv, IdsAreFresh, AnswersMatch
  <1> QED
    BY <1>5, <1>6, <1>7 DEF AnswerInv

\* A server answers with the id of what it has read, or with 0.
LEMMA ServeKeeps == ASSUME AnswerInv, NEW p \in Procs, Serve(p) PROVE AnswerInv'
  <1> DEFINE s == stdin[p]
  <1>1. s \in Seq(Nat) /\ s # <<>>
    BY DEF Serve, AnswerInv, ClientTyped
  <1>2. /\ Head(s) \in Nat /\ Head(s) = s[1] /\ 1 \in 1 .. Len(s) /\ Tail(s) \in Seq(Nat)
        /\ \A k \in 1 .. Len(Tail(s)) : Tail(s)[k] = s[k + 1] /\ k + 1 \in 1 .. Len(s)
    BY <1>1, TailFacts
  <1>3. PICK a \in {Head(s), 0} :
            stdout' = [stdout EXCEPT ![p] = Append(@, [id |-> a, part |-> "whole"])]
    BY DEF Serve, AnswerIds
  <1> DEFINE e == [id |-> a, part |-> "whole"]
  <1>4. e \in Chunk /\ e.id = a /\ (a = 0 \/ Sent(a, p))
    BY <1>2 DEF Chunk, AnswerInv, PipesAreTrue
  <1>5. /\ Append(stdout[p], e) \in Seq(Chunk)
        /\ \A k \in 1 .. Len(Append(stdout[p], e)) :
              \/ Append(stdout[p], e)[k] = e
              \/ k \in 1 .. Len(stdout[p]) /\ Append(stdout[p], e)[k] = stdout[p][k]
    <2>1. e \in Chunk /\ stdout[p] \in Seq(Chunk)
      BY <1>4 DEF AnswerInv, ClientTyped
    <2> HIDE DEF e
    <2> QED
      BY <2>1, AppendFacts
  <1>6. /\ stdout' \in [Procs -> Seq(Chunk)] /\ stdout'[p] = Append(stdout[p], e)
        /\ \A q \in Procs \ {p} : stdout'[q] = stdout[q]
    BY <1>3, <1>5 DEF AnswerInv, ClientTyped
  <1>7. /\ stdin' \in [Procs -> Seq(Nat)] /\ stdin'[p] = Tail(s)
        /\ \A q \in Procs \ {p} : stdin'[q] = stdin[q]
    BY <1>2 DEF Serve, AnswerInv, ClientTyped
  <1>8. \A j, q : Sent(j, q)' = Sent(j, q)
    BY DEF Serve, client, history, Sent
  <1>9. PipesAreTrue'
    <2>1. ASSUME NEW q \in Procs, NEW k \in 1 .. Len(stdin'[q]) PROVE Sent(stdin[q][k], q)'
      <3>1. \E m \in 1 .. Len(stdin[q]) : stdin'[q][k] = stdin[q][m]
        <4>1. CASE q = p
          BY <4>1, <2>1, <1>2, <1>7
        <4>2. CASE q # p
          BY <4>2, <2>1, <1>7
        <4> QED
          BY <4>1, <4>2
      <3> QED
        BY <3>1, <1>8 DEF AnswerInv, PipesAreTrue
    <2>2. ASSUME NEW q \in Procs, NEW k \in 1 .. Len(stdout'[q])
          PROVE  stdout'[q][k].id = 0 \/ Sent(stdout'[q][k].id, q)
      <3>1. CASE q = p /\ stdout'[q][k] = e
        BY <3>1, <1>4
      <3>2. CASE k \in 1 .. Len(stdout[q]) /\ stdout'[q][k] = stdout[q][k]
        BY <3>2 DEF AnswerInv, PipesAreTrue
      <3>3. q = p => \/ stdout'[q][k] = e
                     \/ k \in 1 .. Len(stdout[q]) /\ stdout'[q][k] = stdout[q][k]
        BY <2>2, <1>5, <1>6
      <3>4. q # p => k \in 1 .. Len(stdout[q]) /\ stdout'[q][k] = stdout[q][k]
        BY <2>2, <1>6
      <3> QED
        BY <3>1, <3>2, <3>3, <3>4
    <2>3. \A q \in Procs : \A k \in 1 .. Len(stdin'[q]) : Sent(stdin[q][k], q)'
      BY <2>1
    <2>4. \A q \in Procs : \A k \in 1 .. Len(stdout'[q]) :
             (stdout[q][k].id = 0 \/ Sent(stdout[q][k].id, q))'
      BY <2>2, <1>8
    <2> QED
      BY <2>3, <2>4 DEF PipesAreTrue
  <1>10. ClientTyped' /\ IdsAreFresh' /\ AnswersMatch'
    BY <1>6, <1>7 DEF Serve, client, history, AnswerInv, ClientTyped, IdsAreFresh, AnswersMatch
  <1> QED
    BY <1>9, <1>10 DEF AnswerInv

\* Processes and connections that end, and timers, answer nothing.
LEMMA EndingKeeps ==
    ASSUME AnswerInv,
           \/ Deactivate \/ (\E i \in Ids : Timeout(i)) \/ UNCHANGED clientVars
           \/ \E p \in Procs : Close(p) \/ Die(p)
    PROVE  AnswerInv'
  <1>1. ASSUME NEW p \in Procs, Ends(p), UNCHANGED <<requestId, pendingRequests, buffer, opens, history>>,
               process' \in Procs \cup {0}, activated' \in BOOLEAN, connected' \in BOOLEAN
        PROVE  AnswerInv'
    <2>1. /\ state' \in [Procs -> States] /\ stdin' \in [Procs -> Seq(Nat)]
          /\ stdout' \in [Procs -> Seq(Chunk)] /\ PipesAreTrue'
      BY <1>1, EndsKeeps DEF history
    <2> QED
      BY <1>1, <2>1 DEF history, AnswerInv, ClientTyped, IdsAreFresh, AnswersMatch
  <1>2. ASSUME UNCHANGED <<requestId, buffer, opens, stdin, stdout, history>>,
               pendingRequests' \subseteq pendingRequests, state' \in [Procs -> States],
               process' \in Procs \cup {0}, activated' \in BOOLEAN, connected' \in BOOLEAN
        PROVE  AnswerInv'
    <2>1. \A j, q : Sent(j, q)' = Sent(j, q)
      BY <1>2 DEF history, Sent
    <2>2. PipesAreTrue'
      BY <1>2, <2>1 DEF AnswerInv, PipesAreTrue
    <2> QED
      BY <1>2, <2>2 DEF history, AnswerInv, ClientTyped, IdsAreFresh, AnswersMatch
  <1>3. CASE Deactivate
    <2>1. process' \in Procs \cup {0} /\ activated' \in BOOLEAN /\ connected' \in BOOLEAN
      BY <1>3 DEF Deactivate, AnswerInv, ClientTyped
    <2>2. CASE process # 0 /\ state[process] = "up"
      BY <1>3, <2>1, <2>2, <1>1 DEF Deactivate, AnswerInv, ClientTyped
    <2>3. CASE ~(process # 0 /\ state[process] = "up")
      BY <1>3, <2>1, <2>3, <1>2 DEF Deactivate, AnswerInv, ClientTyped
    <2> QED
      BY <2>2, <2>3
  <1>4. ASSUME NEW i \in Ids, Timeout(i) PROVE AnswerInv'
    BY <1>4, <1>2 DEF Timeout, pipes, AnswerInv, ClientTyped
  <1>5. ASSUME NEW p \in Procs, Close(p) PROVE AnswerInv'
    BY <1>5, <1>2 DEF Close, AnswerInv, ClientTyped, States
  <1>6. ASSUME NEW p \in Procs, Die(p) PROVE AnswerInv'
    BY <1>6, <1>1 DEF Die, client, AnswerInv, ClientTyped
  <1>7. CASE UNCHANGED clientVars
    BY <1>7, <1>2 DEF clientVars, client, pipes, AnswerInv, ClientTyped
  <1> QED
    BY <1>3, <1>4, <1>5, <1>6, <1>7

\* The invariant that the theorem needs, and that the next one builds on.
LEMMA AnswerInvHolds == ClientSpec => []AnswerInv
  <1>1. ClientInit => AnswerInv
    <2> SUFFICES ASSUME ClientInit PROVE AnswerInv
      OBVIOUS
    <2>1. <<>> \in Seq(Nat) /\ <<>> \in Seq(Chunk)
      OBVIOUS
    <2>2. ClientTyped
      BY <2>1 DEF ClientInit, ClientTyped, States
    <2>3. PipesAreTrue /\ IdsAreFresh /\ AnswersMatch
      BY DEF ClientInit, PipesAreTrue, IdsAreFresh, AnswersMatch
    <2> QED
      BY <2>2, <2>3 DEF AnswerInv
  <1>2. AnswerInv /\ [ClientNext]_clientVars => AnswerInv'
    BY CallKeeps, LineKeeps, ChunkKeeps, ServeKeeps, EndingKeeps DEF ClientNext
  <1> QED
    BY <1>1, <1>2, PTL DEF ClientSpec

\* handleData: for any number of processes and calls, whichever processes are replaced,
\* die or answer late, a request is settled only by the process it was sent to.
THEOREM AnswersAreOwn == ClientSpec => []AnswersMatch
  <1>1. AnswerInv => AnswersMatch
    BY DEF AnswerInv
  <1> QED
    BY <1>1, AnswerInvHolds, PTL

-----------------------------------------------------------------------------
\* Requests that were written stay written; ids are theirs.
LEMMA SentStays ==
    ASSUME AnswerInv, ClientNext \/ UNCHANGED clientVars, ~(Connect \/ Call)
    PROVE  \A j, q : Sent(j, q)' = Sent(j, q)
  BY DEF ClientNext, Timeout, FinishLine, KeepChunk, Close, Serve, Die, Deactivate, clientVars, client,
         pipes, history, Sent

\* A new process is the only one that has yet to answer initialize, unless another one
\* has, too.
LEMMA ConnectOpens ==
    ASSUME AnswerInv, ConnectInv, Connect PROVE ConnectInv'
  <1> DEFINE i == FirstId
  <1>1. PICK p \in Procs :
            /\ state[p] = "unborn" /\ process' = p /\ state' = [state EXCEPT ![p] = "up"]
            /\ opens' = [opens EXCEPT ![p] = i] /\ Send(i, p)
    BY DEF Connect
  <1>2. i = requestId + 1 /\ UNCHANGED <<stdout, answeredBy, activated, connected>>
    BY DEF Connect, FirstId
  <1>3. PICK id : id = i
    OBVIOUS
  <1>4. /\ \A j, q : Sent(j, q) => Sent(j, q)'
        /\ Sent(id, p)' /\ id \notin pendingRequests /\ \A q : ~Sent(id, q)
    BY <1>1, <1>2, <1>3, SendKeeps
  <1>5. /\ opens'[p] = id /\ id \in Ids /\ id # 0 /\ state'[p] = "up" /\ pendingRequests' = pendingRequests \cup {id}
        /\ \A q \in Procs \ {p} : opens'[q] = opens[q] /\ state'[q] = state[q] /\ stdin'[q] = stdin[q]
    BY <1>1, <1>3, NumberFacts DEF Send, AnswerInv, ClientTyped, States
  <1>6. OpensAreSent'
    <2> SUFFICES ASSUME NEW q \in Procs
                 PROVE  /\ opens'[q] # 0 => Sent(opens[q], q)'
                        /\ state'[q] = "closed" => stdout'[q] = <<>>
                        /\ state'[q] = "unborn" =>
                               stdout'[q] = <<>> /\ stdin'[q] = <<>> /\ opens'[q] = 0
      BY DEF OpensAreSent
    <2>1. CASE q = p
      BY <2>1, <1>4, <1>5
    <2>2. CASE q # p
      BY <2>2, <1>2, <1>4, <1>5 DEF ConnectInv, OpensAreSent
    <2> QED
      BY <2>1, <2>2
  <1>7. OnlyCurrentOpens'
    <2> SUFFICES ASSUME activated', ~overlapped', NEW q \in Procs, opens'[q] \in pendingRequests'
                 PROVE  q = process'
      BY DEF OnlyCurrentOpens
    <2>1. ~overlapped /\ \A r \in Procs : opens[r] \notin pendingRequests
      BY DEF Connect
    <2>2. CASE q # p
      <3>1. opens[q] = id
        BY <2>1, <2>2, <1>5
      <3>2. Sent(opens[q], q)
        BY <3>1, <1>5 DEF ConnectInv, OpensAreSent
      <3> QED
        BY <3>1, <3>2, <1>4
    <2> QED
      BY <2>2, <1>1
  <1>8. CurrentIsOpened'
    BY <1>1, <1>5 DEF CurrentIsOpened
  <1>9. ConnectedIsServed'
    <2>1. overlapped' \/ ~connected
      BY DEF Connect, ConnectInv, ConnectedIsServed
    <2> QED
      BY <2>1, <1>2 DEF ConnectedIsServed
  <1> QED
    BY <1>6, <1>7, <1>8, <1>9 DEF ConnectInv

\* A request of a tool is no initialize.
LEMMA CallOpensNothing ==
    ASSUME AnswerInv, ConnectInv, Call PROVE ConnectInv'
  <1>1. PICK id : id = requestId + 1
    OBVIOUS
  <1>2. /\ process \in Procs /\ Send(id, process)
        /\ UNCHANGED <<activated, process, connected, state, opens, stdout, answeredBy, overlapped>>
    BY <1>1 DEF Call, AnswerInv, ClientTyped
  <1>3. /\ \A j, q : Sent(j, q) => Sent(j, q)'
        /\ \A q : ~Sent(id, q)
    BY <1>1, <1>2, SendKeeps
  <1>4. pendingRequests' = pendingRequests \cup {id} /\ id # 0
    BY <1>2, NumberFacts DEF Send
  <1>5. \A q \in Procs : opens[q] # id
    BY <1>3, <1>4 DEF ConnectInv, OpensAreSent
  <1>6. \A q \in Procs : q # process => stdin'[q] = stdin[q]
    BY <1>2 DEF Send, AnswerInv, ClientTyped
  <1>7. OpensAreSent'
    <2> SUFFICES ASSUME NEW q \in Procs
                 PROVE  /\ opens'[q] # 0 => Sent(opens[q], q)'
                        /\ state'[q] = "closed" => stdout'[q] = <<>>
                        /\ state'[q] = "unborn" =>
                               stdout'[q] = <<>> /\ stdin'[q] = <<>> /\ opens'[q] = 0
      BY DEF OpensAreSent
    <2>1. opens'[q] # 0 => Sent(opens[q], q)'
      BY <1>2, <1>3 DEF ConnectInv, OpensAreSent
    <2>2. state[q] = "unborn" => q # process
      BY <1>2, NumberFacts DEF ConnectInv, CurrentIsOpened
    <2> QED
      BY <2>1, <2>2, <1>2, <1>6 DEF ConnectInv, OpensAreSent
  <1>8. OnlyCurrentOpens'
    BY <1>2, <1>4, <1>5 DEF ConnectInv, OnlyCurrentOpens
  <1>9. CurrentIsOpened' /\ ConnectedIsServed'
    BY <1>2 DEF ConnectInv, CurrentIsOpened, ConnectedIsServed
  <1> QED
    BY <1>7, <1>8, <1>9 DEF ConnectInv

\* An answer to initialize that connects the client is that of its current process.
LEMMA LineConnects ==
    ASSUME AnswerInv, ConnectInv, NEW p \in Procs, FinishLine(p) PROVE ConnectInv'
  <1> DEFINE c == Head(stdout[p])
  <1>1. stdout[p] \in Seq(Chunk) /\ stdout[p] # <<>>
    BY DEF FinishLine, AnswerInv, ClientTyped
  <1>2. c.id = 0 \/ Sent(c.id, p)
    <2>1. c = stdout[p][1] /\ 1 \in 1 .. Len(stdout[p])
      BY <1>1, TailFacts
    <2> QED
      BY <2>1 DEF AnswerInv, PipesAreTrue
  <1>3. state[p] \in {"up", "down"}
    BY <1>1 DEF ConnectInv, OpensAreSent, AnswerInv, ClientTyped, States
  <1>4. \/ UNCHANGED <<pendingRequests, answeredBy, connected>>
        \/ /\ c.id \in pendingRequests /\ pendingRequests' = pendingRequests \ {c.id}
           /\ answeredBy' = [answeredBy EXCEPT ![c.id] = p]
           /\ connected' = (connected \/ \E q \in Procs : opens[q] = c.id)
    BY DEF FinishLine, Settle
  <1>5. UNCHANGED <<activated, process, requestId, state, opens, stdin, sentTo, overlapped>>
    BY DEF FinishLine
  <1>6. OpensAreSent'
    <2>1. \A j, q : Sent(j, q)' = Sent(j, q)
      BY <1>5 DEF Sent
    <2>2. \A q \in Procs : stdout[q] = <<>> => stdout'[q] = <<>>
      BY <1>1 DEF FinishLine, AnswerInv, ClientTyped
    <2> QED
      BY <2>1, <2>2, <1>5 DEF ConnectInv, OpensAreSent
  <1>7. OnlyCurrentOpens' /\ CurrentIsOpened'
    BY <1>4, <1>5 DEF ConnectInv, OnlyCurrentOpens, CurrentIsOpened
  <1>8. ConnectedIsServed'
    <2> SUFFICES ASSUME activated, connected', ~overlapped
                 PROVE  /\ process # 0 /\ state[process] \in {"up", "down"}
                        /\ answeredBy'[opens[process]] = process
      BY <1>5 DEF ConnectedIsServed
    <2>1. CASE UNCHANGED <<pendingRequests, answeredBy, connected>>
      BY <2>1 DEF ConnectInv, ConnectedIsServed
    <2>2. CASE /\ c.id \in pendingRequests /\ answeredBy' = [answeredBy EXCEPT ![c.id] = p]
               /\ \E q \in Procs : opens[q] = c.id
      <3>1. PICK q \in Procs : opens[q] = c.id
        BY <2>2
      <3>2. q = process /\ c.id \in Ids /\ c.id # 0
        BY <3>1, <2>2, NumberFacts DEF ConnectInv, OnlyCurrentOpens, AnswerInv, ClientTyped
      <3>3. Sent(c.id, p) /\ Sent(c.id, q)
        BY <3>1, <3>2, <1>2 DEF ConnectInv, OpensAreSent
      <3>4. p = q
        BY <3>3 DEF Sent
      <3> QED
        BY <3>1, <3>2, <3>4, <2>2, <1>3, NumberFacts DEF AnswerInv, ClientTyped
    <2>3. CASE /\ connected /\ c.id \in pendingRequests
               /\ answeredBy' = [answeredBy EXCEPT ![c.id] = p]
               /\ ~\E q \in Procs : opens[q] = c.id
      <3>1. process \in Procs /\ opens[process] # c.id
        BY <2>3 DEF ConnectInv, ConnectedIsServed, AnswerInv, ClientTyped
      <3>2. opens[process] \in Ids
        BY <3>1, NumberFacts DEF ConnectInv, CurrentIsOpened, OpensAreSent, Sent
      <3> QED
        BY <3>1, <3>2, <2>3 DEF ConnectInv, ConnectedIsServed, AnswerInv, ClientTyped
    <2> QED
      BY <2>1, <2>2, <2>3, <1>4
  <1> QED
    BY <1>6, <1>7, <1>8 DEF ConnectInv

\* What else happens to a process connects nothing; its end is noticed as the client's.
LEMMA OthersKeepConnection ==
    ASSUME AnswerInv, ConnectInv, ~(Connect \/ Call), ClientNext \/ UNCHANGED clientVars,
           ~\E p \in Procs : FinishLine(p)
    PROVE  ConnectInv'
  <1>1. \A j, q : Sent(j, q)' = Sent(j, q)
    BY SentStays
  <1>2. CASE Deactivate
    <2>1. ~activated' /\ process' = 0 /\ opens' = opens
      BY <1>2 DEF Deactivate
    <2>2. OnlyCurrentOpens' /\ CurrentIsOpened' /\ ConnectedIsServed'
      BY <2>1 DEF OnlyCurrentOpens, CurrentIsOpened, ConnectedIsServed
    <2>3. OpensAreSent'
      <3>1. CASE UNCHANGED <<state, stdin, stdout>>
        BY <3>1, <2>1, <1>1 DEF ConnectInv, OpensAreSent
      <3>2. CASE process # 0 /\ Ends(process)
        <4>1. /\ process \in Procs /\ state'[process] = "down"
              /\ \A q \in Procs \ {process} :
                    state'[q] = state[q] /\ stdin'[q] = stdin[q] /\ stdout'[q] = stdout[q]
          BY <3>2, <1>2, EndsKeeps DEF Deactivate, history, AnswerInv, ClientTyped
        <4> QED
          BY <4>1, <2>1, <1>1 DEF ConnectInv, OpensAreSent
      <3> QED
        BY <3>1, <3>2, <1>2 DEF Deactivate
    <2> QED
      BY <2>2, <2>3 DEF ConnectInv
  <1>3. ASSUME NEW p \in Procs, Die(p) PROVE ConnectInv'
    <2>1. /\ state'[p] = "down" /\ state[p] = "up" /\ UNCHANGED <<client, opens, history>>
          /\ \A q \in Procs \ {p} :
                state'[q] = state[q] /\ stdin'[q] = stdin[q] /\ stdout'[q] = stdout[q]
      BY <1>3, EndsKeeps DEF Die, client, history
    <2>2. OpensAreSent'
      BY <2>1, <1>1 DEF ConnectInv, OpensAreSent
    <2>3. OnlyCurrentOpens' /\ CurrentIsOpened'
      BY <2>1, NumberFacts DEF client, history, ConnectInv, OnlyCurrentOpens, CurrentIsOpened, AnswerInv, ClientTyped
    <2>4. ConnectedIsServed'
      BY <2>1, NumberFacts DEF client, history, ConnectInv, ConnectedIsServed, AnswerInv, ClientTyped
    <2> QED
      BY <2>2, <2>3, <2>4 DEF ConnectInv
  <1>4. ASSUME NEW p \in Procs, Close(p) PROVE ConnectInv'
    <2>1. /\ state[p] = "down" /\ state'[p] = "closed" /\ stdout[p] = <<>> /\ ~connected'
          /\ \A q \in Procs \ {p} : state'[q] = state[q]
          /\ UNCHANGED <<activated, process, pendingRequests, opens, stdin, stdout, history>>
      BY <1>4 DEF Close, AnswerInv, ClientTyped
    <2> QED
      BY <2>1, <1>1, NumberFacts
         DEF ConnectInv, OpensAreSent, OnlyCurrentOpens, CurrentIsOpened, ConnectedIsServed,
             history, AnswerInv, ClientTyped
  <1>5. ASSUME NEW p \in Procs, KeepChunk(p) \/ Serve(p) PROVE ConnectInv'
    <2>1. UNCHANGED <<activated, process, connected, pendingRequests, opens, state, answeredBy, overlapped>>
      BY <1>5 DEF KeepChunk, Serve, client, history
    <2>2. /\ state[p] # "unborn" /\ state[p] # "closed"
          /\ \A q \in Procs \ {p} : stdin'[q] = stdin[q] /\ stdout'[q] = stdout[q]
      BY <1>5 DEF KeepChunk, Serve, ConnectInv, OpensAreSent, AnswerInv, ClientTyped
    <2>3. OpensAreSent'
      BY <2>1, <2>2, <1>1 DEF ConnectInv, OpensAreSent
    <2> QED
      BY <2>1, <2>3 DEF ConnectInv, OnlyCurrentOpens, CurrentIsOpened, ConnectedIsServed
  <1>6. CASE (\E i \in Ids : Timeout(i)) \/ UNCHANGED clientVars
    <2>1. /\ UNCHANGED <<activated, process, connected, opens, state, stdin, stdout, answeredBy, overlapped>>
          /\ pendingRequests' \subseteq pendingRequests
      BY <1>6 DEF Timeout, clientVars, client, pipes, history
    <2> QED
      BY <2>1, <1>1
         DEF ConnectInv, OpensAreSent, OnlyCurrentOpens, CurrentIsOpened, ConnectedIsServed
  <1> QED
    BY <1>2, <1>3, <1>4, <1>5, <1>6 DEF ClientNext

\* connect and isConnected: for any number of processes and calls, a client that says it
\* is connected has a current process that has answered initialize and whose end was not
\* noticed, unless two connects overlapped.
THEOREM ConnectedHasAProcess == ClientSpec => []ConnectedIsServed
  <1>1. ClientInit => ConnectInv
    BY DEF ClientInit, ConnectInv, OpensAreSent, OnlyCurrentOpens, CurrentIsOpened, ConnectedIsServed
  <1>2. AnswerInv /\ ConnectInv /\ [ClientNext]_clientVars => ConnectInv'
    BY ConnectOpens, CallOpensNothing, LineConnects, OthersKeepConnection
  <1>3. ConnectInv => ConnectedIsServed
    BY DEF ConnectInv
  <1> QED
    BY <1>1, <1>2, <1>3, AnswerInvHolds, PTL DEF ClientSpec
=============================================================================
