-------------------------- MODULE PermissionBroker --------------------------
(***************************************************************************)
(* scripts/permission-broker.py: the daemon that grants sandboxed          *)
(* containers temporary access to a path by a symbolic link.  A request is *)
(* denied, granted or queued for a person, who approves or denies it; a    *)
(* link is removed when its time is over, when it is revoked, and when the *)
(* daemon stops.                                                           *)
(*                                                                         *)
(* The handlers run on one event loop and change nothing after an await,   *)
(* so each is one step.  The links are on disk and outlive the process.    *)
(***************************************************************************)
EXTENDS Naturals, FiniteSets

CONSTANTS Reqs,         \* request ids; a request that is made again is a new one
          Denied,       \* requests for a path on the deny list
          AutoApproved, \* requests for a path that is approved automatically
          MaxPending    \* max_pending_requests

ASSUME BrokerAssumption ==
    /\ Denied \subseteq Reqs /\ AutoApproved \subseteq Reqs
    /\ MaxPending \in Nat

VARIABLES running,  \* the daemon is up
          cleaner,  \* its cleanup task is alive
          pending,  \* PermissionBroker.pending_requests
          active,   \* MountManager.active_mounts
          expired,  \* the active mounts whose expires_at has passed
          links,    \* the symbolic links under mount_base
          made,     \* history: requests made
          ended,    \* history: requests that were denied, revoked or expired
          leftover, \* history: links that were there when the daemon went down
          unrecorded  \* history: requests whose ttl made create_mount raise, after the link was made

vars == <<running, cleaner, pending, active, expired, links, made, ended, leftover,
          unrecorded>>

Init ==
    /\ running = FALSE
    /\ cleaner = FALSE
    /\ pending = {}
    /\ active = {}
    /\ expired = {}
    /\ links = {}
    /\ made = {}
    /\ ended = {}
    /\ leftover = {}
    /\ unrecorded = {}

----------------------------------------------------------------------------
(* MountManager                                                            *)

\* create_mount with a number of seconds: the link and the record of it.
Mounts(r) ==
    /\ links' = links \cup {r}
    /\ active' = active \cup {r}
    /\ expired' = expired \ {r}
    /\ unrecorded' = unrecorded \ {r}

\* create_mount with a ttl that is none: null or a string, for which timedelta
\* raises TypeError, or a number that is too large for it, or for the date, an
\* OverflowError.  The link is there by then, and nothing is recorded yet.
MountsUnrecorded(r) ==
    /\ links' = links \cup {r}
    /\ unrecorded' = unrecorded \cup {r}
    /\ UNCHANGED <<active, expired>>

\* OSError before the link is made; an older one of the request may be gone by then.
MountFails(r) ==
    /\ links' \in {links, links \ {r}}
    /\ UNCHANGED <<active, expired, unrecorded>>

\* Mutant: the record goes whether the link could be removed or not.
UnmountsAnyway(rs, kept) ==
    /\ active' = active \ rs
    /\ expired' = expired \ rs
    /\ links' = links \ (rs \ kept)
    /\ ended' = ended \cup rs
    /\ UNCHANGED unrecorded

\* remove_mount for each of rs.  For those in kept it fails: at the link, or
\* at its directory when the link is already gone; they stay active.
Unmounts(rs, kept) ==
    /\ active' = active \ (rs \ kept)
    /\ expired' = expired \ (rs \ kept)
    /\ \E unlinked \in SUBSET kept : links' = links \ ((rs \ kept) \cup unlinked)
    /\ ended' = ended \cup (rs \ kept)
    /\ UNCHANGED unrecorded

----------------------------------------------------------------------------
(* The handlers                                                            *)

Room == Cardinality(pending) < MaxPending

\* The ttl of a request is the one of its message, or default_ttl; what is queued
\* has not been asked for its ttl yet.
Request(r) ==
    /\ running
    /\ Room
    /\ r \notin made
    /\ made' = made \cup {r}
    /\ \/ /\ r \in Denied
          /\ ended' = ended \cup {r}
          /\ UNCHANGED <<pending, active, expired, links, unrecorded>>
       \/ /\ r \in AutoApproved \ Denied
          /\ Mounts(r) \/ MountsUnrecorded(r) \/ MountFails(r)
          /\ UNCHANGED <<pending, ended>>
       \/ /\ r \notin AutoApproved \cup Denied
          /\ pending' = pending \cup {r}
          /\ UNCHANGED <<active, expired, links, ended, unrecorded>>
    /\ UNCHANGED <<running, cleaner, leftover>>

\* Mutant: an approved request stays in the queue.
ApproveKept(r) ==
    /\ running
    /\ r \in pending
    /\ \/ Mounts(r) /\ UNCHANGED pending
       \/ MountsUnrecorded(r) /\ UNCHANGED pending
       \/ MountFails(r) /\ UNCHANGED pending
    /\ UNCHANGED <<running, cleaner, made, ended, leftover>>

\* The ttl is that of the approval, if its message has one, or that of the request.
\* A request whose mount failed stays in the queue.
Approve(r) ==
    /\ running
    /\ r \in pending
    /\ \/ Mounts(r) /\ pending' = pending \ {r}
       \/ MountsUnrecorded(r) /\ UNCHANGED pending
       \/ MountFails(r) /\ UNCHANGED pending
    /\ UNCHANGED <<running, cleaner, made, ended, leftover>>

Deny(r) ==
    /\ running
    /\ r \in pending
    /\ pending' = pending \ {r}
    /\ ended' = ended \cup {r}
    /\ UNCHANGED <<running, cleaner, active, expired, links, made, leftover, unrecorded>>

Revoke(r) ==
    /\ running
    /\ r \in active
    /\ \E kept \in SUBSET {r} : Unmounts({r}, kept)
    /\ UNCHANGED <<running, cleaner, pending, made, leftover>>

\* expires_at of an active mount passes.
TimePasses(r) ==
    /\ r \in active \ expired
    /\ expired' = expired \cup {r}
    /\ UNCHANGED <<running, cleaner, pending, active, links, made, ended, leftover, unrecorded>>

\* Mutant: the task waits until nobody has to decide anything.
CleanupWhenQuiet(kept) ==
    /\ running /\ cleaner
    /\ pending = {}
    /\ expired # {}
    /\ kept \subseteq expired
    /\ Unmounts(expired, kept)
    /\ UNCHANGED <<running, cleaner, pending, made, leftover>>

\* One round of _cleanup_task; the mounts in kept cannot be removed.
Cleanup(kept) ==
    /\ running /\ cleaner
    /\ expired # {}
    /\ kept \subseteq expired
    /\ Unmounts(expired, kept)
    /\ UNCHANGED <<running, cleaner, pending, made, leftover>>

\* An error of the audit log, which nothing in the task handles, ends it when
\* something was removed.
CleanupEnds ==
    /\ running /\ cleaner
    /\ \E kept \in SUBSET expired :
          /\ kept # expired
          /\ Unmounts(expired, kept)
    /\ cleaner' = FALSE
    /\ UNCHANGED <<running, pending, made, leftover>>

----------------------------------------------------------------------------
(* The daemon                                                              *)

Start ==
    /\ ~running
    /\ running' = TRUE
    /\ cleaner' = TRUE
    /\ UNCHANGED <<pending, active, expired, links, made, ended, leftover, unrecorded>>

\* stop: every active mount is removed, and with the process goes the rest.
Stop ==
    /\ running
    /\ running' = FALSE
    /\ cleaner' = FALSE
    /\ pending' = {}
    /\ active' = {}
    /\ expired' = {}
    /\ \E left \in SUBSET active : links' = links \ (active \ left)
    /\ ended' = ended \cup active \cup pending
    /\ leftover' = links'
    /\ unrecorded' = {}
    /\ UNCHANGED made

\* The process dies: only what is on disk remains.
Crash ==
    /\ running
    /\ running' = FALSE
    /\ cleaner' = FALSE
    /\ pending' = {}
    /\ active' = {}
    /\ expired' = {}
    /\ ended' = ended \cup active \cup pending
    /\ leftover' = links
    /\ unrecorded' = {}
    /\ UNCHANGED <<links, made>>

Next ==
    \/ \E r \in Reqs : Request(r) \/ Approve(r) \/ Deny(r) \/ Revoke(r) \/ TimePasses(r)
    \/ \E kept \in SUBSET Reqs : Cleanup(kept)
    \/ CleanupEnds \/ Start \/ Stop \/ Crash

Spec == Init /\ [][Next]_vars

\* Time passes, the cleanup task wakes up, and the removal of one mount does
\* not fail for ever, whatever becomes of the others.
Fairness ==
    \A r \in Reqs :
        /\ WF_vars(TimePasses(r))
        /\ WF_vars(\E kept \in SUBSET (Reqs \ {r}) : r \in expired /\ Cleanup(kept))

----------------------------------------------------------------------------
(* Properties                                                              *)

TypeOK ==
    /\ running \in BOOLEAN
    /\ cleaner \in BOOLEAN
    /\ cleaner => running
    /\ pending \subseteq made
    /\ Cardinality(pending) <= MaxPending
    /\ active \subseteq made
    /\ expired \subseteq active
    /\ links \subseteq made
    /\ made \subseteq Reqs
    /\ ended \subseteq made
    /\ leftover \subseteq made
    /\ unrecorded \subseteq made

\* "creates temporary mounts with TTL on approval": a link this daemon has made
\* is one it knows of and will remove, unless it was made for a ttl that is no number
\* of seconds, or too large a number; no failure of the disk, of a clean-up or of a
\* revocation loses track of one.
LinksAreKnown == running => links \subseteq active \cup unrecorded \cup leftover

\* "approve <id> [--ttl N]   Approve a pending request" (scripts/claude-broker)
\* and "creates temporary mounts with TTL on approval": what an approval makes
\* is recorded, to be removed, whether a TTL is given or not.
MountsAreRecorded == running => links \subseteq active \cup leftover

\* A request that was denied, revoked or has expired is never granted again:
\* it is neither active nor among those that can still be approved.
EndedStaysEnded == ended \cap (active \cup pending) = {}

\* A link the daemon that runs does not know of, or has no task to remove.
Lost(r) == r \in unrecorded \cup leftover \/ (running /\ ~cleaner)

\* "creates temporary mounts with TTL on approval": every link is removed some
\* time, however often removing others fails, as long as the daemon knows of it
\* and its clean-up task is alive.
MountsAreTemporary == \A r \in Reqs : r \in links ~> (r \notin links \/ Lost(r))
=============================================================================
