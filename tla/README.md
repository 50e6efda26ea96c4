# Verification of Claude-Code++ (memory MCP server and its helpers)

The repository is an MCP server that gives Claude a tiered memory
(`python/memory_mcp/`, about 16 500 lines of Python), a daemon that grants
sandboxed containers temporary access to paths (`scripts/permission-broker.py`),
a VS Code extension that talks to the server (`CAIIDE++/extensions/memory-mcp`),
a Swift process that controls the desktop (`swift-system-controller/`), and
scripts to install and deploy all of it.

This directory holds TLA+ models of twenty-four of its components, TLC configurations
that check them on small instances, and TLAPS proofs of the properties that
matter most in twenty-one of them.  `PROJECT.json` has, for machines, what this file
has for readers: the runs, which lines every definition models, a mutated
definition for every property (a plausible bug that the run finds), the hazards
of the code and the properties that watch over them.

    tlc -workers 2 -config TierPromotion.cfg MCTierPromotion.tla
    tlapm TierPromotionProofs.tla


## 1. Inventory

### How the parts interact

`server.py` reads JSON-RPC requests from stdin on the thread of one asyncio
event loop and calls handlers, which are plain functions: *a handler runs to its
end before the loop does anything else*.  What runs beside the handlers are

- tasks of the same loop: the background promoter (`tier_manager.py:128`), the
  extraction loop (`proactive/queue_manager.py`), coroutines that `run_async`
  scheduled on the loop it then blocks (`async_utils.py:17`);
- worker threads of `asyncio.to_thread` that read SQLite for the promoter, and
  threads without a loop, for which `run_async` runs a coroutine on a loop of its own;
- other processes: a second server on the same Redis, SQLite file, vault or
  keyring.

The other server, `server_sdk.py`, answers its tool calls on one event loop, too.
The locks that some components have (`LazyService`, `get_components`, the rate limiter)
are for callers in several threads; the models have such callers where the code takes
care of them, and section 5 says what it does not take care of.

The components share state through Redis, the SQLite file, the vault directory,
the keyring and the backup directory.  Those outlive the process; everything
else is lost when it dies.

### Components that are modelled

| component | state | operations | what is hard | what makes it correct |
|---|---|---|---|---|
| Tier promotion: `tier_manager.py`, `access_tracker.py`, the memory and research handlers | SQLite rows, access counts in Redis and in an LRU table in memory, promotion queue, background task, knowledge graph | store, recall, search, delete, `record_access`, `queue_promotion`, promoter loop, `promote_to_warm`, restart | Redis loses answers after the effect; entries expire or are evicted; a coroutine that was given up on runs later; a row is deleted between queue and promotion | promotion is earned; one episode per trigger; a delete stops promotion; the queue is served |
| Extraction queue: `proactive/queue_manager.py` | bounded deque, status and retries of items, `_processing`, `_task` | enqueue, clear, start, stop, batch, retry, clean-up | `stop_processing` awaits while a start stores another task; a full deque drops by itself; cancellation inside the processor | one owner, bounded attempts, nothing lost, everything settles, loops end |
| SQLite index: `sqlite_index.py` | connection pool, the transaction each connection is in, the table | get, insert, update, delete, upsert | a caught error leaves a transaction open on a pooled connection; upsert is two calls; temporary connections | connections are neither shared nor leaked; reads are current, writes not locked out |
| Lazy services: `server.py` `LazyService` | instance, flags, lock | `get`, `reset` | double-checked locking, a factory that raises | a cell that is filled once |
| SDK components: `server_sdk.py` `get_components` | five globals, lock | `get_components` | a constructor that raises half-way | each built once, tuples complete |
| Rate limiter: `rate_limiter.py` | stamps of each client | `check`, `reset`, clean-up | the clock is read before the lock; boundaries of the window | never more than the limit in any window; `retry_after` exact |
| Permission broker: `scripts/permission-broker.py` | pending requests, active mounts, links on disk | request, approve, deny, revoke, clean-up, start, stop, crash | the link is made before it is recorded; removal can fail; links outlive the process | no link without a record; what has ended stays ended; links are temporary |
| Local backups: `backup_manager.py` | database, write-ahead log, vault; a directory and a tar file per backup | backup, compress, retention, delete, restore | a crash or failure between any two steps | what was reported can be restored, in full |
| Encrypted backups: `backup_manager.py` | files, key and nonce counter in the keyring | backup, delete, `rotate_key`, the nonce counter | a rotation that fails half-way, or whose key the keyring refuses; a counter that wraps and that several processes read and write in two calls; the resolution of a file name | nonces unique; the manager, and the next one, can open every file |
| VS Code extension and stdio server: `mcpClient.ts`, `extension.ts`, `server.py` `run_stdio` | processes and their pipes; the client's current process, pending requests, line buffer, `connected` | connect, call, answers, time-outs, close, deactivate; the server's loop | replaced processes share the table and the buffer; the rest of a line; answers with the id 0; late answers | an answer settles only its own request; every call settles; connected means served |
| System controller: `swift-system-controller/` | permission level; stamps of clicks, key count; the action log and its old files | the requests, rotation, restart | a rotation that fails or is cut short at any step | limits kept; the log in order, and written again when it can be |
| Research sessions: `handlers/research.py`, `vault_manager.py` | sessions in memory with their transcripts and captures, rows, notes in the vault, a marker file | start, store, end, restart | an end is several notes, a row and a file, each of which can fail; another server ends the session; the marker is one for all | ending loses nothing; the marker names an active session |
| Sessions: `handlers/session.py`, `redis_client.py`, `schemas.py` | two Redis keys per session, or one SQLite row | save, restore | which key is newer; two GETs per restore; results that nobody looks at | a restore gives the last save, and never goes back |
| Search over the tiers: `tier_manager.py`, `handlers/memory.py`, `handlers/research.py` | none; it reads SQLite, the graph, the vault, livegrep | `search_all_tiers`, `search_all_tiers_parallel`, `memory_search`, `research_search` | tiers answer in any order or fail; duplicates; the cut after the sort; filters on fields that are not there | the best of what was found is given |
| Hot tier: `redis_client.py` | the client, its connection and lock; lists and entries in Redis | connect, push, read and clear a context, cache and get | the connection is dropped by another thread; three commands per push, each of which can be lost or take effect twice; expiry between them | calls fail only with Redis; windows are bounded and expire |
| LLM response cache: `llm_cache.py` | entries in Redis, an index of embeddings in memory | `get_or_generate`, `get`, `invalidate`, `clear` | the generator is awaited; the index and Redis drift apart; similar prompts | what was removed is not served; what is served fits |
| Embedding cache: `embedding_cache.py` | a vector in Redis and one in SQLite | get with promotion, set, delete, clear, prune | two tiers written one after the other, one of them without a lock; expiry | no older vector |
| Embedding providers: `embedding_provider.py` | memory cache, current provider | `embed`, `embed_batch` | the oldest entry is chosen and deleted in two steps; places in a batch; a provider that fails | each text its own vector |
| Knowledge graph manager: `graphiti_manager.py` | graph, drivers, an asyncio lock that is made when it is first needed | `initialize`, `close` | several event loops; a caller that gives up in the middle of an await; drivers that the manager did not make | initialized means usable; no driver lost |
| Request tracer: `request_tracer.py` | current trace, stored traces | start, end, spans, events | one current trace for all requests | a trace has its own events |
| Statistics: `stats_collector.py` | counts in memory, a JSON file | record, save, load, reset | saved every tenth operation, in two steps, by several processes | a restart loses less than a batch |
| Vault: `vault_manager.py` | notes | write, delete, read, search | a write reads the old date first; a note that goes or cannot be read | dates are kept; searches complete |
| Plug-ins: `plugins/loader.py`, `plugins/registry.py` | the allow list, a JSON file; the registry | approve, revoke, load, unregister | the list is read, changed and written back; a file that is edited after it was verified | only what was approved runs |
| Cost tracker: `cost_tracker.py` | costs under a lock | `track`, `get_stats`, `reset` | a lock that its owner takes again | who exceeds the budget is told; calls return |

### Components that are not modelled

`async_utils.py` is modelled as far as tier promotion sees it.  Not worth a model:
pattern matching over text (`proactive/insight_detector.py`), the model router
(a pure choice by keywords), the livegrep client (HTTP without state),
configuration, validation and tool schemas (checks of single values), diagnostics,
listings and health checks (they read and print the state of the others),
`python/shared` (single-threaded twins of the caches), the onboarding panels,
install scripts, Docker, API collections.

Left out of components that are modelled: the checks of vault paths and the
extraction of links and tags; preferences in Redis and its listings; the unsafe mode of the
plug-in loader and what a plug-in does; `PerToolRateLimiter` (a table of rate
limiters); the trace's log file; `iter_all` of the index, which the program does
not call; how SQLite, the graph and livegrep match a query; two processes that
create the key of the encrypted backups at once.  `PROJECT.json` says so
component by component.


## 2. Modules

Each component has a module (state, `Init`, one action per operation or step,
`Next`, `Spec`, properties) and an `MC` module with the `.cfg` that instantiates it.
The `MC...Parts` modules have several components in one run that share no
state: a behaviour is one of one part, while the others rest.  They extend the modules of
their components, and so do the `Proofs` modules that are about the same
components: a run and a theorem speak of the same definitions.  Therefore
the names of such modules differ (`ClientInit`, `GraphInit`, `LimiterInit`, ...).
`TierPromotion` extends `AccessTracker`.  Four components instantiate, under a refinement
mapping, an abstract specification of what they promise to their callers: `LazyService`
`OnceCell`, `RateLimiter` `SlidingWindow`, `ExtractionQueue` `WorkList` and
`EmbeddingCache` `VectorStore`.

    AccessTracker <- TierPromotion <- MCTierPromotion
                                   <- TierPromotionProofs
    OnceCell <- LazyService
    SlidingWindow <- RateLimiter
    WorkList <- ExtractionQueue
    VectorStore <- EmbeddingCache
    LazyService, ComponentInit, RateLimiter, ResearchSessions, GraphitiInit,
    RequestTracer, CostTracker, TierSearch
                               <- ServerProofs
                               <- MCServerParts
    HotTier, LLMCache, EmbeddingCache, EmbeddingProviders, StatsFile, VaultNotes
                               <- StoreProofs
                               <- MCStoreParts (SessionStore in place of VaultNotes)
    SessionStore <- SessionStoreProofs
    LocalBackup, EncryptedBackup, NonceCounter, PluginApproval, SystemController
                               <- DiskProofs
                               <- MCDiskParts (with VaultNotes)
    PermissionBroker, McpClient <- AgentProofs, MCAgentParts
    SqlitePool <- MCSqlitePool, SqlitePoolProofs
    ExtractionQueue <- MCExtractionQueue, ExtractionQueueProofs
    TierSearch <- MCTierSearch

A definition that begins with "Mutant:" in its comment is not part of the model:
it is the changed form that shows that a property can fail.  Variables marked
`history` are not in the code; they say what has happened.

**AccessTracker** is `access_tracker.py` as operators on one record: the counts
in Redis, the counts in memory and their LRU order.  `AfterRecord` and
`AfterRead` are *sets* of outcomes, because a Redis call can succeed, fail, or
take effect and report a failure, after which the access is counted in memory
too.  `get_stats` returns one of the two counts, never their sum.

**TierPromotion** is `TierManager` as the handlers drive it.  A handler is one
atomic action (section 1); the promoter takes one step for each of its awaits:
`PromoterTakes` (the `wait_for` on the queue), `PromoterReads` (the row, in a
worker thread), `PromoterAdds` (the episode, which is added or not, and
which times out or not).  `RecordAccess` is all of `record_access`: the count,
the decision, the queue and, if that is full, the promotion on the spot.  On the
loop's own thread `run_async` blocks the loop that should run its coroutine, so
the call times out and the coroutine runs later: `zombies`, `ZombieAdds`.
`Restart` loses everything in memory.

**ExtractionQueue** has one action for each stretch between two awaits of the
background loop and of `stop_processing`, which two callers may be in at once
(`awaited`); `Loops` are all the tasks ever created, because a stop that overlaps a start
leaves a task behind that `_task` no longer names (`forgotten`).  Items are numbered in
the order in which they are appended, so that the deque is the set of its items' numbers.
**WorkList** is what those who enqueue see of it: jobs that wait are taken, the oldest
first, by a processor that is done with them, gives them back or abandons them, and a job
that comes may push out the oldest that waits.  It has no tasks, no starts and no stops,
and says nothing of the clean-up; an item of a cancelled batch keeps its status for ever
in the code, and is `abandoned` there (`StageNow`).

**SqlitePool** has the transaction of each connection: `sqlite3` opens one
before a data-changing statement, and it stays open until the code commits, also
if the statement failed.  `log` is the sequence of committed tables; a
connection in a `snapshot` reads an old one.  `upsert` is a lookup, after which
the connection is given back (`Continue`), then an insert or an update.  Other
processes write at any time (`OtherWrites`).

**LazyService** is `get` step by step: the check without the lock, the lock, the
check under it, the factory (which may return None or raise), the `finally`;
`reset` with any of them in between.  **OnceCell** is what it promises:
every `get` returns what the cell was at a moment of the call.

**ComponentInit** is `get_components`, one assignment per step, for every
configuration of the optional components.

**RateLimiter** separates the reading of the clock from the critical section;
time may pass in between.  A stamp of the code's list is a number and a time, since two
requests of a client can have one time; `Check` has the clean-up,
the pruning, the comparison and `retry_after`.  **SlidingWindow** forgets nothing: each
check looks at all requests that were ever admitted.

**PermissionBroker** has a step for each command of the daemon, each with the
failures of the disk that can happen in it.  `kept` are the mounts whose removal
fails.  `CleanupEnds` is an error of the audit log, which ends the clean-up task.

**LocalBackup** cuts `backup`, `_compress_backup`, `_enforce_retention_policy`
and `restore` into the steps between which a crash leaves a different disk:
a directory that is half filled, a tar file that is half written (`Torn`), both,
a target that is half replaced.  The contents are a version of the database and
a set of notes.

**EncryptedBackup** is one manager with one caller at a time.  It has two steps for
every file (it is truncated, then written), and one for each file of a rotation; a
rotation may also leave the files as they are (`BeginRotation`).  The end of a rotation
is `StoreKey` or, when the keyring raises, `StoreKeyFails`, after which the manager's
key and the stored one may differ (`refused`).  **NonceCounter** is the counter of the
nonces, which any number of threads and processes read (`GetCounter`) and write
(`StoreCounter`) in two calls; `overtaken` are the writes that came when the counter had
moved on.  It leaves out the clock and the random bytes, which the rest of a nonce is:
what it says holds whatever they are.

**SessionStore** has servers that found a Redis and servers that did not.  A
save sets one of two keys, whichever its size calls for; a restore takes two
steps, a GET each.  A number stands for the content that was saved.

**ResearchSessions** has servers that share the vault, SQLite and the marker
file.  An end is three steps: what precedes the transcript note, that note
(`WriteTranscript`), and the rest; a note that fails raises, and the session
stays (`WriteFails`).  The row of a session only matters as being there, the
session note and the insights only as what can fail.  A transcript that is stored
where its session is not active is a row of its own and nothing else.

**McpClient** is the client and the servers it starts, one after the other, with
the pipes between them.  An answer reaches `handleData` as one chunk or two
(`KeepChunk`, `FinishLine`); a process can die with half a line written (`Ends`).
`Serve` is one turn of `run_stdio`: the tools are other modules, here there is
only the id of what they answer.  Nothing that `connect` does waits for or
kills the process before it, so up to three processes answer into one table.

**SystemController** is the Swift process.  What is done on the desktop is
external; what is modelled is which requests are allowed (`AtLeast`, `Take`,
`AllowKeys`) and logged (`Logs`).  `After(n)` are the files once a rotation has
done n of its steps: a failure or a crash leaves one of them.  A click, and a key,
is its time and a number that tells it from others of that time, so that sets of
them can be counted.

**TierSearch** has one step for each tier that is asked, in sequence (`AskNext`)
or all at once, in any order (`Answer`); a tier gives its best matches in an order
of its own, or nothing.  `Merge` and `Ranked` are the de-duplication and the
stable sort by score, without recursion: a result is at the place that the number of those
before it says (`Arranged`).  A result has the *fields* that the code puts into it, and a
filter asks for one (`Passes`).  Documents come and go meanwhile.

**HotTier** cuts `redis_client.py` at each Redis command and at each step of
`connect`, whose lock, retries and dropping of a dead client other threads see.  A command
of which the answer is lost has taken effect or not, and one that is sent again
may do so twice.  What is cached is the *kind* of an entry; what the schema of
a kind refuses is `refused`.

**LLMCache** cuts `get_or_generate` at the lookups, the lock of the index and the
await of the generator; entries expire at any time, and `clear` deletes one key
after the other.  An answer is the prompt it was generated for and a number, so
an answer that was removed is told from its successor.

**EmbeddingCache** is one text in two tiers: Redis without a lock, SQLite and the
promotion under one.  A vector is a number, and later ones are greater.  **VectorStore**
is what it promises of a text: a `get` gives a vector that was set or none, any may be lost, and
after a `set` or `delete` that nothing disturbed the older ones are gone; what it keeps are the
vectors in either tier or in the hands of a caller that may still write or return them (`Kept`).
**EmbeddingProviders** is what stands in front of it: the fallback from provider to
provider and the memory cache with its eviction in two steps, for batches that can have a
text twice.  It uses no more of the unified cache than `VectorStore` promises, and not even
that old vectors go: `unified` are all vectors a text was ever given, of which a `get` gives any,
or none.

**GraphitiInit** has tasks on two event loops and an asyncio lock that is made by the
first who finds none (`GetLock`, `MakeLock`), so that two threads may make one each, and
is bound to the loop of its first waiter.  `Create` makes the manager's driver or fails
to, and a Graphiti on it or, without one or when Graphiti does not take it, on a driver
of Graphiti's own.  A caller that gives up cancels its task at the await it is at.  **RequestTracer** reads the one current trace twice per event and ends a
trace in three steps.  **StatsFile** opens its file, which empties it, and then
writes it, in several processes.  **VaultNotes** does the same with a note, after it
has read the date of the old one; a search lists the paths and reads them one by
one.  **PluginApproval** reads, changes and writes the allow list in steps of their
own, and a plug-in's file may be edited between its verification and its execution.
**CostTracker** is one lock that is not reentrant, and a sum.


## 3. Runs

Every passing run checks the properties of its module on one instance; all of
its actions happen in it.  Type invariants and
`FactoryRunsOnce` are proved (section 4) and not checked again.

| run | instance | states | shows |
|---|---|---|---|
| `tier` | 3 documents (one short, one too large), queue of 2, threshold 2, 3 accesses | 198 000 | no document is on its way before its accesses call for it; at most one episode per trigger; a delete stops what has not read the row; every queued document leaves the queue |
| `queue` | 3 items, queue of 2, batches of 2, 2 tries, 3 loops, 2 callers of stop | 388 000 | `ExtractionQueue` implements `WorkList`: one owner per item, at most `MAX_RETRIES` tries, the oldest first, nothing lost; when processing is stopped only loops run that a stop waits for or has forgotten; every item settles; every loop ends |
| `pool` | pool of 2, 5 connections, writer and 2 readers, 3 commits | 138 000 | one owner per connection and none leaked; reads current and writes not locked out, while nothing is inserted twice |
| `server` | 3 threads, 2 instances; 3 callers, every configuration; 2 clients, 2 requests in a window of 2, clock to 5; 2 servers, 2 research sessions, a transcript, 2 captures; 3 tasks on 2 loops, 3 drivers; 2 requests, 3 traces; 3 documents, an entity, a note; 2 threads, a budget of 3 | 1 718 000 | `LazyService` implements `OnceCell`; nothing built twice, tuples complete; `RateLimiter` implements `SlidingWindow`: the window bound in every window, `retry_after` exact; the end of a research session loses nothing, the marker names an active one; initialized means usable; traces true; the best results given; the budget told |
| `store` | 2 servers on a Redis, 1 without, 2 ids, 3 saves; 2 threads or processes elsewhere, 2 outages of Redis, windows of 1, 3 prompts and 2 answers, 3 vectors, batches of 2 texts, 3 operations in batches of 2 | 1 689 000 | a restore is current and never goes back; calls fail only with Redis, windows are kept; answers are the right ones; `EmbeddingCache` implements `VectorStore`, so no older vector is given, and each text of a batch gets its own; a restart loses less than a batch |
| `disk` | 2 backups, room for 1, packed or not; 3 seconds, 3 encrypted backups, 3 keys; 2 that encrypt, a counter that wraps at 3, 5 stores of it; 2 processes, a plug-in of 2 texts; 2 clicks and 3 keys a second of 2 ticks, 2 old log files of one entry; 2 writers and a search of 2 notes | 2 231 000 | what was reported is restorable, also after a restore that was cut short; nonces unique until the counter comes round or is put back, encrypted backups readable; only what was approved runs; clicks and keys bounded, the log in order and resumed; notes keep their date, searches are complete |
| `agents` | 3 processes, 3 requests; 4 requests of the broker (one denied, one automatic), queue of 1 | 290 000 | answers go to their requests, also after reconnects; every call settles; connected means served; links are known and go; ended stays ended |
| `broker_ttl` | 5 requests of the broker, none automatic, queue of 2 | violation | an approval without a TTL leaves an unrecorded link |
| `backup_recent` | 2 backups, room for 1, not packed | violation | retention deletes the newest |
| `hot_query` | 1 thread, 3 kinds of entries | violation | a cached query is refused when it is read |
| `cost_reset` | 2 threads, a budget of 3 | violation | a reset never returns |
| `search_filters` | 2 documents, 1 entity, room for all | violation | a hybrid search with a filter on the project finds nothing |

### Bounds, and why they are enough

- `tier`: a threshold of 2 is the least at which one document's accesses can be
  split between Redis and memory, and `MaxLocal` 1 makes every second document
  evict the first.  Two places in the queue and three documents fill it, so that
  promotions on the spot happen; the third access gives a second trigger.
- `queue`: a third item is what a full queue drops something for.  Three loops
  are the forgotten one, the next one and one more after a stop; two callers of
  `stop_processing` can wait for different ones.
- `pool`: with two connections, one can hold the write lock while another fails;
  three threads empty the pool, so temporary connections push pooled ones out.
- `server`: the limiter's clock runs over two windows and a clean-up between them.
  A second research session takes the marker or the name of the first, and the
  second server ends what it did not start; the transcript can be told before or
  after an end that fails.
- `store`: the third save of one id comes after one under each key; in the hot
  tier a window of one entry is trimmed by the second push, and an outage can hit
  two calls or twice one; of three prompts the second is like both others, which
  are not like each other; with three vectors a set overlaps a get that promotes, and
  another follows; a batch with a text twice is one of the batches.
- `agents`, broker: two requests wait for a person and one fits.
- `disk`, backups: the second backup is the first that makes retention choose.
  The `.cfg` lets a process pack its backups or not at each backup, so both
  kinds lie side by side.
- `disk`, encrypted backups: three keys are two rotations, of which the second begins
  with what the first has left, refused, failed or left out; three backups in three
  seconds are two that stay and one that is made in the second of another.
- `disk`, nonces: two encryptors overtake each other, and five stores are two more than
  it takes to come round (`Wrap` 3), so a counter comes again both ways.
- `server`, graph: three drivers are the manager's, Graphiti's own and the next; three
  tasks on two loops are one inside and one that waits on each loop.  The part stops once
  two locks were made, of which the property says nothing.
- `agents`, client: three processes are one that is replaced, the one that replaces it and
  one after a failure; the third request can be a call or another initialize.
- `disk`, controller: a log of one entry is full, so the fourth action drops the oldest
  file; three ticks have two windows of keys that begin next to each other.
- `disk`, plug-ins: two processes, so that one changes the list that another has
  read; a plug-in that is loaded twice finds its name taken.
- `search_filters`: two documents, of which a filter passes one.

`CHECK_DEADLOCK FALSE` is in the configurations whose bounds are counters of
work (backups, saves): when they are used up the model stops and the program
would not.

### Fairness

- `tier`: weak fairness of the promoter, of its start and of abandoned
  coroutines: they are ready callbacks of an event loop, which runs each; the
  queue read and the episode are under `wait_for`, the row is local.  Nothing is
  assumed of requests, Redis or restarts.
- `queue`: weak fairness of each loop's steps, of the processor's end (its
  contract: it is awaited without a timeout) and of the wake-up of a stop whose
  task has ended.  None of enqueue, start or stop.
- `agents`, client: the timers of the requests (`setTimeout` of a live event loop).
  Nothing is assumed of the servers, which may never answer.
- `agents`, broker: time passes; the clean-up task, while it lives, wakes up every
  round; the removal of *one* mount does not fail for ever, whatever becomes of
  the others.  None of requests, or of the daemon's restarts.
- `cost_reset`: weak fairness of each thread's step; a thread that waits for a lock
  that is never free is not helped by it.


## 4. Proofs

What is proved holds of any number of threads, tasks, requests, sessions, backups,
documents or processes, not only of those of the runs.  Of the hypotheses most say that
a bound is a number and that a placeholder (`None`, no thread, no client) is none of the
values it stands beside (`LazyAssumption`, `SdkAssumption`, `GraphAssumption`,
`ResearchAssumption`, `LlmAssumption`, `VaultAssumption`, `TracerAssumption`,
`CostAssumption`, `HotAssumption`, `ProviderAssumption`, `BatchAssumption`, `BrokerAssumption`,
`BackupAssumption`, `SessionAssumption`, `PromotionAssumption`, `MaxLocalAssumption`,
`QueueAssumption`, `PoolAssumption`, `ControllerAssumption`, `SearchAssumption`,
`EncryptedAssumption`, `NonceAssumption`).  Four say more:

- `OneChecker`: the rate limiter is asked by one thread, the event loop's;
- `LocalIsRestorable` is about `VerifyIntegrity`, the default: without the check, a
  backup that cannot be restored is reported;
- `PoolAssumption` also has a connection for every thread beyond the pool, since the code
  makes temporary ones without a limit;
- `SearchAssumption` also says that documents, entities and notes have ids of their own,
  which the code makes in different forms.

**TierPromotionProofs.**  `TypeCorrect`: the types, and that the queue never
outgrows its `maxsize`.  `PromotionIsEarned`: `CountsSound /\ NeverPremature`.
`NeverPremature` alone is not inductive: a count that ran ahead of the accesses
would break it at the next access.  With `CountsSound` (neither count exceeds
the accesses) and the types it is (`IInv`).  The lemmas are about the operators:
counting adds at most one to each of the counts (`AfterRecordFacts`), reading
returns one of them (`AfterReadFacts`); steps that count nothing only move
documents along (`MovingAlong`).  `PromotedOnce` (`OneEpisodePerTrigger`) is
inductive with the types; it counts the places of a document in the queue, of which
queueing adds one at most (`PlacesQueued`) and taking removes one (`PlacesTaken`).
`DeletionStopsPromotion` (`DeletedNotReadAgain`) is an action property: requests
start promotions of their own document only, which has a row (`RequestsStartNone`),
and the others use up what they add (`PromotionsAreUsedUp`).

**SqlitePoolProofs.**  `UpsertOnlyIsSafe` and `RefusalIsTheOnlyLeak`: why no
call is locked out or reads an old table while no insert was refused.  The
inductive invariant says that no connection is then in a transaction, and
the first theorem adds that the single writer's row is still as its lookup saw
it when the insert or update that follows runs.  `ConnectionsAreOwned`
(`OneOwnerPerConnection`) has an invariant of its own, `OnePlace`, that says of every two
threads and places what the property says by counting; `HeldAreCounted` gets from one to
the other by a bijection.

**ServerProofs.**  Eight parts of the servers, each with an invariant of its own.

- *Lazy services.*  `TypeCorrect` (which includes that exactly the thread in
  the critical section holds the lock), `OneRun`, and `Refinement`: the initial
  state of `LazyService` is one of `OnceCell`, and every step is a step of it or a
  stutter, under the mapping `Once`.
- *Components of the SDK server.*  `NothingIsBuiltTwice` (`ComponentsAreWhole`) is
  an invariant, that nothing is built twice, and an action property, that what is returned
  is whole.  The first needs what the second check under the lock stands for: while
  nobody builds, the index is there or nothing has been built (`IndexIsFirst`), and a
  builder has not been where it is going (`NotYetBuilt`).  The second needs that nothing
  wanted is missing behind the builder until a constructor has raised (`NoneIsMissing`).
- *Rate limiter.*  `LimitIsKept` (`LimitIsExact`).  The bound on every window holds
  because a request that is no longer counted has expired for every check to come, also
  for one that has read the clock and not yet the lock (`ForgottenIsExpired`); so a
  window with the new request in it has no other requests than the counted ones.  That
  `retry_after` is exact needs what the refused client's oldest request is until it has
  expired (`RetryIsKnown`).  `LimiterRefinement` (`ImplementsSlidingWindow`) rests on the
  same invariant: what the code still holds of a client's requests, once it has cleaned up and
  pruned, are those of all admitted ones that are in the window of the time it has read, so both
  decide alike, and the oldest of them is the same request.
- *Research sessions.*  `SessionsKeepAll` (`SessionsAreKept`).  What a session was told is
  in its server's memory while it is active (`ToldIsHeld`) and in its note from the
  moment it is about to leave (`ToldIsWritten`); that no capture overwrites the note of
  another needs that numbers in a folder go no further than the session's captures
  (`NotesAreNumbered`) and that no two notes have one name (`NotesAreApart`).
- *Knowledge graph.*  `GraphStaysUsable` (`GraphIsUsable`), while one lock was made: who
  is inside holds it (`LocksHeld`), so that one task is inside (`OneIsInside`); what every
  await under the lock has established (`Established`); and that each open driver is one
  the manager can close or is `excused` (`LossesFit`).  The manager's own driver has to be
  excused, too, while no task is building on it or closing it and the manager is not
  initialized, since the next initialization replaces it.
- *Request tracer.*  `TracesStayTrue` (`TracesAreTrue`): a request that is alone with its
  trace has it as the current one, and no span of another is open in it
  (`AloneIsAlone`); at most the one event is missing that it is about to add
  (`AloneCounts`).
- *Cost tracker.*  `BudgetIsKept` (`PassedIsWithinBudget`): what was let pass was counted.
- *Search over the tiers.*  `TheBestIsGiven` (`BestAreGiven`), for any limit and any
  answers.  That the sort is one is proved by counting, without an induction: the numbers of
  places before each place differ, and there are as many of them as places, so that each
  number up to theirs is one of some place (`PlacesInARow`).  What is sorted has one
  result of each thing (`FirstPlaceOf`, `OneResultOfAThing`), and what is cut off comes
  after what is kept (`RankedIsBest`).

**StoreProofs.**  What the servers keep between calls.

- *Answers of the model.*  `ServedIsRight` (`AnswersAreRight`): whoever holds an answer,
  in whichever step of a lookup, holds one to the prompt it has looked up
  (`HoldsItsOwn`), and what was removed while nobody else was at work is in no entry
  and in no hands (part of `LlmInv`).
- *Embeddings.*  `NeverAnOlderVector` (`NoOlderVector`): what a caller is about to write
  is new enough, and a caller that has had the tiers to itself has left in Redis what it
  will write to SQLite, or nothing (`InFlight`).  `TiersAreOneStore`
  (`ImplementsVectorStore`): a get may hold the vector it has read in SQLite while another
  call replaces it, and puts it into Redis afterwards, so the tiers alone would show a
  vector coming back from nowhere.  With what is in the callers' hands (`VectorsInHand`),
  `Kept` loses vectors in every step but the one that makes one (`OnlyLosses`), and a call
  that was undisturbed leaves nothing older in it, neither in the tiers nor in anybody's
  hands (`QuietSettles`).
- *Embedding providers.*  `EachTextItsOwn` (`EmbeddingsAreRight`): at every step of a call
  each text that it has come to has its own vector or waits for it, and what came from the
  provider are the vectors of those that wait (`CallStands`); no vector anywhere is of a
  later provider before the first has refused (`SoundVectors`); and a call without an
  excuse is alone, so that the vector it is about to delete is there (`IsAlone`).
- *Statistics.*  `LessThanABatchIsLost` (`LossIsBounded`): since the file was written no
  tier's number of operations has come to a multiple of the batch (`SameBatch`), and the one
  process has counted all of them (`CountsAll`).
- *Vault.*  `FirstCreatedIsKept` (`CreatedIsKept`): of a note that nothing has spoilt, one
  writer at most is at work on it, and what it is going to write has the first date
  (`SoundNote`).  `EverySearchIsComplete` (`SearchesAreComplete`): a note that was there all
  the time is found, or listed, or in the search's hands (`SoundSearch`).
- *Hot tier.*  `ConnectRepairs` (`OnlyOutagesFail`): a call that no outage has met has
  Redis, and a client once it is past the test (`CalmCallsGoOn`).  `WindowIsBounded`
  (`WindowIsKept`): a window that is too long will be trimmed, by a push that is under
  way (`LongIsTrimmed`), and one without a time to live will get it (`WindowWillExpire`).

**DiskProofs.**  What keeps files.

- *Nonces.*  `NoNonceTwice` (`NoncesUnique`), for any number of encryptors and any size
  of the counter: as long as no store since a use was overtaken (`Undisturbed`), the
  counter is ahead of it by as many steps as there were stores (`Ahead`, `NonceInv`), so
  whoever stores next without being overtaken itself has another one, until it has come
  round (`FurtherBehind`).
- *Encrypted backups.*  `EncryptedIsReadable` (`BackupsReadable`): while a rotation is
  under way the files it has yet to come to have the old key, those behind it the new
  one, and the one it is at is what the manager is about to write (`HeldInRotation`).
  The old key is the stored one unless the keyring refused that (`KeysFit`), and a
  manager that has come past its last file has the new key or there was no file, so it
  can go on when the keyring raises then.
- *Local backups.*  `LocalIsRestorable` (`BackupsAreRestorable`): what has been made of a
  backup, step by step, packed or not (`Progress`), and that what was reported is there
  packed or in its directory, whatever a restore has left beside it (`Kept`).
- *Plug-ins.*  `OnlyApprovedIsExecuted`, and with what is revoked
  `AllowListIsObeyed` (`ApprovalsHold`).  The first speaks of the last step of a load; its
  invariant follows the text back: what is verified and not edited since is on the list the
  load read (`VerifiedWasApproved`), and every list, on disk or in the memory of a process
  that may write it back, has only entries that were approved (`ListsAreSound`).  For the
  second, what was revoked is off every one of those lists (`OffEveryList`).
- *System controller.*  `InputKeepsLimits` (`InputIsBounded`): what was posted less than a
  second ago is what the limiter still holds (`ClicksCounted`), and its numbers are
  all different (`NewClicksAreNew`); of the keys, those of the open window are no more than
  its count, and those before it within a second of any moment since it began are of
  one window too (`KeysCounted`), so that the two together are twice the limit.
  `LogKeepsOrder` (`LogStaysInOrder`): the order of any files is kept by each step of a
  rotation (`AfterOrdered`), by a new file (`CreatedOrdered`) and by the next entry
  (`AppendOrdered`); the current file is gone only when the last step was made and the
  file was not created.

**AgentProofs.**

- *Permission broker.*  `TypeCorrect`, `NothingIsRevived` (`EndedStaysEnded`)
  and `NoLinkIsForgotten` (`LinksAreKnown`).  The two properties are proved
  together, from `BrokerInv`, which adds two facts to them: no request is granted
  and waits at once (`GrantedOnce`: else denying the one that waits would end what
  stays granted), and a daemon that is down left every link it made
  (`DownLeavesAll`: the next daemon starts knowing none).  `UnmountsFacts` says what
  revocation, clean-up and an orderly stop have in common, whichever removals fail.
- *Client of the VS Code extension.*  `AnswersAreOwn` (`AnswersMatch`): every id in a pipe
  is that of a request written to the process at its end (`PipesAreTrue`), and ids that were
  not given are neither pending nor answered (`IdsAreFresh`).  `ConnectedHasAProcess`
  (`ConnectedIsServed`) builds on that: unless connects overlapped, only the current
  process has still to answer `initialize` (`OnlyCurrentOpens`), so the answer that
  connects the client is its own.

**SessionStoreProofs.**  `RestoreGivesLastSave` (`RestoreIsCurrent`) and
`NeverBack` (`RestoreNeverGoesBack`).  That the key which is asked first holds the
newer content (`LargeIsNewer`) is not enough for the second: a server may ask for
it before it is there, and what it then finds under the other must not be
older than what it has seen (`AskedNotOlder`); and when one key expires the
one that is left must not be older either (`LeftNotOlder`), which rests on keys
expiring in the order they were set.

**ExtractionQueueProofs.**  `EachInTurn` (`ProcessedInTurn`): an item in a batch is
marked and counted once more than it has failed (`BatchesAreMarked`), and one that waits
may be tried again (`WaitingMayBeTried`).  `WaitingIsFound` (`PendingIsQueued`): what a
batch may give back is in the queue or discarded as well (`NothingIsLost`); that the queue
keeps its limit rests on `EnqueueFits`, for each way of dropping an item.
`StoppedOrForgotten` (`StopMeansStopped`): whoever runs is the queue's task, awaited or
forgotten (`RunningIsKnown`), and once processing is stopped somebody waits for that task
(`TaskIsAwaited`). `WorkRefinement` (`ImplementsWorkList`) needs of the queue that an item
waits exactly if it is pending and was not dropped (`WaitingIsPending`).  `WorkInv` has
for that the invariants of the first two theorems, and that what was dropped is out of the
queue (`DroppedIsOut`) and that only a loop in its processor has a batch
(`HeldInProcessor`). With them a step of the loop takes the oldest (`LoopTakesOldest`), an
`enqueue` into a full queue drops the oldest that waits (`QueueDrops`), and starts, stops
and clean-ups change nothing that a caller sees (`WorkStays`).

Model-checked only is all liveness (`QueueIsServed`, `QueueIsLive`, `MountsAreTemporary`,
`EveryCallSettles`), which TLAPS cannot prove under fairness.  Every invariant, action
property and refinement that a passing run checks is proved.  `ProcessedInTurn`,
`PendingIsQueued`, `LimitIsExact` and `NoOlderVector` are the other way round: they are proved,
and no run checks them, since what they say shows in the refinement that a run checks
of the same component: the mutated definitions that break them break the refinement.  That
`EmbeddingProviders` uses the unified cache as `VectorStore` allows is in how it is written,
text by text; the composed system is not a specification of its own.


## 5. What the code does otherwise than it says

Five disagreements are runs of their own (`findings` in `PROJECT.json`):

- `broker_ttl`: `claude-broker approve <id>` without `--ttl` sends `"ttl": null`;
  `create_mount` makes the link and then raises, so the link is in no record and
  is never removed (`permission-broker.py:361`).
- `backup_recent`: the retention policy goes from the newest to the oldest and
  deletes while there are too many, so a backup beyond `max_backups` deletes
  itself (`backup_manager.py:313`; the test is called "preserves recent
  backups").
- `hot_query`: `cache_query` stores `cached_at` and no `created_at`; the schema by
  which `get_cached_query` validates requires `created_at` and forbids other
  fields, so no cached query is ever found (`redis_client.py:508`).
- `cost_reset`: `reset` calls `get_stats` under a lock that is not reentrant
  (`cost_tracker.py:175`).
- `search_filters`: the results of a hybrid search carry neither project nor tags,
  by which `memory_search` then filters them (`handlers/memory.py:122`).

Others are in the models as what they are.  The behaviour is in the actions; a
history variable marks where it has struck, and the properties say what holds
where it has not:

| behaviour | where | marked by |
|---|---|---|
| a promotion is reported done although `add_memory` returned None | `tier_manager.py:188` | the graph is not touched in `PromoterAdds`, `ZombieAdds` |
| a full deque drops an item in processing, whose retry is then lost | `queue_manager.py:115` | `discarded` |
| `stop_processing` forgets a task that was started while it waited, and may return while a loop that an earlier call cancelled is still in its processor | `queue_manager.py:226` | `forgotten`, `awaited` in `StopMeansStopped` |
| a refused insert leaves its connection in a transaction: later reads are stale, or writes are locked out | `sqlite_index.py:297` | `leaked`, `strays` |
| `get_components` returns None for ever for what comes after a constructor that raised; it would also for what another thread is building, of which the server has none | `server_sdk.py:68` | `raised`, and `building` in `ComponentsAreWhole` |
| the ttl of a request that is approved automatically goes from its message to `create_mount`: null, a string or a number that is too large leaves a link in no record, as in `broker_ttl` | `permission-broker.py:361` | `unrecorded` |
| an error of the audit log ends the clean-up task; a crash leaves links | `permission-broker.py:328` | `cleaner`, `leftover` |
| a crash while packing leaves a torn tar file, which `restore_latest` picks | `backup_manager.py:274` | `torn` |
| what is in the write-ahead log only is not backed up | `backup_manager.py:219` | `wal` beside `db`; `copied` is the file |
| a backup that is there packed and unpacked counts twice for `max_backups` | `backup_manager.py:316` | `Listed` has both |
| an unfinished rotation leaves files under a key that is not stored | `backup_manager.py:882` | `lost` |
| when the keyring raises at the end of a rotation, all files and the manager have a key that is not stored: what the manager backs up is lost with it | `backup_manager.py:896` | `refused`, `lost` |
| the counter that is to be "atomically" incremented (`:618`) is read and written in two calls, by any thread or process: two encryptions get the same one, or one puts it back (`test_encrypted_backup.py` has five threads, whose nonces may differ in the random bytes only) | `backup_manager.py:623` | `overtaken` |
| a Graphiti that opened a driver of its own is dropped unclosed when its initialization fails | `graphiti_manager.py:285` | `excused` |
| a task that is cancelled, or a close that raises, leaves a driver that the next initialization overwrites | `graphiti_manager.py:287`, `:230` | `excused` |
| two threads that find no lock make one each, and initialize at once | `graphiti_manager.py:196` | `OneLock` in `GraphIsUsable` |
| two backups of one second have one file name | `backup_manager.py:721` | `lost` |
| after connects that overlapped, the client can say that it is connected, and refuse to connect again, while its process is dead or was never initialised | `mcpClient.ts:83` | `overlapped` |
| a process that was replaced is not killed, and when it ends the client takes itself for disconnected | `mcpClient.ts:60`, `:78` | `connected` is false in `Close`, whatever process it was |
| when a rotation cannot create the new log, actions go unlogged until the next start, although "All actions are logged" (`swift-system-controller/README.md:399`) | `ActionLogger.swift:154` | `actionLog[0] = NoFile` in `LoggedWhenPossible` |
| twice `maxKeysPerSecond` fits into a second | `RateLimiter.swift:45` | the bound of `InputIsBounded` |
| a session that shrinks is under a key that is asked second | `redis_client.py:277` | `spoiled` |
| a save that Redis refused, one that will not be accepted when it is read, and a second save in SQLite are all reported saved | `handlers/session.py:66`, `:52`, `schemas.py:341` | `spoiled` |
| two research sessions of one day and name share their notes, and a transcript note stays beside the session note of another | `handlers/research.py:625` | `Alone` |
| captures of a session that is not active in the server are all numbered 1, and overwrite each other | `handlers/research.py:452` | `NoteOf` |
| the end of one research session removes the marker of another that is still active | `handlers/research.py:250` | only one direction is in `MarkerIsOpen` |
| what the research handler asks of Redis never works: `RedisClient` has no `get`, `set`, `delete`, `lpush` | `handlers/research.py:101` | no Redis in `ResearchSessions` |
| events of requests that overlap go to the trace that began last, and a cancelled request leaves its trace open | `request_tracer.py:202` | `alone` |
| a crash while the statistics are written loses all of them; two processes overwrite each other's | `stats_collector.py:182` | `torn`, `met` |
| a response that was being generated while its prompt was invalidated is stored all the same | `llm_cache.py:448` | `buried` is what nobody else was at |
| a get that promotes an old vector undoes a concurrent set or delete in Redis | `embedding_cache.py:155` | `quiet` |
| two threads evict the same oldest vector, and the second raises; vectors of different providers share a key | `embedding_provider.py:376`, `:351` | `excused` |
| one note whose front matter is no mapping makes every search and listing raise | `vault_manager.py:362` | `foreign` in `SearchesAreComplete` |
| a write that races with a delete leaves a note without "created" | `vault_manager.py:315` | `spoiled` |
| two changes of the allow list at a time lose one; a torn list is read as an empty one | `plugins/loader.py:147` | `revoked` needs `Alone`; `Read` |
| a plug-in is verified by its hash and then read again to be executed | `plugins/loader.py:242` | `edited` |
| entities of the graph have no score in the parallel search and rank last; the hot tier adds nothing to any search | `tier_manager.py:508` | `Result` |

With several threads, which the server does not have, the rate limiter's window bound
does not hold: the clock is read before the lock (`rate_limiter.py:86`).  `Checkers` is a
constant of the module, and what is proved says that it has one member (`OneChecker`).


## 6. Plan

Done: tier promotion, extraction queue, SQLite pool, lazy services and the once-cell,
SDK components, rate limiter, broker, sessions, both kinds of backup, client,
controller and research sessions; then the hot tier, the caches, the
embedding providers, the graph's initialisation, tracer, statistics, vault,
plug-ins, cost tracker and the search over the tiers.

The abstract specifications came last: the refinements of `SlidingWindow`, `WorkList` and `VectorStore`, of which the
last lets `EmbeddingProviders` stand on what `EmbeddingCache` promises.

Left, the most important first:

1. `TierSearch` over `TierPromotion`, whose accesses a search counts.
2. Abstract specifications of the sessions (one register per session) and of the pool
   (a table that is written under one lock), under which `SessionStore` and
   `SqlitePool` are refinements as long as nothing is spoilt.
3. Two processes that create or rotate the key of the encrypted backups; `iter_all` as a
   refinement of an atomic scan.
