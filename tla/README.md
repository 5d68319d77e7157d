# Rutba Media FileServer: specification and proofs

TLA+ models of the file server in this repository, the TLC runs that check them
on small instances, and the theorems TLAPS proves about them for every instance.
Paths below are relative to the repository root; `src/jobs.js` is the server's
own source directory.

## 1. The system

A Node.js origin for media files. *Masters* (the originals) are files on one or
more storage volumes; everything else is derived from them or describes them.
With a MySQL database configured, a platform layer adds an index, jobs, accounts,
sharing, trash, versions and AI enrichment. Without it only the masters, the
variant cache and the cluster remain.

Concurrency: one JavaScript thread per process, so code between two `await`s is
atomic and everything else interleaves; several processes may share one database
and so one job queue; several nodes with a database each replicate files. A
database statement is atomic; nothing in the code opens a transaction.

| Component | State | Operations | Hard because |
|---|---|---|---|
| Job queue (`src/jobs.js`) | `jobs` table; per process the `running` map, the tick in progress | enqueue, cancel, retry, tick (reclaim, claim), execute, heartbeat, finish, start, stop | many processes, each operation several statements; crashes; leases; swallowed failures |
| Job types (`src/jobtypes.js`) | none of their own | scan, extract, bulk, addTags, enrich, enrich_batch, sweep | handlers that re-queue themselves; resumption |
| Variant cache (`src/cache.js`, `src/resizer.js`, `src/mediavariant.js`) | cache directory, LRU index, byte count, in-flight map | init, onDisk, touch, add, evict, purge, getVariant | requests, eviction, purge and boot scan interleave at every file call |
| Scanner (`src/scanner.js`) | the walk; recorded progress; rows' `last_scan_id` | scan | runs for hours beside writes; crash and resume |
| File index (`src/fileindex.js`) | `files` rows | recordPut, recordDelete, recordDiscovered, renamePath, markMissing | not awaited by writers; read-then-write |
| Write path (`src/handlers/write.js`, `src/masterops.js`, `src/storage.js`) | volumes, temp files | PUT, DELETE, move, copy | many steps, each can fail; concurrent writes of a path |
| Trash, versions (`src/trash.js`, `src/versions.js`) | trash and version directories, rows | move, restore, purge, empty; retain, trim, restore | files and rows changed in separate steps |
| Cluster (`src/cluster.js`, `src/fetchstore.js`, `src/resolve.js`) | the pulls in flight; peers' masters | pull on miss, replicatePut, replicateDelete | fire-and-forget messages, no order; nodes that ask one another |
| Sharing (`src/handlers/share.js`) | `shares` rows | open, download, revoke | the last download is raced for; the file moves meanwhile |
| WebDAV (`src/handlers/webdav.js`) | advisory LOCK table | PUT, DELETE, MKCOL, MOVE, COPY of trees | trees taken file by file, the index after them |
| Accounts (`src/auth.js`, `src/handlers/api.js`) | users, roles, sessions, tokens, recovery codes, login attempts | login, register, passwords, second factor, roles, status, tokens | check-then-act across statements; changes that must end sessions |
| AI (`src/ai.js`, `src/aistore.js`, jobs of `src/jobtypes.js`) | AI records, AI tags, usage, batches | enrich, backfill, ingest, promote, reject, set tags | re-runs against human decisions; budget; paid work that must not be paid twice |
| Renditions, reads, assets and videos | small caches | | stale caches |

How they meet. A PUT lands bytes through the write path, which purges the variant
cache, replicates to peers, and records the row, in that order and the last two
without waiting. A GET resolves the master, names its variant by size and mtime,
and asks the cache. The index queues `extract` jobs; the scan is itself a job and
uses the queue's heartbeat and cancellation; `server.js` queues the first sweep.

What makes each correct, in one line: the queue executes claimed work once at a
time, at most so often, and settles everything; the cache never serves older
bytes than the request found, renders once, and keeps count; the scan marks
missing only what is gone and leaves the index right; a write replaces a master
or leaves it; a restore restores; trees move without losing bytes; nodes agree
when traffic is over and private masters stay private; limits hold under
concurrency; what ends a session ends it; a human decision outlives a re-run.

## 2. The modules

| Module | Models |
|---|---|
| `JobQueue` | `src/jobs.js` and the `jobs` table |
| `JobLedger` | what the queue promises its callers, with no processes in it |
| `Housekeeping` | the sweep job and its boot, on top of `JobQueue` |
| `VariantCache` | `src/cache.js`, `src/resizer.js`, the end of `src/handlers/read.js` |
| `Scanner` | `src/scanner.js` and the index calls it meets in `src/fileindex.js` |
| `MasterStore` | `src/handlers/write.js`, `src/storage.js`, `src/versions.js`, `src/trash.js` for one master, with its row |
| `Library` | `src/handlers/webdav.js`, `src/masterops.js`, `src/handlers/share.js`, `src/fileindex.js`, the folder rename: the tree, its index and the links into it |
| `Cluster` | `src/cluster.js`, `src/fetchstore.js`, `src/resolve.js`, `src/origin.js`, `src/visibility.js` |
| `Accounts` | `src/auth.js` and the account routes of `src/handlers/api.js` |
| `Enrichment` | `src/ai.js`, `src/aistore.js`, the jobs enrich, enrich_batch and bulk, the review and tag routes |
| `MC*` | small instances of these |
| `*Proofs` | theorems |

`PROJECT.json` maps each definition to its lines.

### JobQueue

`rows` is the table, `calls` the enqueue() calls under way, `procs` each process's
loop, `running` its map, `runs` its activations of execute(). One action is one
SQL statement with the JavaScript up to the next one: `EnqueueLookup`,
`EnqueueInsert`, `EnqueueReread`; `Cancel`, `Retry`; `TickStart` and
`ReclaimGiveUp` (the two UPDATEs of reclaimExpired), `Claim`, `ReadBack`,
`ReadBackMiss`, `TickEnd`; `Heartbeat`, `HandlerStops`, `HandlerReturns`,
`HandlerThrows`, `ReadState`, `FinishDone`, `FailOrBackOff`; `Stop`, `Crash`,
`Start`; and time, `LeaseLapses` and `RunAfterPasses`.

Abstractions: a row's type, payload, priority and key are its *kind*, one unit of
work. Time is two booleans (lease live or lapsed, run_after passed or not). A
statement that fails did not happen. The claim ticket, unique per claim, is the
owner plus the process's `got`. `worked` is history: the handler ran to its end.
A kind with no handler in a process is never claimed there, so the branch of
execute() for an unknown type is unreachable.

Four constants say what the environment does: `Overrun` (a lease lapses under a
busy handler), `EagerRetry` (an operator retries a job whose cancelled handler
still runs), `CancelRunning`, `BlindReads` (the reads of a job's own state fail).
The properties hold where the code makes them hold, and each says which of these
it needs to be FALSE.

### JobLedger

Jobs are pending, done, failed or cancelled; they are submitted, tried, performed,
completed, withdrawn, given up. `JobQueue!ImplementsLedger` is the refinement:
queued and running rows are pending, the attempts column counts tries, `worked`
is performed. A crash, a lapsed lease, a lost UPDATE and a backoff are stutters.

### Housekeeping

`Boot` is server.js queueing the sweep after start-up, `AskAgain` the handler
queueing the next one, `Replaced` a process killed and started anew, which boots
again. Both enqueues go by the dedupe key, in one step here, because JobQueue
already interleaves their statements.

### VariantCache

`disk` gives for every cache file the master version it was made from; `lru` is the
index in order of use; `bytes` the counter; `boot`, `evict`, `purges`, `reqs` are
the loops and requests under way. Each awaited file call is two steps, the call
and what follows it, so anything may run between. An `await` of a function that
returns without a file call (`onDisk()` once the index is warm) is no interleaving
point: microtasks drain before the next event. A master is its version, since a
write changes size or mtime; one set of options per master; variants of one master
weigh the same. Temp files of renders are not listed by the boot scan here. A
DELETE purges like a write and leaves its master unread, a case of `Write` and of
the failing branches of `RenderFails` and `ServeMaster`.

### Scanner

`disk[v][r]` is the version of path r on volume v, `rows` the index, `job` the scan
job's attempts and recorded progress, `scan` the walk in memory: the entries of the
directories opened so far and not yet taken (`todo`), the path to skip to, the
last path done. `OpenDir` is a readdir, `Skip`, `Cancelled`, `Stat` (with
`Heartbeat`) the head of the loop, `Look` and `Mark` the SELECT and the UPDATE of
recordDiscovered(), `VolumeDone` the heartbeat that ends a volume, `Finalize` the
final UPDATE. A PUT is three steps, `PutStarts` (volume chosen, old bytes retained),
`PutLands` or `PutFails`, and `Record`; a DELETE is `Delete` and `Record`. `Record`
comes whenever it comes: nobody awaits it.

Paths are ordered twice: `WalkRank` by the depth-first walk, `StringRank` as whole
strings, the order resume compares in. Abstractions: what a stat tells is a version;
directories always exist on every volume and can be read; statements do not fail;
the choice of a volume for a new file is free.

### MasterStore

One master path. `disk[v]` holds its bytes on volume v, `part[v]` the temporary file
beside it, `trash` its place in the trash, `store` and `kept` the version files and
the rows of `file_versions`, `row` the row of `files`; bytes are named by the upload
that brought them. `reqs[a]` is the request an actor serves, and where it is. A PUT
is `StartPut` (placeWrite), `Look` (resolveRead), `Number`, `Shelve`, `Insert`,
`Trim` (retain and trim), `Open`, `Land` or `Break` (streamToAtomicFile), `RollBack`
(quota) or `Accept`, and `Record`; a peer's replica skips retention and quota. A
DELETE is `StartDelete`, `Bin`, `Unrecord`; the way back `StartUndelete`,
`MoveBack`, `Revive`; purge and emptying are `StartPurge`, `EmptyTrash`, `Unrow`;
versions.purge `StartDrop`, `Undrop`; versions.restore `StartRevert`, the steps of
retain, `Copy`, `Revive`. `mixed`, `landed` and `gone` are history.

`Together` lists the pairs of operations that may overlap, so that one module serves
for what is safe, for what is not and for the proof.

Abstractions: the stat and the SELECTs of retain() are one step, and so are placing
and resolving, the whole of trim's loop, and the loop over a purged file's versions.
Trimming by age is left out. A volume is read-only by configuration only. The process
does not die in the middle. MOVE and COPY are Library's.

### Library

`disk`, `dirs` and `bin` are the masters, the directories and the trash; `row` the rows
of `files`; `fired` the statements of recordPut and recordDelete that nobody waits for,
executed whenever their turn comes (`Execute`). `reqs[a]` is the request an actor
serves: `stream` an upload (`Land`, `PutFails`); `clear` deleteTree over a listing taken
at the start (`Clear`, `Cleared` with removeDir); `look` and `each` moveCopy
(`CopyChild`, `MoveChild`, `ChildFails`, `Done`); `rename` the awaited renamePath
(`RenamePath`). `links` and `visits` are the share links and who follows them: `Visit`
is the lookup and the password, `Reserve` the conditional UPDATE, `Send` the stream.

Two levels, one volume, no versions: a listing is taken for the whole tree at its
start, which with one level below a directory is when the code takes it. LOCK
is advisory in the code, no write looks at it, and left out. Expiry of a link is one of
the reasons of `Refuse`. `forgone`, `strayed` and `collided` are history: which bytes a
request was to replace, and which paths met one of the cases the properties name.

### Cluster

`disk[n]` is what node n has, `sends` the replicated PUTs and DELETEs that are out,
`gets` the requests not answered, `pulls[n]` the in-flight pulls of n. A client's write
is a step of its node with its fan-out; then each message is read from disk
(`ReadForPut`: _put opens the file when it goes out), received or lost. A GET of a
missing master starts or joins a pull (`Resolve`); fetchAndStore asks base after base,
the origin last (`AskNext`, `OriginSends`, `TimeOut`, `NobodyHasIt`), and renames what
it got into place (`Store`, `StoreFails`). A peer that misses the master too pulls it
itself before it answers, so nodes wait for one another. `Restart` cuts everything a
node was doing.

Abstractions: one rel for each master, with none of the candidate names; no sidecar
file; a handler of the write path is one step (its inside is MasterStore's); peers are
asked in any order; the visibility a message carries is what decides where it may go; the
cluster's and the origin's in-flight maps (`src/cluster.js:70`, `src/origin.js:43`) are one
pull of the node.

### Accounts

A handler resolves its token (`Present`), then its account and guards (`Authenticate`),
then runs the statements of its `Plan`, one a step, with others between any two.
`Plan` gives each route its statements in order; `Runs` names the next one. A login
reads the row (`ReadRow`), hashes (everything may happen meanwhile), then spends a
second factor and issues the session, or fails and is counted. `Fail` is a statement
refused, or the process killed, between two statements of a plan. `era`, `redeemed`,
`raced` and `late` are history.

Abstractions: an id is not given twice; the ten codes of a set are one; the throttle by
address, password hashing and TOTP arithmetic are left out; whether a password or a code
is right is a free choice, and so is when the throttle's window passes.

### Enrichment

`ai`, `suggested` and `tags` are the rows of `file_ai`, `file_ai_tags` and `file_tags`.
A live job is `StartEnrich` (budget), `Call`, `RecordCall`, the steps of save():
`SaveRow`, `Replace`, `InsertTag`. A backfill is `Select`, `Submit`, `StoreItem` for each
asset, `QueuePoll`; its batch ends at the provider, is polled, and its results are saved
in any order (`Poll`, `IngestResult`, `Ingested`). A person promotes, rejects,
dismisses, sets the tags or queues a bulk job, statement by statement.

A statement may fail anywhere, and the code does three things about it. It passes over
the failure: of the read of the spending, which then counts as nothing (`MonthlySpend`),
of record() (`RecordCall`, `Succeeded`), of saveFailure() (`PassedOver`), of the last
UPDATE of a batch (`Ingested`). It catches it and goes on: a save() in a batch becomes a
saveFailure() (`SaveFails`), a name in a bulk job ends the turn of its file (`BulkFile`).
Or it ends the job or the request: `SaveFails` of a live run, `Call`, `BackfillFails`,
`PollFails`, `RequestFails`; the queue starts jobs again, requests are gone. A refusal or
an empty budget is a result of the live job (`EndRefused`). `Crash` interrupts everything
at once. `billed`, `lost`, `blind`, `unsaved`, `ruled` and `contested` are history.

Abstractions: an asset is a raster image the model can look at; prices are small
numbers; the month does not end; the prose of an enrichment and its editing are left
out; what a queue does with a job is JobQueue's.

## 3. The runs

| Run | Checks | Bounds |
|---|---|---|
| `JobQueueSafety` | `TypeOK`, `OneExecutor`, `ClaimHeld`, `SlotsRespected`, `DoneMeansWorked`, `OneLiveUntilOperator` | 2 callers (symmetric), 2 processes with one slot each, one of them without a handler for one kind, 2 rows, 2 attempts, one crash, one cancel, one retry |
| `JobQueueLedger` | `ImplementsLedger`, `EveryJobSettles` | 1 caller, the same processes, one crash or one failed statement, one retry |
| `HousekeepingBoot` | `OneLivePerWork`, `BootSweepRuns` | 2 processes, one crash and one failed statement, 3 attempts |
| `VariantCacheServe` | `TypeOK`, `ServedFresh`, `SingleRender`, `NoLostWaiter` | 1 master, 2 versions, 2 requests, one write at a time, room for one variant, restarts |
| `VariantCacheWarm` | `BytesCounted`, `IndexIsDisk`, `Answered` | 2 masters, 3 requests, room for one variant, no writes, no restart |
| `ScannerScan` | `NeverFalselyMissing`, `ProgressSound`, `Reconciled` | 2 volumes, a directory with a file and a file beside it, every initial disk and index, one writer with one version per path, one crash, one cancellation |
| `MasterStoreKept` | `TypeOK`, `Recoverable`, `VersionFrozen`, `VersionsKept`, `OneCopy`, `TrashedIsUnserved` | 2 requests at once (symmetric) out of any number, 2 volumes, 3 uploads, 3 version numbers, 2 of them kept, one failed statement or one upload broken off or rolled back |
| `LibraryKept` | `NothingLost`, `IndexAgrees`, `CapHolds` | 2 directories with 2 names each, 2 actors, 2 masters at the start and 2 more uploads or copies, 2 requests, one fault; or one request with one link of one download and 2 visitors |
| `ClusterShared` | `PrivateStays`, `Agreement`, `TrafficEnds`, `GetAnswered` | a private and a public node; a private master, and one that may be shared and that the origin has; 2 writes, with or without a header, 1 GET, one loss, late answer or restart |
| `AccountsKept` | `SessionsFollowChange`, `CodeSpentOnce`, `AdminRemains` | 2 admins and a member with a second factor, or an empty database; any 3 requests, 2 at a time; lockout after one failure; one failed statement |
| `EnrichmentRuled` | `RulingsKept`, `WithinBudget`, `IngestedMeansSaved`, `PaidOnce` | 2 assets, one tag; 2 people with 2 acts and 2 live runs; or 2 backfills with 2 batches, without a live run, or one batch with a live run; one crash or failed statement (in the last case only with one backfill at a time) |
| `HousekeepingRecurs` | `SweepRecurs`, violated | |

Why the bounds are enough. Two rows of two kinds and two processes give every race
of the queue there is between two actors over one row, and priority between two
rows; two attempts are one retry after a failure and one exhaustion. With three
attempts in `HousekeepingBoot` a crash and a failed statement both fit before the
last. `MaxFaults` and `MaxCrashes` are small because the proofs take any number.
Two versions of a master suffice for staleness, which compares two. One scan is
enough: the initial index holds rows that any earlier scan may have left, active or
missing, and the scan's own marks start from there. `MaxDrift` stops new requests
when the byte count has gone wrong by more than it, in the runs where the code lets
it drift; without drift it never bites. Three uploads and three version numbers with
two kept are the least with which retention trims one version and keeps another.
In `LibraryKept` two directories of two names are what a move of a tree onto a tree
needs, and a file of each that is not in the other; two requests with an upload in one of
them reach every meeting of listing, loop and removal. In `ClusterShared` two nodes have
every message there is between two, and a pull on each side; with three, only the order of
bases is new, which the model leaves free. Two admins are the least that can demote one
another, three requests the least for a change, a login beside it and a use of what came
of it. In `EnrichmentRuled` the two concerns are kept apart for size (`OneConcern`): what
people do meets live runs, and backfills meet live runs; a batch saves by the same steps
as a live run does. `Budget` and the price of a call are both 2, so that one live call, or
two results of batches, use the budget up, and one result leaves half a call's worth.
Batches, runs and one failure together are some 1.5 million states; a run with a failure
between two backfills at a time as well is left to the proofs.

`ScannerScan`, `MasterStoreKept`, `LibraryKept`, `ClusterShared`, `AccountsKept`,
`EnrichmentRuled` and `HousekeepingRecurs` say `CHECK_DEADLOCK FALSE`: when the bounded
requests and writes are used up there may be nothing left to do.

`TypeOK` of Cluster, Accounts, Library and Enrichment, `HTypeOK` of Housekeeping and
`STypeOK` of Scanner are not in these runs, because they show little; they hold in the
same instances (add the line to the .cfg), and they are proved. So do
JobQueue's `AttemptsBounded` and `FailedMeansSpent`, which the proofs establish.

What may overlap in `MasterStoreKept` is `Safe`: an upload with a purge, an
emptying with an upload or with another, the removal of a version with anything,
deletes with each other, restores from the trash with each other. These pairs TLC
finds safe. The others it does not, and nothing in the code prevents them:

- two of PUT and versions.restore: both number the next version alike, one shelves
  its bytes over the other's; both place the file before either has it, on two
  volumes; and two uploads to one volume share the temporary file, which is named by
  path and process;
- a PUT, a replica or a versions.restore with a DELETE: the file is served and its
  row trashed, and a restore from the trash then overwrites the served bytes;
- a DELETE with an emptying: versions or trashed bytes are left that no row names;
- a restore from the trash with a PUT: the bytes just uploaded are overwritten.

Sequentially, too, some things are as the model shows and a reader might not expect:
a PUT after a DELETE makes the row active and leaves the trashed copy out of every
list; purging an active path drops its versions and keeps the file; versions.restore
leaves the old checksum in the row.

What the violation shows. `SweepRecurs`: the sweep finds its own running row under its
key, so the next sweep is never queued. Sweeps happen at boot only. `PROJECT.json` quotes
both the code and its comment. `Enrichment!Poll` has the same cause: a batch that had not
ended when it was first polled is never polled again, so never ingested, although
`src/jobtypes.js:278` says "come back later".

Six more configurations are kept to be run by hand. In each TLC finds the property
violated, and the trace is what the code does:

- `JobQueueCancelLost.cfg` (MCJobQueue, `CancelSticks`): a cancel between the handler's
  throw and the backoff UPDATE is overwritten, the job runs again; the row it puts back
  has lost its key, so a second live row for the same work can stand beside it.
- `VariantCachePurge.cfg` (MCVariantCache, `CapKept`): a purge and an eviction both
  subtract the same file.
- `ScannerResume.cfg` (MCScanner, `NeverFalselyMissing`), with `a/x` and `a.txt`: resume
  skips by string order what the walk has not reached. `ScannerScan`, whose paths sort
  the same both ways, shows that this difference is the only reason.
- `MasterStoreAbort.cfg` (MCMasterStore, `ActiveIsServed`): retention moves the master
  away before the upload that is to replace it has arrived. If the upload breaks off
  nothing is moved back. The same happens without any failure when versions.restore asks
  for a version that the retention of the current master has just trimmed.
- `LibraryRename.cfg` (MCLibrary, `RenameKeepsIndex`): a MOVE onto a name that has a row,
  be it a trashed one (so every MOVE that replaces a file), leaves the row at the old
  path: renamePath runs into the unique key and the error is swallowed.
- `EnrichmentOutage.cfg` (MCEnrichment): `EnrichmentRuled` with the two properties that
  make no exception for what the code passes over. `CeilingHolds`: the budget is "the hard
  ceiling, checked before every call" (`src/ai.js:171`), but a failed read of the
  spending is nothing spent (`src/ai.js:166-167`), and a call starts however much that
  was. `NothingAbsent`: saveFailure() exists so that a failure is "visible in review rather
  than silently absent" (`src/aistore.js:59`), but swallows its own; an asset of an
  ingested batch has no row, and the next backfill chooses and pays for it again, although
  a backfill "must not re-bill work already paid for" (`src/jobtypes.js:232-233`). TLC
  stops at whichever it finds first; take that line out for the other.

More disagreements are in the models without a run of their own. A retried job has
lost its dedupe key, so the same work can be queued twice (`OneLivePerWork` with
`MaxRetries = 1`). A file uploaded behind the walk is called missing by the scan's
last statement if its row was not written yet when the walk went by. During a warm
boot a variant is counted twice when `onDisk()` indexes the file a render then
`add()`s (`src/cache.js:54-55` says not); `BytesCounted` fails with `Boots = TRUE`.
And `enqueue()` may answer null after a lost race whose winner has meanwhile
finished (`src/jobs.js:88-92`), although the work was accepted.

What the later modules leave out of their promises, each by a named condition, because
the code does not keep it there:

- Library. A MOVE or COPY whose source is not there clears the destination first and then
  answers 404. removeDir() takes what has arrived in the directory since the listing with
  it, outside the trash, and uploads under way fail. A link whose file was trashed works
  again for whoever uploads to that path; a visitor between lookup and stream may get
  other bytes than the link was for; HEAD requests count as downloads.
- Cluster. If uploads of one path overlap and one is public, the public put may read the
  bytes a private one has just brought, and carries them to a public node; after a DELETE,
  those that a pull brings back before it reads. A GET between a
  DELETE and its replica brings the master back. A pull's rename lands on a newer local
  upload. A write whose header differs from its path goes by the header, later reads and
  deletes by the path. Two nodes that miss the same master wait for each other until the
  timeout: `GetAnswered` needs `TimeOut`.
- Accounts. A login that read its row before a password change or a disabling, and issues
  its session after it, leaves a live session behind (`late`). API tokens survive all of
  it by design. Two admins who pass the last-admin check together leave none (`raced`;
  `AdminAlwaysRemains` is the property without that exception, and is violated). A crash
  between the INSERT and the role of the first account leaves an installation without an
  admin, and closed to registration (unless that is open to all). Two first registrations
  at once are both admin. Two resets of recovery codes at once leave both sets valid.
- Enrichment. A promotion and a rejection of one tag at once may leave it promoted and not
  among the tags; a rejection between save()'s DELETE and INSERT is lost, though
  `src/handlers/assets.js:516` says a rejected tag never comes back (`contested`). Two
  backfills before the first batch is ingested, or one that dies after submitting, pay for
  the same assets twice: `PaidOnce` speaks of ingested batches. Refusals in a batch are
  paid for and not recorded. A run the budget stops marks a good enrichment failed.
  A call may start past the ceiling when the spending cannot be read (`blind`), and what
  cannot be recorded never counts (`lost`). An asset whose failure cannot be saved is
  absent from an ingested batch, and is chosen and billed again (`unsaved`). A batch whose
  last UPDATE fails is ingested in all but name.

## 4. Fairness

`JobQueue!FairSpec`: each process's loop and restart, each activation's next step
and each row's clock are weakly fair. The loop is a timer, a killed server is
restarted by its supervisor, handlers return or throw (child processes and requests
have timeouts), time passes. Callers, operators, crashes and failures owe nothing
and are bounded, so that they are finitely many. Retries are bounded too: an
operator who retries for ever keeps a job live for ever. The run takes a crash or a
failed statement, not both (`OneFailure`), for size.

`Housekeeping` adds fairness of the boot step and of the handler's own enqueue.
`VariantCache!FairSpec`: each request's, purge's, eviction's and boot scan's next
step, since a file call completes and the event loop turns. `Cluster!Spec`: for each
node, one weak fairness for its reads and pulls together and one for its sends, since
handlers, timers and sockets go on; clients, faults and the order are free. No strong
fairness is assumed anywhere. Scanner, MasterStore, Library, Accounts and Enrichment have
only safety properties.

## 5. The proofs

One proof module for each of the eight components. Unless a paragraph says so, a theorem
holds for every value of the constants under their ASSUME, with every failure the model
has. TLC checked each inductive invariant, or its parts, before it was proved.

`JobQueueProofs`. `TypeCorrect`, without conditions. `ClaimingSafe`: `OneExecutor`,
`ClaimHeld`, `AttemptsBounded`, `SlotsRespected` and `FailedMeansSpent`, assuming
`~Overrun` and `~EagerRetry`. None of them is inductive alone. `OneExecutor` needs
`ClaimHeld`: a row somebody executes is running or cancelled, so it cannot be claimed.
`ClaimHeld` needs to know a claim before it has been read back: `ClaimPending`, its lease
is live and nobody executes it. `SlotsRespected` needs `SlotKept`, that the slot tested
before the claim is free when the row comes back. `AttemptsBounded` needs `AttemptLeft`: a
queued row has an attempt to spend. `IInv` is their conjunction. One lemma speaks of a
step that changes one row, one of a step of an activation, one of its end, with one step
per action on top.

`WorkQueuedOnce`, under the same conditions: `OneLiveUntilOperator`. By `KeyInv`: as long
as no operator has acted, a live row of a deduplicated kind still has its key, and the
unique index does the rest; the two steps that drop the key, of a row that fails for good
and of one that is done, make the row no longer live. `DoneTrusted`
(`DoneMeansWorked`, where also `~BlindReads`) by `OutcomeSound`: an activation about to
write done has worked, one that stopped early finds the row cancelled.
`QueueImplementsLedger`, where also `~CancelRunning`: the initial state maps to the
ledger's, every step to one of its steps or a stutter; it needs that no activation stands
on a withdrawn row. From that, too, `CancelledStays`: `CancelSticks`, the property
`JobQueueCancelLost.cfg` shows violated when a running job is cancelled. `OneSweepChain` is
about Housekeeping: `OneLivePerWork`, under the conditions of `WorkQueuedOnce`. Boot and the
sweep handler look the key up and insert as one step, and `IInv` and `KeyInv` survive that;
its other steps are the queue's.

Why these conditions: with `Overrun` or `EagerRetry` the code does let two handlers run
the same job, with `BlindReads` it reports done what was stopped, with `CancelRunning` a
cancelled job may run on. They delimit what the code promises.

`VariantCacheProofs`. `NeverStale`, by `Fresh`: a variant file is never older than the
version its name tells of. `RenderedOnce`: `SingleRender` and `NoLostWaiter`, by
`InFlight`. `TypeCorrect`, where an eviction or a purge that has unlinked a file knows
which. `IndexMatches` (`IndexIsDisk`) and `BytesAreCounted` (`BytesCounted`) take the
conditions of their run, `OneLife`: no purge, and a process that found an empty cache. With
either, the code breaks both: a purge and an eviction take one entry off twice, and a
request that found its file during the boot scan indexes a name that a render adds again,
or that an eviction has unlinked since. `Held` is the invariant: what a request renders is
not indexed; an eviction lists indexed names, each once; a file on disk is indexed or
renamed and about to be added; an indexed name has its file unless the eviction has just
unlinked it. The weight of the index is a sum, a recursive function: `UpTo` is induction up
to a number for a property given as a set, which the provers can use; by it the partial sums
of a sequence exist (`SumsExist`) and are unique (`SumsOnce`), so that appending a name or
deleting one changes the sum by its size (`WeightAppend`, `WeightWithout`).

`ScannerProofs`. `ProgressIsSound`, `NeverFalse` and `ScanReconciles` are the three
properties of the run, for any directories, files, volumes, writers, crashes and attempts,
if paths sort as strings in the order of the walk (`OrdersAgree`). The code does not
ensure that, and `ScannerResume.cfg` is what happens without it. But only resumption
compares strings: `FirstAttemptNeverFalse` and `FirstAttemptReconciles` need no such thing
for a job in its first attempt. What carries the proof is `Walked(S)`: S, the entries the
walk has done with, is closed under parents, lies before everything to do, and has every
lasting file marked; the lemma `Frontier` says, by well-foundedness of the walk's order,
that before any lasting entry outside S there is something still to do. `Progress` carries that over to the recorded
place and to the volumes before this one; `Index` says that rows of untouched paths tell
the truth once the scan has been there, and that what it read is still so when it marks.

`MasterStoreProofs`. `TypeCorrect`, without conditions; with it `Whole`, that a request
knows what its step relies on. The other theorems need that some operations do not meet,
which nothing in the code ensures, and each asks for no more than it uses.
`VersionsAreFrozen` (`VersionFrozen`): no two requests retain at once. By `Numbering`: the
number a request has chosen has no row until it inserts it; that `Max(kept) + 1` is none
of the numbers is the lemma `Greatest`. `NeverASecondCopy` (`OneCopy`): no two of PUT,
replica, undelete and versions.restore overlap, save two undeletes, of which one finds the
trash empty. `OneCopy` speaks of the disk alone; what keeps it true is that all copies lie
where whoever may still place bytes will put them (`Bound`).

`NothingIsLost` (`Recoverable`), `RetentionIsKept` (`VersionsKept`) and `TrashIsUnserved`
(`TrashedIsUnserved`) take the pairs of `Safe` and no read-only volume, any numbers, and
uploads that break off or are rolled back; the properties exclude failed statements. They
speak of a server at rest, so nothing in them says what holds between two steps of a
request. `Calm` does, in three parts. `Presence`: bytes on a volume have an active row or
a request about to give them one, and each request can be sure of what it has seen of the
master (`Sure`): the copy it is to retain is still the only one, the place it will fill is
empty, the row it will revive is there. `Listing`: a version without bytes is one whose
removal is under way, and the limit is exceeded by one at most, while a trim is due.
`Saved`: what has landed and is not given up is held, or shelved by the request whose next
step inserts its row. `Sure` needs `Listing` (a restore's row is there because a version
is), `Listing` needs `Sure` (the row an insert refers to), and `Saved` needs both.

`LibraryProofs`. `NothingIsLost`, `IndexKept` and `CapIsHeld` are the three properties of
the run. For the first, `Leftovers`: what a request finds in the directory it removes at
its end, beyond its listing, came there while it was under way, and is among what
`NothingLost` gives up. For the second, `Paths`: each path not spoilt is in the hands of a
rename whose UPDATE is the next step, or agrees with its row and waits for no statement,
or waits for exactly one, which will set it right. For the third, `Booked`: those who hold
a reservation are counted with those who were served. `TypeCorrect` says also what each
step of a request relies on, among them that source and destination differ and are of
one kind.

`ClusterProofs`. `PrivateIsKept` and `NodesAgree`. `PrivateStays` speaks of disks;
`Confined` says the same of the replicas and pulls on their way, and of a put that has yet
to read its file: it may read what nobody else is about to change, or anything is
allowed. `Agreement` speaks of the time after all traffic; `Agreed` holds throughout: each
sharing node has what the last write left or a replica of it is owed to it, all replicas
are of one write from one node, and a pull can only bring what the origin has. The
attempt to prove `PrivateIsKept` found the exception in `consent` too narrow: a DELETE, too, or a
pull, can come between a public put and its reading of the file (`Exposed`).

`AccountsProofs`. `CodesSpentOnce`: `CodeSpentOnce`, by `Unspent`: a code that can be spent
was issued, and neither it nor one yet to be issued has been redeemed. `AdminsRemain`:
`AdminRemains`, with the exception it states (`raced`). It needs `Guarded`: at most one
handler is between the check and the write, there is an active admin other than its
account, and while an admin is served there is one at all. A role given to somebody else,
or an account enabled, only helps. `Shaped` is why no route can get to such a write except
by the check: every write that takes an admin away comes right after it in its plan, and
no plan starts with one (`PlansShaped`). `SessionsEnd`: `SessionsFollowChange`, by `Goes`
and `Unborn`: a login under way carries the password of the account as it is now, or the
account is known to be `late`; every write that changes an account is followed in its plan
by the DELETE of its sessions (`PlansFollow`); nothing changes an account before it exists.

`EnrichmentProofs`. `RulingsAreKept`: between the two statements of a ruling it does not
hold of the tag in hand, so `Orderly` says for each asset that one person at most acts on
it, nothing is saved meanwhile, every other tag holds, and the act knows what it relies on
(`Ready`). `BudgetHolds`: what has been billed and what is out stay within the ceiling, one
call for each asset, what was not recorded, and one call for each start past the ceiling on
a failed read (`Money`). `IngestedIsSaved`: while a batch is read each of its assets is to
come, about to be saved, or settled (`Read`): it has its row, or a failure that could not be
saved (`Settled`); and a backfill that is polled has mapped all it submitted (`Mapping`).
`PaidForOnce` follows: what has a row is not chosen again. Without those exceptions the
statements are false, as `EnrichmentOutage.cfg` shows; `lost` also counts calls a crash
cut off before they were recorded, while `blind` and `unsaved` stay empty unless a statement
fails.

Only model-checked: the liveness properties `EveryJobSettles`, `BootSweepRuns`,
`SweepRecurs`, `Answered`, `TrafficEnds` and `GetAnswered`, since fairness and ENABLED are
outside the prover's reach. Every invariant and every action property of the passing runs
is a theorem, under the conditions stated here.

## 6. Not modelled, and the plan

Next, in this order:

1. `MasterStore` and `Library` composed: a MOVE between volumes, a COPY with retention and
   quota.
2. Small ones: the rendition cache, whose reload races an invalidation; Range and the
   ETag as pure operators; the contents an extract job has read.

Not modelled: failed statements and unreadable directories in Scanner; a crash in the
middle of MasterStore's or Library's requests; trimming by age; quotas in
the API; collections, comments, saved searches and listings, which are single statements;
the throttle by address; the editing of captions.

Left out for good: parsing and formatting, HTTP headers other than the validators,
password hashing, TOTP arithmetic, image and video processing, the SQL of listings,
the Strapi provider, the migration tool and the web console.

## 7. Running

`tlc -config JobQueueSafety.cfg MCJobQueue.tla`, and so for each run of
`PROJECT.json`; `tlapm JobQueueProofs.tla`, and so for each proof module.
