# fdrive: a formal model

TLA+ modules that model the parts of fdrive in which order, failure and concurrency
decide whether files survive, the TLC configurations that check them on small instances,
and TLAPS proofs of the most important properties for every size. Paths below are relative
to the repository. Every definition that models code is translated from the lines that
`PROJECT.json` names for it under `map`.

    tlc -workers 2 -config Requests.cfg MCRequests
    tlapm RequestProofs.tla

## The system

fdrive is a web and desktop client for files that live on a storage the user already has
(SFTPGo, WebDAV or S3). A Hono API (`apps/api`) authenticates people, holds their storage
credentials, calls the storage through adapters (`packages/sftpgo`, `webdav`, `s3`) and
keeps its own data in PostgreSQL (`packages/db`). A Next.js interface (`apps/web`) and a
macOS File Provider extension (`apps/macos`) are its clients. Python services index files
for search and run OCR on them (`services`). Several API processes may run side by side;
they meet in the database and at the storage, where other clients write as well.

The storage has no transactions and no compare-and-swap. Whatever fdrive promises about a
file it has to build from single calls that may fail, be answered too late or not be
answered at all. The native (desktop) write path is where most of that happens and has the most
detailed modules; around it are the services it leans on (tokens, locks, the effects queue) and
those that rewrite, copy or describe files by themselves (Office, OCR, backups, the indexer).

### Inventory

M: modelled, P: partly, -: not modelled.

| | Component | State | Operations | Meets | Hard |
|---|---|---|---|---|---|
| M | Job runner `apps/api/src/jobs/runner.ts` | jobs, FIFO queue and slot count per identity, retention timers | submit, cancel, settling of authorize / run / onOutcome | archive routes submit; events go to the bus, outcomes to the activity log | cancels between callbacks, capacity, durable history |
| M | Upload half of a native write `desktop/writes.ts`, `retention.ts` | ledger row, spool directory, controller map | prepare, upload, cancel, acknowledge, sweep, resolve | desktop client; ledger in PostgreSQL; commit reads the spool | racing requests on several processes, lost answers, crashes |
| M | Bulk move `desktop/writes.ts`, `packages/s3` | row and result, objects at two places, ticks | commit, copy, remove, undo, cancel, retry, resolve | publish lock, registry, storage | cancel against the last object, partial failures, read-modify-write |
| P | Publication `desktop/writes.ts`, `packages/sftpgo/src/optimistic-publish.ts` | live file, recovery copies, row, lock | commit of save / create / trash, resolve | publish lock, storage, other clients | check-then-rename, late renames, retries |
| M | Publish lock `repos/desktop-publish-lock.ts` | session lock, pool of connections | acquire with polling and deadline, release | every commit | pool saturation, failed unlock, dead sessions |
| P | WebDAV write lease `packages/webdav/src/write-lease.ts` | lock token, renewal, requests under way | acquire, renew, publish, release | the server, clients without a lease | delayed requests, a lease that ends under the work |
| M | Desktop effects queue `repos/desktop-effects.ts` | jobs in sequence per identity | enqueue with the receipt, apply metadata, deliver, retry | ledger, metadata of other clients, event bus | two transactions per job, lock order, newer work |
| M | Upstream token source `auth/token-source.ts` | cache, version, load in flight, chain of writes | get, invalidate, prime | every storage call | results older than an invalidation |
| P | Office and WOPI `office/writes.ts`, `repos/wopi-locks.ts` | leases with expiry, advisory locks | lock, refresh, unlock, relock, PutFile, PutRelative | editor host, storage | a lease that ends during an upload, pruning, deadlocks |
| P | OCR `services/ocr` | kept originals, sidecars, done-log | rewrite, restore, delete, prune | users who save the same file | check, then replace |
| P | Backups `packages/backup` | row, deliveries, spool, worker lock | tick, cancel, retry, pin, remove | destinations, owner | resumption after a lost lock, stale choices |
| P | Indexer `services/indexer` | debounced paths, moves, submitted jobs, index rows | event, flush, job, scan, sweep | file system | moves against running jobs, lost events |
| M | Runtime controller `services/runtime`, `features/service.ts` | child process, attempts, last good document | poll, reconcile, save of features | feature endpoint | latches, a stale document |
| P | AI chat `apps/api/src/ai/chat` | transcript, cards, conversation in memory, reply under way | send, act, cancel, sweep | provider, storage through cards | a transcript read long before it is used |
| P | Indexer notifications `events/indexer-listener.ts` | one connection, one retry, payload queue | connect, notify, reconnect, stop | indexer through PostgreSQL | slow connects, stop while connecting |
| - | Desktop pairing and tokens | pairs in memory, credentials | start, approve, poll, revoke | desktop client | poll issuing against expiry |
| - | Desktop file listing and change feed | none | list, stat, changes | registry, storage | - |
| - | Sessions, sign-in, login limiter | session rows; windows per key and group | login, logout, check, fail | accounts | capacity and group budgets |
| - | Accounts and identity links | account, identity rows | link, unlink, merge | sessions, credentials | one transaction each |
| - | Web file routes `fs/` | none | mkdir, move, delete, upload | storage, metadata hooks, job runner | hooks after the storage changed |
| - | Recycle-folder Trash `packages/core` | names in the Trash folder | trash, restore, purge | storage | check, then move |
| - | Archive jobs | streams | compress, extract | job runner, storage | - |
| - | Public shares | limits, password windows | open, download, upload, revoke | storage | count and transfer are separate |
| - | Activity log | sequence per owner | append, read after, stream | every mutation | no holes under concurrent commits |
| - | Metadata that follows paths | favourites, tags, Office files | move, delete | effects queue | locks |
| - | Features and system configuration | one revisioned row | read, save | runtime controllers | compare-and-set (in `RuntimeWorker`) |
| - | AI organize, MCP, search, scoping | plans of an external model; none | plan, apply; tools; query | model server, services above | - |
| - | Restore of backups `packages/backup/src/restore.ts` | archive, journal | restore, recover | containers, database | crash between steps |
| - | SFTPGo, rest of WebDAV and S3 | none | one request per operation | storage servers | - |
| - | Image embedding | none | embed | search | - |
| - | Web interface, macOS application | upload queue; journal | clients of the API | | the modules let a client do anything at any time |
| - | Contracts, configuration, deployment | none | - | | - |

`PROJECT.json` has the same list with reasons, and under `hazards` the lines that could go wrong
in ways a test hardly reaches. Smaller ones that belong to components without a module: two
reservations of the last spool space (`desktop.ts:202`), a pairing poll against revocation
(`pairing.ts:88`), scopes a minute old (`indexer-listener.ts:458`), a download counted after the
storage answered (`owned-access.ts:111`), the login limiter at capacity (`login-limiter.ts:147`),
sequences without holes (`activity-writer.ts:36`).

What makes the modelled components correct:

* Job runner: a slot is taken and given back once; nobody waits beside a free slot; no job
  is dropped before its outcome is durable; an identity's jobs start in the order they were
  submitted; every job settles.
* Upload: the payload a receipt names survives until the outcome is known; a request that
  lost a race leaves the winner's row alone; a decision is never revived.
* Bulk move: no object is ever at neither place; removal follows the whole copy; completed
  means moved; a retried move completes; a cancelled one leaves no trace.
* Publication: each commit replaces exactly what its client saw, or nothing; no version is
  lost; what may be retried was not published; a conflict is real; every commit ends.
* Publish lock: one publication per identity; waiting never uses up the pool.
* WebDAV lease: what a publication replaces is what its lease found there.
* Token source: a refused call is repeated with a token not known before; memory never disagrees
  with the row; no write, however late, undoes one that was decided later.
* Effects queue: jobs take effect in order; an event follows its metadata; recovery never
  undoes newer work.
* Office: a granted lock stays until it is given up or its lease ends; a save keeps the lock
  it was checked against, unless that lease ends under it.
* OCR: what a rewrite replaced is kept; a restored file stays restored; a restore replaces only
  what is kept or what its caller saw.
* Backups: complete means every destination holds the archive; what is pinned is not removed.
* Indexer: a scan repairs whatever the watcher missed or got wrong, but an extraction that failed.
* Runtime: a worker nobody wants stops within the window, one that is wanted runs in the end.
* Chat: cards can be answered and every provider call has its results; decided cards stay so.
* Listener: one connection at a time, none after stop, and always one again after a break.

## Modules

| Module | What it is |
|---|---|
| `JobService` | abstract: what the job runner promises, without queues, counters and timers |
| `JobRunner`, `AiChat` | the job runner; one chat with its replies and cards |
| `IndexerListener` | the connection to the indexer's announcements |
| `WebdavLease` | publications under a WebDAV lock, with delayed requests |
| `RequestProofs` | theorems about these four, and that the runner implements `JobService` |
| `DesktopUpload`, `DesktopUploadProofs` | the upload half of one native write |
| `DesktopBulkMove`, `DesktopBulkMoveProofs` | the commit of a directory move on S3 |
| `AtomicSave` | abstract: a file that commits change in one step each, losing nothing |
| `DesktopPublish` | saves, creations and moves to the Trash that meet at one path |
| `DesktopPublishProofs` | its theorems, and that it implements `AtomicSave` |
| `EffectLog` | abstract: jobs that take effect one after the other, in one step each |
| `DesktopEffects` | what follows a finished write: metadata and events, in order |
| `TokenSource` | the upstream tokens of one identity and the calls that use them |
| `DatabaseProofs` | theorems about these two, and that the queue implements `EffectLog` |
| `PublishLock` | the advisory lock behind a publication, on its bounded pool |
| `WopiLocks` | Office locks and the writes under them |
| `OcrOriginals` | rewriting a PDF, keeping and restoring its original |
| `RuntimeWorker` | the controller of an optional worker |
| `BackupEngine` | the life of one backup run |
| `IndexWatcher` | the watcher of one directory beside the scan |
| `WorkerProofs` | theorems about these six |
| `MCJobRunner`, `MCDesktopUpload`, `MCDesktopBulkMove`, `MCDesktopBulkTrials`, `MCDesktopPublish` | instances for TLC |
| `MCServices`, `MCRequests` | parts without common state, one of them chosen by the initial state |
| `MCServicesProofs`, `MCRequestsProofs` | that each part behaves as by itself there, and keeps its types and promises |

The desktop modules are views of the same ledger row (`app.desktop_operations`).
`DesktopUpload` has its states up to `ready` in detail and the commit as one step that
begins and one that ends; `DesktopPublish` and `DesktopBulkMove` start from `ready` and
have the commit in detail. `DesktopPublish` uses the mutual exclusion that `PublishLock`
establishes, and its receipt puts the job of `DesktopEffects` into the queue. They are kept
apart because the properties of each do not depend on the detail of the others, and their
product would be out of reach of TLC.

The definitions named `X_Something` beside a definition `X` are the mistakes the properties
are tested with: `X` as it would read with a dropped guard, an off-by-one, a missing reset or
a swapped order. The specifications never use them.

`MCServices` and `MCRequests` extend several components and choose one in the initial state;
only the chosen one moves. The components share no state, so their interleavings show nothing
that one of them alone does not, and one run answers the same question about each: does it
keep its safety properties, and does what it began come to its end?

### JobRunner

Node runs a callback to its end, so an action is a callback: `Submit` (with
`pruneIfOverCapacity` and `startNextQueued`), `SubmitRefused` (capacity), `Authorized` and
`Refused` (the settling of `authorize`), `RunResolves`, `RunThrows`, `Recorded` (the history
write settles, the terminal event goes out, retention begins), `RetentionPrune`,
`CancelRunning`, `CancelQueued`. `jobs`, `queues`, `runningCounts` and `timers` are the
runner's maps, and `jobState`, `aborted` and `historyPending` the fields of a job; `step` is the
promise a running job waits for and `lastEvent` its last event on the bus. A run that throws may
leave work behind that still reports (`step` is `left`, as after a tar extraction whose upload is
in flight): `Report` publishes the state the job has by then, which may be before the history is
written. Left out: progress numbers, reports of a job that runs, and the check of who may cancel.

`JobService` says the same for those who use the runner: a job is accepted, finishes and lets the
next of its owner start in the same step, is announced, is asked to stop or withdrawn, is
forgotten. `ImplementsJobService` is its `Spec` under the mapping at the end of `JobRunner`.

### DesktopUpload

One operation. Each `await` of `upload()` is a step: `idle`, `claim`, `register`, `open`,
`body`, `publish`, and on the way out `failed`, `reset`, `unlink`. A ledger transition is one
compare-and-set in PostgreSQL; `PublishReady` has a twin `ReadyAnswerLost` in which the
transition commits and the caller sees an error. `cancel`, `acknowledge` and the retention
sweep read the row, compare and set, and remove the spool in three steps, and a crash
(`Crash(p)` for an API process, `RemoverStops`) may come between any two. The spool has per
attempt a file that is absent, partial or complete. Left out: the quota of `reserve`, the
bytes themselves (a body is complete and verified or it is not), the recovery tree on the
storage.

### DesktopBulkMove

One directory move on a storage without rename. `commit` reads the operation and then claims
it (two steps, so a stale read is possible), decides from the registry and the reservation
(`DecideMoved`, `DecideResume`, `DecideReserve`, `DecideConflict`, `DecideGone`), copies with
`CopyConcurrency` workers from a listing, lists the source again and removes, and updates
registry and receipt. Ticks read the result and write it back whole, as `cancel` does. When a
worker throws, the others go on (`stray`). `UndoChecks`, `UndoRemoves` and `UndoEnds` are
`undoCancelledCopy`. An object is a name; two objects of one name are not told apart, the
listing is one page, one tick is under way at a time, and the publish lock, which the code
does not hold during the transfer, is left out.

### DesktopPublish and AtomicSave

Several operations at one path of a storage without write leases. The steps follow `commit`:
`Prepare`, `Claim`, the checks before the lock (`CheckName`, `CheckMetadata`,
`CheckContent`), `Witness`, `Stage` (the upload into the recovery directory), `Acquire` or
`Busy`, `StillFree`, `Guard`, `Copy` (the recovery copy), `Prove` (its digest), `Recheck`,
`Rename`, `Unlock`, `Registry`, `Complete`, and `Settle` where a commit that failed records
what it came to. All contents have one size, so a stat tells versions apart by modification
time only, and that has whole seconds (`Tick`): the case in which a changed file looks
unchanged.

What may go wrong (`Faults`): a call fails, a copy is damaged, the answer of a rename is lost,
a rename given up on is performed later, the process crashes and its lock is freed by the
database, an administrator resolves an uncertain operation. `Racy` says whether other clients
may also write between the proof of a save and its rename, or between the last check of a
creation and its rename. The storage offers nothing that would close that window, and
`docs/plans/STOCK-SFTPGO-WRITES.md` lists it under "Accepted residual risk".

`AtomicSave` has five variables (the file, what is recoverable, and each operation's kind, base and
status) and actions that change the file and what is recoverable in one step: a save replaces
exactly its base and keeps it, a creation needs the name to be free, a move to the Trash keeps what
was there, and an operation is refused only if the file is not what its client saw. `DesktopPublish`
without late renames (`PromptSpec`) implements it (`ImplementsAtomicSave`) with the refinement
mapping at its end: an operation is `done` from its rename on, not from its receipt.

Left out of `DesktopPublish`: a save that also renames, plain moves and restores, new folders,
the metadata of the receipt, storages with a write lease, two commit requests of one operation
at the same time.

### PublishLock, WebdavLease

`PublishLock`: a call polls (`Connect`, `Ask`, `Wait`, `Wake`) until its deadline (`GiveUp`) on
connections of a pool of `PoolSize`; a session advisory lock belongs to a connection and goes with
it (`SessionDies`). A checkout times out only while every connection is kept (`CheckoutTimesOut`),
a query may fail, an unlock may fail and then the connection is destroyed. The database re-enters a
lock its session already has, so a connection that came back to the pool with one would let two
callers publish; the type invariant says none does.

`WebdavLease`: a lease is one `withWebdavWriteLease`: the lock (`LeaseAsks` to `LeaseBegins`), the
renewals beside the work, the last look and the publication of the work, and the `finally` with the
unlock. A request is on its way (`davRequests`) until it arrives, also when its sender has given it
up. mod_dav is external: it evaluates the token conditions on arrival and ends a lock whenever it
says so. Publications of one path: save, creation, new folder. Durations, the check of the server's
name and combined save and rename are left out.

### TokenSource, DesktopEffects

`TokenSource`: a token is numbered when it is issued. A load is the promise that callers share,
with the version it started from; `chain` is the chain of writes to the row. Requests use a token,
are refused and retry once (streams cannot). A sign-in (or an account that links the identity) is
verified with a token of its own (`SignInVerified`) and primes it some awaits later
(`SignInPrimes`), so what is primed may be older than what is there: `unprimed` has the tokens in
such hands, and `rowVersion` the version of the write that reached the row last. Unlinking,
revocation at the storage, ageing, failing database calls and restarts disturb it as well. Sealing
and the provider's binding are left out.

`DesktopEffects`: a job is selected, its identity locked (advisory), claimed, its rows locked,
checked and moved, the event published, the second transaction committed: a step each, because
other clients write metadata and other API processes poll between any two. A transaction that
breaks rolls back and the job waits. One table stands for five and a path for a subtree; Office
rows are left out. `EffectLog` has the jobs, the rows and the accounts of the identities, and nothing
else: no workers, locks, delays, attempts or crashes. There a job moves its metadata in one step, which
the edits, moves and deletions of other clients come before or after, then it is announced, then over.

### WopiLocks, OcrOriginals

`WopiLocks`: a request is a transaction with the provider's gate, the advisory lock of its files and
the rows it pruned; Postgres aborts one of a cycle (`DeadlockVictim`). `believed` is what an editor
was told. Rename, discovery, tokens and the content version are left out.

`OcrOriginals`: one path. The pass reads, waits for ocrmypdf, takes the file's lock, keeps the
original, writes the sidecar and swaps; a restore inspects, copies, compares and swaps; originals
are deleted or pruned without the lock, as the code does. `Overlaps` says whether users may save
or originals be deleted while a rewrite is committed: with `{}` everything holds, with `{"edit"}`
see the findings. What a rewrite records as done is the path as it is by then (`PassRecords`).

### BackupEngine, IndexWatcher, RuntimeWorker

`BackupEngine`: one run, several worker processes of which the holder of an advisory lock ticks;
owner's requests read the row and write it in two steps. A capture is a number; captures are cut
at `MaxCaptures`. Two chains of awaits are one step each: the look at an object at a destination,
its put and its reading back (`Puts`; a failure after the put is `DeliveryFails`), and the sweep's
look at a run and its removal of a stray file (`TickEnds`). Schedules, verification and the choice
of what retention keeps are left out.

`IndexWatcher`: the reader, the flush in its steps, the jobs of the pool and the scan with its sweep
each move between any two steps of the others. `torn` remembers that a file was moved away or
replaced between a job's stat and its read, which no later scan notices because the row then
carries the right size and mtime. The same is true of an extraction that fails (`ExtractionFails`:
the service is down, the file is corrupt): the row keeps `error` for this version, and rescans skip
it; the retry and the reindexing a person starts from System are left out. A job that raises
(`JobRaises`) marks its row in a further step, without the file's lock (`MarksError`). Directories,
renames that change the extension, embeddings and database failures other than in a rename or a job
are left out.

`RuntimeWorker`: a tick is a poll. `age` is the time since the last good document, `latched` the
time since the attempts were used up, `offFor` the time since nobody wants the worker.

### AiChat, IndexerListener

`AiChat`: one chat of one person. `asking` is a request (send, act, cancel) in its steps, `turns` the
promises of `startTurn`, `conversations` what lives in memory, `parts` the stored cards. `owed` is
history: the calls of a conversation without a result. `Meetings` says what may happen while a
request is handled: nothing, replies that go on, or other requests. Creating and deleting chats,
replies of other chats of the person and what the tools do are left out.

`IndexerListener`: `establishing` is the promise `connecting`, `retry` a timer that fired and waits
for it, `open` what the database has open. It is started and stopped once, as
`apps/api/src/composition.ts` does; a start soon after a stop would find the old retry discarded.

## What the runs show

| Run | Instance | Properties |
|---|---|---|
| `requests` | one part of `jobs`, `commits`, `leases`, `chat`, `listener`, see below | `RequestsTypeOK`, `SlotsMatchRunningJobs`, `UnsettledJobsAreHeld`, `OnlyLateReportsPrecedeHistory`, `RetryIsSafe`, `CardsCanBeAnswered`, `OneListener`, `ImplementsJobService`, `ReplacesWhatItProved`, `CardsAreFinal`, `EveryRequestSettles` |
| `services` | one of eight services, see below | `ServicesTypeOK`, `RetryIsFresh`, `CacheAgreesWithRow`, `RowMovesForward`, `PublishesAlone`, `RefusedOnlyBehindPublications`, `EffectsInOrder`, `EventFollowsMetadata`, `ImplementsEffectLog`, `LeasesAreKept`, `SaveKeepsItsLock`, `OriginalsAreKept`, `RestoreStands`, `SavesSurviveRestores`, `OffWithinWindow`, `CompleteMeansVerified`, `NothingPinnedIsRemoved`, `ScanRepairsIndex`, `EveryServiceSettles` |
| `upload_safety` | two upload requests on two processes | `PayloadPreserved`, `LosersLeaveTheRow`, `DecisionsStand` |
| `bulk_trials` | two objects, one newcomer, two requests, two failures; either cancels, crashes, administrators and overlapping requests, or a client that retries whatever fails | `NoObjectLost`, `CompletedMeansMoved`, `RetriesConverge` |
| `bulk_only_copy` | a cancel and one failing removal | `NoObjectLost` is violated |
| `bulk_newcomer` | one newcomer | `RemovalFollowsCopy` is violated |
| `bulk_takes_back` | a cancel | `CancelledTakesBack` is violated |
| `publish_fenced` | two operations of any kinds, one foreign content, all faults but late renames, two faults, one foreign write, one second | `NothingLost`, `CompletedIsRecoverable`, `ConflictIsReal`, `ImplementsAtomicSave` |
| `publish_heals` | two saves, one damaged copy | `EveryCommitEnds` is violated |
| `ocr_edit` | one save during a rewrite | `OriginalsAreKept` is violated |
| `index_order` | three changes of two files, nothing lost | `WatcherCatchesUp` is violated |
| `chat_replies` | four requests, two calls, replies go on meanwhile | `EveryCallIsAnswered` is violated |

The type invariants of `DesktopUpload` and `DesktopBulkMove` are proved and not run. `bulk_trials`
keeps cancels apart from removals that fail and from newcomers, because those combinations lose
objects (findings 1 and 2).

### Bounds

* `Submissions`, `MaxJobs`: four jobs and three places are the least at which an identity has
  one job running and two waiting and the next submission still has to evict or be refused.
  `SecondOfBob` gives the second identity the second of them at most, which is enough to show that
  it does not wait for the first; `OnlyTheFirstLeavesWork` lets the run of one job, not of several,
  throw before what it began is done, so that one late report meets the other jobs.
* Two upload requests: a race has a winner and a loser; a third request meets a row that one
  of the two left. The proofs cover any number.
* `Objects`, `CopyConcurrency`: with two workers one object can be landed or under way while the
  other is not begun. `MaxFailures` = 2 lets a transfer stop while copying and while removing.
* Two operations on one path, one of them possibly after the other's retry, show every pair of
  kinds. `MaxFaults` = 2 allows a lost answer and a crash, or a damaged copy and a failing
  call, in one behaviour. `MaxTime` = 1 allows two versions in one second and two in different
  ones. `MaxWrites` = 1 is one foreign change; the proofs are for any number.
* Leases: a save meets a save, a creation or a new folder; one loss is a renewal that fails or
  grants too little, a lock the server ends early, or an answer that is lost while its request is
  still on the way; one client without a lease changes the path in between.
* Chat: four requests (a restart counts as one) allow a message, a decision on each of two cards
  and another message. Two calls are two cards, or a card and a result that is held back.
* Listener: three breaks are a failed connect, a broken connection and a break of the retry.
* Tokens: two calls, one of them a stream, with one disturbance, or one call with two of them
  (`OneCallOrOneDisturbance`), besides refusals and failing writes: a sign-in that primes late and a
  revocation that it is late for are two, calls that share a load need one. Lock: three callers of
  two identities on two connections, so an identity can find the pool taken by another; one session
  dies. Effects: a rename and a save of the renamed file, two processes, one edit by somebody else
  and one breakdown. Office: an editor that meets another editor, a save or a copy; leases of two
  ticks. OCR: two revisions, two passes, one restore, a deletion and a stop. Runtime: two starts,
  windows of at most three polls, two saves, three outages, three exits. Backups: two workers, two
  destinations, two captures, two requests of the owner, one mishap. Index: two names and three
  changes and mishaps together, two mishaps at most (`FewIndexEvents`): a file that is written,
  moved and written again, or moved while an event is lost, or read twice in vain.
* Deadlock is not checked: every module comes to rest when its work is done.
* Writers, requests and processes are symmetric where no liveness is checked.

### Fairness

* `JobRunner`: promises settle, the history write resolves or rejects, timers fire. Nothing is
  assumed of clients. A job whose `run` never settles holds its slot for good, in the code as in the
  model.
* `DesktopBulkMove`: storage calls settle (the S3 client bounds every attempt and their number)
  and the client sends the commit again while the row is `ready`, as the macOS journal does.
  Failures are finitely many. Cancels, ticks and administrators are not fair.
* `DesktopPublish`: a commit under way goes on, and the client retries what is `ready`. Weak
  fairness is enough: a commit that finds the lock held waits, is told `Busy` and is retried.
* `PublishLock`: checkouts, queries and sleeps end; publications end except those of identities
  in `Hung`, whose storage may never answer. `WebdavLease`: requests are answered or time out
  (10 s), the server ends a lock nobody renews, a lease under work goes on.
* `TokenSource`, `WopiLocks`, `OcrOriginals`, `BackupEngine`: what has begun goes on; new requests,
  faults and restarts are not fair. The backup worker ticks on a timer. `RuntimeWorker`: polls are
  answered in the end (outages are bounded). `IndexWatcher`: the reader, dispatcher, scan and each
  thread of the pool go on.
* `DesktopEffects`: each worker goes on, and a job whose time has come is seen by a poll again and
  again, which is strong fairness of `RetryDue` because retries of other jobs disable it.
* `AiChat`: the provider answers or the turn's deadline aborts it; handlers go on. `IndexerListener`:
  connects settle and timers fire; breaks are bounded, so the listener is only said to listen when
  nothing breaks any more.
* What is said of these parts has the form `<>[]`: from some moment on nothing is left open. With
  bounded inputs that is as strong as saying it of every request, and TLC checks it in one pass.

In the two composed runs the fairness of a part is asked of the chosen part only.

## Findings

Each is a run whose one property states what the repository says and is violated.

1. `bulk_only_copy`: "a cancellation that loses its race with the last object can never delete
   the only copy" (`docs/MACOS.md:173-174`). If a tick sees the cancel after removal has begun
   and then a removal fails, the failure is taken for the cancellation, `stat(source)` finds the
   rest of the source, and the undo deletes the destination (`writes.ts:1025`).
2. `bulk_newcomer`: "every object is copied before any is removed" (`writes.ts:980`). The removal
   lists the source again and deletes what another client has added since
   (`s3/src/storage-provider.ts:388`).
3. `bulk_takes_back`: a stopped move "takes back what it had copied" (`docs/MACOS.md:167-171`). A
   copy of another worker that is under way lands after the undo has emptied the destination.
4. `publish_heals`: a damaged copy "is ours to retry" (`writes.ts:907-909`). The retry finds the
   damaged copy under the same attempt, does not copy again and fails the same way for ever.
5. `ocr_edit`: "every rewrite copies the pre-OCR bytes" (`docs/OCR.md:117`) and edits are checked
   "immediately before replacement" (`docs/OCR.md:155-157`). The check (`runner.py:265`) comes
   before the original is copied, hashed, described and synced; a save in that window is replaced
   (`runner.py:220`) and kept nowhere.
6. `index_order`: "what is applied is decided by what is on disk at apply time, not by event order"
   (`watcher.py:11-12`). A write and a move right after it are debounced apart; the flush that
   applies the move puts the old row over the one the write's flush made.
7. `chat_replies`: a new message declines pending cards first, "so provider history stays valid"
   (`docs/plans/AI-CHAT.md:74-75`). `send` reads the transcript before a running reply adds its
   card (`chat/service.ts:441`); nothing is declined and the provider is asked without the result.

Disagreements seen while modelling that have no run of their own:

* finishing a job publishes its terminal state after its history was recorded (`runner.ts:171-190`),
  but work that a throwing run left behind reports on (a tar extraction whose upload is in flight,
  `archive/extract.ts:350-358`, `399-443`): its late report publishes the terminal state before the
  history is there, and it is then published again. `OnlyLateReportsPrecedeHistory` says so;
* a call "retries exactly once, with a freshly minted one" (the comment at
  `packages/sftpgo/src/module.ts:91-92`), but a sign-in primes the token it was verified with some
  awaits earlier (`auth/service.ts:139-153`, `210`): it may be older than the one just refused, and
  revoked with it, and is what the retry gets. `RetryIsFresh` says only that the token source did not
  have it before;
* the comment at `writes.ts:1007-1010` says an accepted cancellation is seen, but tick and cancel
  write the result back whole and one of them is lost;
* the comment at `writes.ts:891-893` takes the lock to exclude other renames of fdrive, but a rename
  the storage performs after its request was given up arrives after the lock was freed;
* `docs/plans/STOCK-SFTPGO-WRITES.md` says "A failed recovery digest is now a conflict", while
  `writes.ts:919-920` reports it as a failure to retry;
* `docs/MACOS.md:244-246` cancels bodies "idle for 24 hours": the sweep lists idle rows and later
  compares only the state, so a row claimed again since is cancelled while its body arrives
  (`retention.ts:84`);
* `docs/BACKUPS.md:59-60` deletes every copy the destinations allow; a delivery whose marker failed
  has no `object_key` and is skipped; `setDelivery`, cancel and retry write without a lease;
* `delete_original` and the pruning of originals take no lock of the file; WOPI's `pruneExpired`
  runs on behalf of any file;
* in a chat two decisions, or a decision and a message, that overlap write the whole parts back and
  one of them is lost (`chat/service.ts:512`, `564`); `CardsAreFinal` is stated without overlap;
* a file that is moved or replaced between a job's stat and its read keeps an error or other bytes'
  text under its right size and mtime (`torn` in `IndexWatcher`).

## What is proved

TLAPS checks every theorem for all values of the constants that satisfy the modules' named
assumptions: any number of identities, jobs, requests, processes, objects, workers, operations,
connections and contents, and any bounds on faults, writes and time.

| Theorem | Statement |
|---|---|
| `RequestProofs!JobTypesHold`, `SlotAccounting`, `WorkConservation`, `NoUnsettledJobIsDropped`, `TerminalEventsAreTrue` | `JobSpec => []JobTypeOK`, `[]SlotsMatchRunningJobs`, `[]NoIdleSlotWhileQueued`, `[]UnsettledJobsAreHeld`, `[]OnlyLateReportsPrecedeHistory` |
| `RequestProofs!RunnerIsAJobService` | `JobSpec => ImplementsJobService` |
| `RequestProofs!ChatTypesHold`, `DecisionsAreKept`, `CardsAreAnswerable` | `ChatSpec => []ChatTypeOK`, `CardsAreFinal`, `[]CardsCanBeAnswered` |
| `RequestProofs!OneConnection` | `ListenerSpec => []OneListener` |
| `RequestProofs!LeaseTypes`, `PublicationsReplaceWhatTheyProved` | the type invariant, `ReplacesWhatItProved` |
| `DesktopUploadProofs!TypeCorrectness`, `PayloadSafety`, `LosersYield`, `DecisionsAreFinal` | `[]TypeOK`, `[]PayloadPreserved`, and the two action properties |
| `DesktopBulkMoveProofs!TypeCorrectness`, `ObjectsAreSafe`, `CompletedMoves`, `RemovalIsLate` | `[]TypeOK`; `[]NoObjectLost` and `CompletedMeansMoved` if `SafeFaults`; `RemovalFollowsCopy` if nobody else writes |
| `DesktopPublishProofs!TypeCorrectness`, `RetrySafety`, `RecoverySafety`, `ConflictsAreReal` | `[]TypeOK`, `[]RetryIsSafe`, `[]CompletedIsRecoverable`, `[]ConflictIsReal`, all with late renames and foreign writes |
| `DesktopPublishProofs!CommitsAreAtomic`, `NothingIsLost` | `ImplementsAtomicSave` and `[]NothingLost` if `Fenced` |
| `DatabaseProofs!EffectTypesHold`, `EffectsAreInOrder`, `EventsFollowMetadata`, `RecoveryUndoesNothing` | the type invariant, `[]EffectsInOrder`, `[]EventFollowsMetadata`, `RecoveryKeepsNewerWork` |
| `DatabaseProofs!QueueIsAnEffectLog` | `EffectSpec => ImplementsEffectLog` |
| `DatabaseProofs!TokenTypes`, `RetriesAreFresh`, `CachedIsStored`, `RowsMoveForward` | the type invariant, `[]RetryIsFresh`, `[]CacheAgreesWithRow`, `RowMovesForward` |
| `WorkerProofs!LockTypesHold`, `OnePublicationAtATime`, `WaitersLeaveThePool` | `LockSpec => []LockTypeOK`, `[]PublishesAlone`, `RefusedOnlyBehindPublications` |
| `WorkerProofs!WopiTypes`, `GrantedLeasesAreKept`, `SavesKeepTheirLocks` | the type invariant, `[]LeasesAreKept`, `SaveKeepsItsLock` |
| `WorkerProofs!RuntimeTypes`, `WorkerStopsInTime` | `RuntimeSpec => []RuntimeTypeOK`, `[]OffWithinWindow` |
| `WorkerProofs!OcrTypesHold` | `OcrSpec => []OcrTypeOK`, with saves at any time |
| `WorkerProofs!ReplacedFilesAreKept`, `RestoresAreFinal`, `NothingSavedIsLost` | `[]OriginalsAreKept`, `RestoreStands`, `SavesSurviveRestores` if `Overlaps = {}` |
| `WorkerProofs!BackupTypesHold`, `CompleteIsVerified`, `PinnedIsKept` | the type invariant, `[]CompleteMeansVerified`, `NothingPinnedIsRemoved` |
| `WorkerProofs!IndexTypesHold`, `ScansRepair` | the type invariant, `[]ScanRepairsIndex` |
| `MCRequestsProofs!EveryPartBehaves`, `RequestsTypesHold`, `RequestsKeepTheirPromises` | `RequestsSpec` implies the specification of each of its parts, `[]RequestsTypeOK`, and every safety property of the run `requests` |
| `MCServicesProofs!EveryServiceBehaves`, `ServicesTypesHold`, `ServicesKeepTheirPromises`, `OcrKeepsItsPromises` | the same for `ServicesSpec` and the run `services`; the promises of OCR if `Overlaps = {}` |

Assumptions on constants beyond types and positive limits are only that "nobody" is nobody:
`NobodyLocks` is no Office request, `Nobody` no actor of the effects queue, and leases are not
numbers of outside changes. `SafeFaults`, `Fenced` and `Overlaps = {}` are hypotheses of the
theorems that need them, and the findings show what happens without them.

The arguments:

* **JobRunner.** A slot count that is right does not explain itself after a cancel: `JobIndInv` adds
  that a queue holds exactly the queued jobs, once each and in order (`QueuesAreExact`), that a
  count below the limit means an empty queue (`SlotsAreRefilled`), and which fields of a job go
  together (`JobsAreCoherent`). The lemmas are about the cardinality of the set of running jobs
  when one job starts or stops. Concurrency is at least one by assumption, otherwise a queue
  never starts.
* **JobService.** The mapping hides the queues, the counters, the promises and the timers:
  `owner` is the identity of each accepted job, `asked` the aborted ones, `announced` the last
  event, `listed` the map. That a finish starts the job that waited longest is `QueuesAreExact`
  (a queue is sorted, because jobs enter it at its end) with the bound on the counter (the slot
  that was freed is free). That pruning and timers drop only what was announced needs
  `SettledIsAnnounced`: a settled job whose history is written has told its outcome. That the
  service announces a job with its outcome and no other is `OnlyLateReportsPrecedeHistory`. The
  service does not see `Authorized`, nor what repeats an announcement.
  `NoIdleSlotWhileQueued` (`WorkConservation`) needs no run of its own: a JobService starts a job
  in the step that lets it, so the run that checks `ImplementsJobService` would find an idle slot.
* **DesktopUpload.** The payload is safe because an unlink is decided from a row that was read
  earlier. `Lost(a)`: an attempt that is not in the receipt and does not own the row never gets
  into the receipt again. `UnlinksAreFinal` says whoever is about to unlink has lost in this
  sense, and `RemovalsAreFinal` that whoever removes the directory has a decided row.
* **DesktopBulkMove.** `Covered`: what the source still has is listed, under way or landed while
  copying, and landed while removing. Losing an object then needs an undo, and `UndoIsSafe`
  excludes a harmful one in the two cases of `SafeFaults`: nobody cancels, or removals succeed
  and nobody else writes (`WholeOrGone`: the source is whole or gone except during a removal).
  Findings 1 and 2 are exactly the complement. `Emptied`: once a commit takes the move for done, or
  the registry has it moved, nothing of the directory is left at the source, unless an administrator
  settled it. So a commit that resumes after a crash and only completes the receipt is right to.
* **DesktopPublish.** `Control(w)` ties the step of a commit to its row, the lock and the rename;
  `Data(w)` ties the recovery copy to the base and the published file. Neither needs the storage
  to be quiet.
* **Refinement.** Assumption `Fenced`: no late renames, and other clients stay out of the proof
  window. `Fence(w)` then says that from the proof to the rename the file still is what was proved,
  through the lock for other operations and through the assumption for the rest of the world. The
  step theorem splits on the action: all but the rename, `Prepare`, a conflict and foreign writes
  are stutters of `AtomicSave` (`Quiet`), a rename is `Save`, `Create` or `Trash`. Both halves of
  the assumption are needed: with `Racy` set, or with late renames among the faults, TLC finds a
  lost version in the instance of `publish_fenced`.
* **PublishLock.** A caller publishes because its session got the advisory lock, which says nothing
  of sessions that share a connection or outlive it. The invariant: no two callers keep one
  connection, no two connections have one identity's lock, a connection in the pool has none, and
  who publishes has the lock as long as its session lives. An unlock that fails keeps the third
  part because the connection is destroyed.
  That a waiter is only refused behind publications needs that every connection of a full pool is
  kept by a publisher, which is why a waiting call gives its connection back between two polls.
* **WebdavLease.** A request to lock arrives once at most, before anything is proved under its lease.
  So whoever has the lock of the path has had it since its proof, and meanwhile only its own
  publication reaches the path; one that arrives after its lock has ended is refused.
* **WopiLocks.** A request holds the lock of its file from before it reads the row to its end, and the
  rows that others prune meanwhile are over and stay so: during a save that is the only change of
  its row. What it decides on is therefore the row, or
  it and the row grant nothing any more.
* **TokenSource.** A change (clear or prime) outdates every load and store that came before it: an
  outdated one neither fills the cache nor begins to write, and what still writes is of no older
  version than what has written. Nothing orders the tokens themselves, because a sign-in primes late.
  While a refused call asks again, neither row, cache, chain nor a load whose token it may be handed
  holds one of the tokens the source had at the refusal: it was cleared of them, and what comes
  later was minted later or is primed, and the token of a sign-in that has not primed it was in
  nobody else's hands.
* **DesktopEffects.** What an actor knows while it holds the identity of its job: only its own steps
  change the state of that identity's jobs, none before its own is pending, and the rows it locked, or
  found missing, stay as they are. Hence order, and hence the move commits what was checked.
* **EffectLog.** The mapping keeps `metadata`, `revision` and `account` and drops from a job its delay,
  its attention and the announcements it lost. The step theorem splits on the action: taking and
  losing locks, selecting, claiming, checking, putting off and crashing are stutters; `MoveRows`,
  `PublishEvent` and `SettleEffect` are `Apply`, `Tell` and `Conclude` or `Retire`. That these act for
  the account that wrote the file needs one more invariant, `AccountsKnown`: whoever applies,
  announces or settles a job has compared the accounts while it held the identity, and linking the
  identity to another account waits for that lock. `RecoveryKeepsNewerWork` (`RecoveryUndoesNothing`)
  is what `Apply` says of rows, so it has no run of its own.
* **RuntimeWorker.** A worker nobody wants was started from a document that wanted it, so the time
  since nobody wants it is at most the time since the last good document, and the controller gives
  that document up within the window.
* **OcrOriginals.** From the check of a rewrite to its swap the file is what was checked, the kept
  original is that file, and its sidecar is written before the swap; a crash between any two leaves
  the file as it was. That users do not save in between is the assumption `Overlaps = {}`, and
  finding 5 is what happens without it.
* **IndexerListener.** Which connections may be open follows from where `establish` is: before the
  old one is closed, between, or after the new one is there; and `stop` waits for that promise.
* **BackupEngine.** While there is one archive of the run, the object at a destination stays what it
  became when it was first put there, so what a worker found delivered on its way through the
  destinations is still so at the end. That the delivery's row says so too needs one worker to execute
  alone, which is true until one loses its lock at work.
* **IndexWatcher.** Rows are honest: a row that names the version on disk has its digest, and its
  text or the error its reading ended in, unless a job is at it, has raised or the file was torn.
  One reader per file. A scan during which the watcher has nothing to do is clean, and then each
  file it has passed waits for the scan's worker, is at it or is right, while its manifest tells the
  truth of the files ahead.
* **AiChat.** `SoloInv`, while requests do not meet: one request and one reply are at work at most, a
  request beyond its stop is alone, and what it has read of a reply has every decision made since. A
  write of the whole parts therefore changes no decision. Calls need `Fresh`: one that was not seen to
  shows no card anywhere. `AloneInv`, while nothing meets a request, adds where a call without a
  result is: with the reply that sees to it (`Going`), with the conversation that waits for it or
  holds its result back (`Resting`), or with the request that has collected it (`Sending`) or answers
  it (`Answering`); and that a conversation is in memory only if there is a reply to go on from
  (`Continued`). The provider is asked by a reply that has handed in all of them. Both invariants
  survive a restart because a restart leaves no conversation in memory.

* **Compositions.** The parts of `MCRequests` and `MCServices` share no variable, and one of them
  moves: a behaviour of the composition is one of each part, which steps or stands still. So all
  that was proved of the parts holds there, for all values of the constants and not only those of
  the runs.

Only model-checked: everything temporal (`EveryRequestSettles`, `EveryServiceSettles`,
`RetriesConverge`) with the fairness it rests on, which is out of the prover's reach. The chat's
theorems say nothing of requests that meet; finding 7 and the last list above are about them.

## Plan

Left to model, the more valuable first:

1. `DesktopPublish`: save with rename, plain moves and restores, and two requests of one operation;
   storages with a write lease there, on top of what `WebdavLease` establishes.
2. `RecycleTrash` (check, then move on a storage that overwrites), `Shares` (limits before and after
   the call), `ActivityLog` (sequences without holes), `LoginLimiter`, `DesktopPairing`.
3. Backups: schedules, verification and restore; chats: several of one person, deletion.
4. `DesktopLedger`: an abstract life cycle of the row, implemented by `DesktopUpload`,
   `DesktopPublish` and `DesktopBulkMove`; a mutex implemented by `PublishLock`.

Every safety property of the runs is proved. Theorems left: the refinements of (4).

## Not modelled

The components marked - above, for the reasons in `PROJECT.json`. In short: parts whose
behaviour is one database transaction or one storage call per request, pure functions and
presentation are of little interest to a model checker; the others are in the plan. Most of the
repository's lines are of that kind: routes, schemas, adapters, React components, tests and Swift
views. What is left out of a component that is modelled is said with its module.
