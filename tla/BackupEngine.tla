----------------------------- MODULE BackupEngine -----------------------------
(***************************************************************************)
(* The life of one backup run: the worker's tick that captures an archive  *)
(* and delivers it (packages/backup/src/engine.ts), the row it keeps in    *)
(* PostgreSQL (store.ts), and what the owner does to it meanwhile          *)
(* (apps/api/src/backups/routes.ts).  Several processes may run a worker;  *)
(* a session advisory lock makes one of them the worker.                   *)
(*                                                                         *)
(* An await is a step boundary, with two exceptions: the look at one       *)
(* object, its put and its reading back are one step (a failure after the  *)
(* put is a step of its own), and so are the sweep's look at the run and   *)
(* its removal of the file.  A capture is its number: equal numbers mean   *)
(* equal bytes.  remove() is the owner's deletion or the retention after   *)
(* another run.  A tick that finds nothing to do is left out.              *)
(***************************************************************************)
EXTENDS Naturals

CONSTANTS
    WorkerCount,     \* processes that run a worker
    DeliveryCount,   \* destinations the run is delivered to
    MaxCaptures,     \* bound: archives captured, a further capture fails
    MaxAsks,         \* bound: what the owner asks of the run
    MaxTrouble       \* bound: crashes, lost locks, calls that fail, timeouts

ASSUME BackupAssumption ==
    {WorkerCount, DeliveryCount, MaxCaptures, MaxAsks, MaxTrouble} \subseteq Nat

BackupWorkers == 1 .. WorkerCount

NoWorker == 0

(* In the order of their names.                                            *)
Destinations == 1 .. DeliveryCount

First(left) == CHOOSE d \in left : \A other \in left : d <= other

InProgress == {"queued", "capturing", "transferring"}

RunStates == InProgress \union {"absent", "complete", "partial", "failed", "cancelled"}

(* Steps of execute, in which the watcher and the lock's error abort.      *)
Executing == {"prepare", "capture", "record", "list", "deliver", "marker",
              "finish", "settle"}

WorkerSteps == Executing \union {"idle", "recover", "claim", "verify",
                                 "clean", "erase", "erased", "sweep"}

(***************************************************************************)
(* backup: the row of the run; lease: who claimed it last, for a worker has*)
(* one claim at a time.  sha: the capture its sha256 is of.  delivery,     *)
(* keyed: state of each delivery row, and those with an object_key.        *)
(* spool, remote: the capture in the local file and at each destination,   *)
(* 0 if there is none.                                                     *)
(* engine: per process its step, what it was told and what it has to do.   *)
(* rowLock: the transaction of lockRun under way.  removal: of remove.     *)
(* pendingAsk: cancel and retry requests that have read the row.           *)
(* expired: the run is more than 24 hours old.                             *)
(* lost, removed: history, a worker lost its lock while executing, and a   *)
(* removal has begun.                                                      *)
(***************************************************************************)
VARIABLES
    backup, delivery, keyed, spool, remote, workerLock, engine, rowLock,
    removal, pendingAsk, expired, captures, lost, removed, asks, trouble

backupVars == <<backup, delivery, keyed, spool, remote, workerLock, engine, rowLock,
                removal, pendingAsk, expired, captures, lost, removed, asks, trouble>>

backupBounds == <<captures, lost, removed, asks, trouble>>

owners == <<removal, pendingAsk, expired>>

Resting == [step |-> "idle", aborted |-> FALSE, failed |-> FALSE, left |-> {}]

NoRemoval == [step |-> "idle", left |-> {}, retained |-> FALSE]

BackupInit ==
    /\ backup = [state |-> "absent", lease |-> NoWorker, artifact |-> FALSE, sha |-> 0,
                 pinned |-> FALSE]
    /\ delivery = [d \in Destinations |-> "pending"]
    /\ keyed = {}
    /\ spool = 0
    /\ remote = [d \in Destinations |-> 0]
    /\ workerLock = NoWorker
    /\ engine = [w \in BackupWorkers |-> Resting]
    /\ rowLock = "free"
    /\ removal = NoRemoval
    /\ pendingAsk = {}
    /\ expired = FALSE
    /\ captures = 0 /\ lost = FALSE /\ removed = FALSE
    /\ asks = 0 /\ trouble = 0

Trouble ==
    /\ trouble < MaxTrouble
    /\ trouble' = trouble + 1
    /\ UNCHANGED <<captures, lost, removed, asks>>

Enters(w, step) == engine' = [engine EXCEPT ![w].step = step]

GoesOn(w) == engine' = [engine EXCEPT ![w] = [Resting EXCEPT !.step = "verify"]]

(* store.queue, by the owner or the schedule.                              *)
QueueRun ==
    /\ backup.state = "absent"
    /\ backup' = [backup EXCEPT !.state = "queued"]
    /\ UNCHANGED <<delivery, keyed, spool, remote, workerLock, engine, rowLock,
                   owners, backupBounds>>

-----------------------------------------------------------------------------
(***************************************************************************)
(* tick.  Only the holder of the lock recovers what a worker before it     *)
(* left; a query on the lock's connection fails once that is lost.  Idle   *)
(* workers are alike, and the first of them takes the lock.                *)
(***************************************************************************)
Spoiled == spool # 0 /\ expired /\ ~backup.pinned /\ backup.state \notin InProgress

FirstIdle == CHOOSE w \in BackupWorkers :
    /\ engine[w].step = "idle"
    /\ \A other \in BackupWorkers : engine[other].step = "idle" => w <= other

TickBegins(w) ==
    /\ engine[w].step = "idle" /\ workerLock = NoWorker
    /\ w = FirstIdle
    /\ backup.state \in InProgress \/ Spoiled
    /\ workerLock' = w
    /\ Enters(w, "recover")
    /\ UNCHANGED <<backup, delivery, keyed, spool, remote, rowLock, owners, backupBounds>>

Abandoned(state) == state \in {"capturing", "transferring"}

RecoversAbandoned(w) ==
    /\ engine[w].step = "recover" /\ workerLock = w /\ rowLock = "free"
    /\ backup' = [backup EXCEPT !.state =
                     IF ~Abandoned(@) THEN @
                     ELSE IF backup.artifact THEN "queued" ELSE "failed"]
    /\ Enters(w, "claim")
    /\ UNCHANGED <<delivery, keyed, spool, remote, workerLock, rowLock, owners, backupBounds>>

Claims(w) ==
    /\ engine[w].step = "claim" /\ workerLock = w /\ rowLock = "free"
    /\ backup.state = "queued"
    /\ backup' = [backup EXCEPT !.lease = w]
    /\ Enters(w, IF backup.artifact THEN "list" ELSE "prepare")
    /\ UNCHANGED <<delivery, keyed, spool, remote, workerLock, rowLock, owners, backupBounds>>

NothingQueued(w) ==
    /\ engine[w].step = "claim" /\ workerLock = w
    /\ backup.state # "queued"
    /\ GoesOn(w)
    /\ UNCHANGED <<backup, delivery, keyed, spool, remote, workerLock, rowLock,
                   owners, backupBounds>>

LockIsGone(w) ==
    /\ engine[w].step \in {"recover", "claim", "verify"} /\ workerLock # w
    /\ engine' = [engine EXCEPT ![w] = Resting]
    /\ UNCHANGED <<backup, delivery, keyed, spool, remote, workerLock, rowLock,
                   owners, backupBounds>>

-----------------------------------------------------------------------------
(***************************************************************************)
(* setRun with the worker's lease: without effect on another one's run.    *)
(***************************************************************************)
RunSet(w, values) ==
    /\ rowLock = "free"
    /\ backup' = IF backup.lease = w THEN values ELSE backup

Prepares(w) ==
    /\ engine[w].step = "prepare"
    /\ RunSet(w, [backup EXCEPT !.state = "capturing"])
    /\ Enters(w, "capture")
    /\ UNCHANGED <<delivery, keyed, spool, remote, workerLock, rowLock, owners, backupBounds>>

(* captureSnapshot links its output, and never over a file that is there.  *)
Captures(w) ==
    /\ engine[w].step = "capture" /\ ~engine[w].aborted
    /\ spool = 0 /\ captures < MaxCaptures
    /\ captures' = captures + 1
    /\ spool' = captures + 1
    /\ Enters(w, "record")
    /\ UNCHANGED <<backup, delivery, keyed, remote, workerLock, rowLock, owners,
                   lost, removed, asks, trouble>>

CaptureFails(w) ==
    /\ engine[w].step \in {"prepare", "capture"}
    /\ IF engine[w].step = "capture"
          /\ (engine[w].aborted \/ spool # 0 \/ captures = MaxCaptures)
       THEN UNCHANGED backupBounds
       ELSE Trouble
    /\ Enters(w, "settle")
    /\ UNCHANGED <<backup, delivery, keyed, spool, remote, workerLock, rowLock, owners>>

RecordsArchive(w) ==
    /\ engine[w].step = "record"
    /\ RunSet(w, [backup EXCEPT !.state = "transferring", !.artifact = TRUE,
                                !.sha = spool])
    /\ Enters(w, "list")
    /\ UNCHANGED <<delivery, keyed, spool, remote, workerLock, rowLock, owners, backupBounds>>

(* A delivery that is complete is not made again.                          *)
ToDeliver_Pending == {d \in Destinations : delivery[d] = "pending"}

ToDeliver == {d \in Destinations : delivery[d] # "complete"}

ListsDeliveries(w) ==
    /\ engine[w].step = "list"
    /\ engine' = [engine EXCEPT ![w].step = "deliver", ![w].left = ToDeliver]
    /\ UNCHANGED <<backup, delivery, keyed, spool, remote, workerLock, rowLock,
                   owners, backupBounds>>

(***************************************************************************)
(* One destination: the archive's digest is checked, the object put and    *)
(* read back.  One with other bytes that is there is removed first.        *)
(***************************************************************************)
Puts(w) ==
    LET d == First(engine[w].left) IN
    /\ engine[w].step = "deliver" /\ ~engine[w].aborted
    /\ engine[w].left # {}
    /\ spool # 0 /\ spool = backup.sha
    /\ remote' = [remote EXCEPT ![d] = IF @ \in {0, spool} THEN spool ELSE 0]
    /\ engine' = [engine EXCEPT ![w].step =
                     IF remote[d] \in {0, spool} THEN "marker" ELSE @]
    /\ UNCHANGED <<backup, delivery, keyed, spool, workerLock, rowLock, owners, backupBounds>>

(* The completion marker is there too, then the row.                       *)
Delivers(w) ==
    /\ engine[w].step = "marker" /\ ~engine[w].aborted
    /\ delivery' = [delivery EXCEPT ![First(engine[w].left)] = "complete"]
    /\ keyed' = keyed \union {First(engine[w].left)}
    /\ engine' = [engine EXCEPT ![w].step = "deliver", ![w].left = @ \ {First(@)}]
    /\ UNCHANGED <<backup, spool, remote, workerLock, rowLock, owners, backupBounds>>

(* The error of one destination is recorded and the next one tried.        *)
DeliveryFails(w) ==
    /\ engine[w].step = "marker" \/ (engine[w].step = "deliver" /\ engine[w].left # {})
    /\ IF engine[w].aborted \/ spool = 0 \/ spool # backup.sha
       THEN UNCHANGED backupBounds
       ELSE Trouble
    /\ delivery' = [delivery EXCEPT ![First(engine[w].left)] = "failed"]
    /\ engine' = [engine EXCEPT ![w].step = IF engine[w].aborted THEN "settle" ELSE "deliver",
                                ![w].failed = TRUE, ![w].left = @ \ {First(@)}]
    /\ UNCHANGED <<backup, keyed, spool, remote, workerLock, rowLock, owners>>

(* Gaps in what was captured make it partial as well.                      *)
Outcomes(w) == {"partial"} \union (IF engine[w].failed THEN {} ELSE {"complete"})

Finishes(w) ==
    /\ engine[w].step = "deliver" /\ engine[w].left = {} /\ ~engine[w].aborted
    /\ \E outcome \in Outcomes(w) : RunSet(w, [backup EXCEPT !.state = outcome])
    /\ GoesOn(w)
    /\ UNCHANGED <<delivery, keyed, spool, remote, workerLock, rowLock, owners, backupBounds>>

StopsDelivering(w) ==
    /\ engine[w].step = "deliver" /\ engine[w].aborted
    /\ Enters(w, "settle")
    /\ UNCHANGED <<backup, delivery, keyed, spool, remote, workerLock, rowLock,
                   owners, backupBounds>>

Settles(w) ==
    /\ engine[w].step = "settle"
    /\ RunSet(w, [backup EXCEPT !.state =
                     IF engine[w].aborted THEN "cancelled" ELSE "failed"])
    /\ GoesOn(w)
    /\ UNCHANGED <<delivery, keyed, spool, remote, workerLock, rowLock, owners, backupBounds>>

(***************************************************************************)
(* The watcher finds the run cancelled or claimed again, the lock's        *)
(* connection reports an error, or the run takes too long.                 *)
(***************************************************************************)
EndsAborted(w) ==
    /\ engine[w].step \in Executing /\ ~engine[w].aborted
    /\ \/ /\ \/ workerLock # w \/ backup.state = "cancelled"
             \/ backup.lease # w
          /\ UNCHANGED backupBounds
       \/ Trouble
    /\ engine' = [engine EXCEPT ![w].aborted = TRUE]
    /\ UNCHANGED <<backup, delivery, keyed, spool, remote, workerLock, rowLock, owners>>

-----------------------------------------------------------------------------
(* The verification that was asked for, which only reads, is left out.     *)
LooksForVerification(w) ==
    /\ engine[w].step = "verify" /\ workerLock = w
    /\ Enters(w, "clean")
    /\ UNCHANGED <<backup, delivery, keyed, spool, remote, workerLock, rowLock,
                   owners, backupBounds>>

(***************************************************************************)
(* cleanSpool, which asks nothing of the lock: the file of a run a day old,*)
(* with the row locked and read once more, then a file no run refers to.   *)
(* A row that stays locked for ten seconds ends the tick.                  *)
(***************************************************************************)
MayErase_Unchecked == backup.artifact /\ expired

MayErase ==
    backup.artifact /\ expired /\ ~backup.pinned /\ backup.state \notin InProgress

LocksSpool(w) ==
    /\ engine[w].step = "clean" /\ rowLock = "free"
    /\ MayErase
    /\ rowLock' = "spool"
    /\ Enters(w, "erase")
    /\ UNCHANGED <<backup, delivery, keyed, spool, remote, workerLock, owners, backupBounds>>

ErasesSpool(w) ==
    /\ engine[w].step = "erase"
    /\ spool' = 0
    /\ Enters(w, "erased")
    /\ UNCHANGED <<backup, delivery, keyed, remote, workerLock, rowLock, owners, backupBounds>>

RecordsErasure(w) ==
    /\ engine[w].step = "erased"
    /\ backup' = [backup EXCEPT !.artifact = FALSE]
    /\ rowLock' = "free"
    /\ Enters(w, "sweep")
    /\ UNCHANGED <<delivery, keyed, spool, remote, workerLock, owners, backupBounds>>

TickEnds(w) ==
    /\ \/ engine[w].step = "sweep"
       \/ engine[w].step = "clean" /\ (~MayErase \/ rowLock # "free")
    /\ spool' = IF Spoiled /\ ~backup.artifact THEN 0 ELSE spool
    /\ workerLock' = IF workerLock = w THEN NoWorker ELSE workerLock
    /\ engine' = [engine EXCEPT ![w] = Resting]
    /\ UNCHANGED <<backup, delivery, keyed, remote, rowLock, owners, backupBounds>>

WorkerStep(w) ==
    \/ TickBegins(w) \/ RecoversAbandoned(w) \/ Claims(w) \/ NothingQueued(w)
    \/ LockIsGone(w) \/ Prepares(w) \/ Captures(w) \/ CaptureFails(w)
    \/ RecordsArchive(w) \/ ListsDeliveries(w) \/ Delivers(w) \/ Finishes(w)
    \/ StopsDelivering(w) \/ Settles(w) \/ EndsAborted(w)
    \/ LooksForVerification(w) \/ LocksSpool(w) \/ ErasesSpool(w) \/ RecordsErasure(w)
    \/ Puts(w) \/ DeliveryFails(w) \/ TickEnds(w)

(***************************************************************************)
(* The process dies, or only the connection that holds its lock.           *)
(***************************************************************************)
Freed(w) == workerLock' = IF workerLock = w THEN NoWorker ELSE workerLock

WorkerDies(w) ==
    /\ engine[w].step # "idle"
    /\ Trouble
    /\ Freed(w)
    /\ rowLock' = IF engine[w].step \in {"erase", "erased"} THEN "free" ELSE rowLock
    /\ engine' = [engine EXCEPT ![w] = Resting]
    /\ UNCHANGED <<backup, delivery, keyed, spool, remote, owners>>

LosesLock(w) ==
    /\ workerLock = w /\ trouble < MaxTrouble
    /\ trouble' = trouble + 1
    /\ lost' = (lost \/ engine[w].step \in Executing)
    /\ Freed(w)
    /\ UNCHANGED <<backup, delivery, keyed, spool, remote, engine, rowLock, owners,
                   captures, removed, asks>>

-----------------------------------------------------------------------------
(***************************************************************************)
(* The owner.  Cancelling and retrying read the row and write it later,    *)
(* without a lease.                                                        *)
(***************************************************************************)
OwnerAsks ==
    /\ asks < MaxAsks
    /\ asks' = asks + 1
    /\ UNCHANGED <<captures, lost, removed, trouble>>

Cancellable == backup.state \in InProgress

Retryable == backup.artifact /\ backup.state \in {"partial", "failed"}

OwnerReads(ask) ==
    /\ ask \notin pendingAsk
    /\ IF ask = "cancel" THEN Cancellable ELSE Retryable
    /\ OwnerAsks
    /\ pendingAsk' = pendingAsk \union {ask}
    /\ UNCHANGED <<backup, delivery, keyed, spool, remote, workerLock, engine,
                   rowLock, removal, expired>>

OwnerWrites(ask) ==
    /\ ask \in pendingAsk /\ rowLock = "free"
    /\ backup' = [backup EXCEPT !.state = IF ask = "cancel" THEN "cancelled" ELSE "queued"]
    /\ pendingAsk' = pendingAsk \ {ask}
    /\ UNCHANGED <<delivery, keyed, spool, remote, workerLock, engine, rowLock,
                   removal, expired, backupBounds>>

Kept == backup.artifact \/ \E d \in Destinations : delivery[d] = "complete"

(* pin, in a transaction that locks the row.                               *)
Pins(pinned) ==
    /\ rowLock = "free" /\ backup.state # "absent"
    /\ pinned => Kept
    /\ backup.pinned # pinned
    /\ OwnerAsks
    /\ backup' = [backup EXCEPT !.pinned = pinned]
    /\ UNCHANGED <<delivery, keyed, spool, remote, workerLock, engine, rowLock, owners>>

-----------------------------------------------------------------------------
(***************************************************************************)
(* remove: while the row is locked, every copy that has an object key with *)
(* its marker, then the file.                                              *)
(***************************************************************************)
MayRemove == ~backup.pinned /\ backup.state \notin InProgress

RemovalBegins ==
    /\ rowLock = "free" /\ backup.state # "absent" /\ MayRemove
    /\ asks < MaxAsks /\ asks' = asks + 1
    /\ removed' = TRUE
    /\ rowLock' = "removal"
    /\ removal' = [step |-> "copy", retained |-> FALSE,
                   left |-> {d \in keyed : delivery[d] # "deleted"}]
    /\ UNCHANGED <<backup, delivery, keyed, spool, remote, workerLock, engine,
                   pendingAsk, expired, captures, lost, trouble>>

RemovesCopy ==
    LET d == First(removal.left) IN
    /\ removal.step = "copy" /\ removal.left # {}
    /\ remote' = [remote EXCEPT ![d] = 0]
    /\ removal' = [removal EXCEPT !.step = "record"]
    /\ UNCHANGED <<backup, delivery, keyed, spool, workerLock, engine, rowLock,
                   pendingAsk, expired, backupBounds>>

RecordsRemoval ==
    LET d == First(removal.left) IN
    /\ removal.step = "record"
    /\ delivery' = [delivery EXCEPT ![d] = "deleted"]
    /\ removal' = [removal EXCEPT !.step = "copy", !.left = @ \ {d}]
    /\ UNCHANGED <<backup, keyed, spool, remote, workerLock, engine, rowLock,
                   pendingAsk, expired, backupBounds>>

(* Under retention: the copy stays and the others go on.                   *)
CopyIsRetained ==
    LET d == First(removal.left) IN
    /\ removal.step = "copy" /\ removal.left # {}
    /\ Trouble
    /\ removal' = [removal EXCEPT !.left = @ \ {d}, !.retained = TRUE]
    /\ UNCHANGED <<backup, delivery, keyed, spool, remote, workerLock, engine,
                   rowLock, pendingAsk, expired>>

RemovesFile ==
    /\ removal.step = "copy" /\ removal.left = {} /\ ~removal.retained
    /\ spool' = IF backup.artifact THEN 0 ELSE spool
    /\ removal' = [removal EXCEPT !.step = "commit"]
    /\ UNCHANGED <<backup, delivery, keyed, remote, workerLock, engine, rowLock,
                   pendingAsk, expired, backupBounds>>

RemovalEnds ==
    /\ \/ removal.step = "commit"
       \/ removal.step = "copy" /\ removal.left = {} /\ removal.retained
    /\ backup' = IF removal.retained THEN backup ELSE [backup EXCEPT !.artifact = FALSE]
    /\ rowLock' = "free" /\ removal' = NoRemoval
    /\ UNCHANGED <<delivery, keyed, spool, remote, workerLock, engine,
                   pendingAsk, expired, backupBounds>>

(* A call fails or the process dies: the transaction is rolled back.       *)
RemovalFails ==
    /\ removal.step # "idle"
    /\ Trouble
    /\ rowLock' = "free" /\ removal' = NoRemoval
    /\ UNCHANGED <<backup, delivery, keyed, spool, remote, workerLock, engine,
                   pendingAsk, expired>>

DayPasses ==
    /\ ~expired /\ spool # 0 /\ backup.state \notin InProgress
    /\ expired' = TRUE
    /\ UNCHANGED <<backup, delivery, keyed, spool, remote, workerLock, engine, rowLock,
                   removal, pendingAsk, backupBounds>>

RemovalStep ==
    RemovesCopy \/ RecordsRemoval \/ RemovesFile \/ RemovalEnds

OwnerStep == \E ask \in {"cancel", "retry"} : OwnerWrites(ask)

BackupNext ==
    \/ QueueRun \/ DayPasses
    \/ \E w \in BackupWorkers : WorkerStep(w) \/ WorkerDies(w) \/ LosesLock(w)
    \/ \E ask \in {"cancel", "retry"} : OwnerReads(ask)
    \/ \E pinned \in BOOLEAN : Pins(pinned)
    \/ OwnerStep \/ RemovalBegins \/ RemovalStep
    \/ RemovalFails \/ CopyIsRetained

(* The workers tick for ever, and queries and storage calls end.           *)
BackupWork == RemovalStep \/ OwnerStep \/ \E w \in BackupWorkers : WorkerStep(w)

BackupFairness == WF_backupVars(BackupWork)

BackupSpec == BackupInit /\ [][BackupNext]_backupVars

BackupFairSpec == BackupSpec /\ BackupFairness

-----------------------------------------------------------------------------
(***************************************************************************)
(* Every part has its type, and the row is locked by who works in it.      *)
(***************************************************************************)
BackupTypeOK ==
    /\ backup.state \in RunStates
    /\ {backup.artifact, backup.pinned} \subseteq BOOLEAN
    /\ delivery \in [Destinations -> {"pending", "complete", "failed", "deleted"}]
    /\ keyed \subseteq Destinations
    /\ {spool, backup.sha} \subseteq 0 .. MaxCaptures
    /\ remote \in [Destinations -> 0 .. MaxCaptures]
    /\ workerLock \in BackupWorkers \union {NoWorker}
    /\ \A w \in BackupWorkers : engine[w].step \in WorkerSteps
    /\ rowLock = "removal" <=> removal.step # "idle"
    /\ rowLock = "spool" <=> \E w \in BackupWorkers : engine[w].step \in {"erase", "erased"}
    /\ pendingAsk \subseteq {"cancel", "retry"}

(***************************************************************************)
(* "complete means all selected destinations verified": whatever stopped   *)
(* and was resumed, each destination has the archive of the run until the  *)
(* backup is deleted, and says so unless a worker lost its lock at work.   *)
(* Stated for a run that was captured once.                                *)
(***************************************************************************)
CompleteMeansVerified ==
    backup.state = "complete" /\ ~removed /\ captures = 1 =>
        \A d \in Destinations :
            remote[d] = backup.sha /\ (lost \/ delivery[d] = "complete")

(***************************************************************************)
(* A backup the owner keeps loses neither its file nor a verified copy: a  *)
(* deletion, the retention or the spool's cleaning that chose it before    *)
(* does not go on after the pin.                                           *)
(***************************************************************************)
NothingPinnedIsRemoved ==
    [][backup.pinned /\ captures = 1 =>
          /\ backup.artifact /\ spool # 0 => spool' = spool
          /\ \A d \in Destinations : delivery[d] = "complete" /\ remote[d] # 0 => remote'[d] = remote[d]]_backupVars

(* Every run that was asked for comes to an end, and so does every lock.   *)
BackupSettles ==
    <>[](backup.state \notin InProgress /\ rowLock = "free" /\ workerLock = NoWorker)
=============================================================================
