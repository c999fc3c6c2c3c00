---------------------------- MODULE DesktopBulkMove ----------------------------
(***************************************************************************)
(* The move of a directory on a backend that has no rename (S3): every     *)
(* object is copied, then every source object removed, outside the publish *)
(* lock, for minutes.  The commit of one native operation with its         *)
(* reservation, progress ticks, cancellation, undo, retries and recovery,  *)
(* from commit(), cancel() and resolve() in                                *)
(* apps/api/src/desktop/writes.ts, and the storage transfer it runs, from  *)
(* packages/s3/src/storage-provider.ts.                                    *)
(*                                                                         *)
(* An object is the same name under the source and under the destination;  *)
(* its bytes are left out.  Each await is a step boundary.  The listing    *)
(* that a copy walks is one page.  At most one tick is under way.          *)
(***************************************************************************)
EXTENDS Naturals, FiniteSets

CONSTANTS
    Objects,          \* what the source directory holds when the move starts
    Newcomers,        \* what other clients may add to either directory
    Requests,         \* commit requests for the operation
    CopyConcurrency,  \* COPY_CONCURRENCY
    Faults,           \* what the environment may do, see below
    MaxFailures,      \* bound: failures and crashes in one behaviour
    None

FaultKinds == {"storage", "removal", "crash", "cancel", "resolve", "newcomer"}

ASSUME BulkMoveAssumption ==
    /\ Objects # {} /\ Objects \cap Newcomers = {}
    /\ CopyConcurrency \in Nat \ {0}
    /\ Faults \subseteq FaultKinds
    /\ MaxFailures \in Nat

(***************************************************************************)
(* source, dest: the objects under the two directories.                    *)
(* path: where the registry has the item, "from" or "to".                  *)
(* row: the operation's state, and in its result whether bulkTarget and    *)
(* bulkCancelled are set.                                                  *)
(* read: what a commit request read of a ready row, or None.               *)
(* pc, op: the step of the commit under way and the result it read.        *)
(* batch, inflight: objects listed and not begun, and copies under way.    *)
(* stray: copies still to be made by workers of a transfer that has thrown.*)
(* aborted: the AbortSignal of the transfer under way.                     *)
(* tick: the progress tick under way: its step, the result it read, and    *)
(* whether its own transfer is still the one under way.                    *)
(* asking: what a cancel request has read of the row, or None.             *)
(***************************************************************************)
VARIABLES
    source, dest, path, row, read, pc, op, batch, inflight, stray,
    aborted, tick, asking, failures

storage == <<source, dest>>
copier == <<batch, inflight, stray, aborted>>
vars == <<storage, path, row, read, pc, op, copier, tick, asking, failures>>

Results == [reserved : BOOLEAN, cancelled : BOOLEAN]

Unset == [reserved |-> FALSE, cancelled |-> FALSE]

States == {"ready", "committing", "conflict", "completed", "cancelled"}

Steps == {"idle", "decide", "transfer", "copy", "remove", "finish", "complete",
          "undo", "empty", "withdraw", "fail", "refuse"}

NoTick == [step |-> "none", result |-> Unset, mine |-> FALSE]

Init ==
    /\ source = Objects /\ dest = {}
    /\ path = "from"
    /\ row = [state |-> "ready", result |-> Unset]
    /\ read = [r \in Requests |-> None]
    /\ pc = "idle" /\ op = Unset
    /\ batch = {} /\ inflight = {} /\ stray = {} /\ aborted = FALSE
    /\ tick = NoTick
    /\ asking = None
    /\ failures = 0

Fault(kind) ==
    /\ kind \in Faults
    /\ failures < MaxFailures
    /\ failures' = failures + 1

-----------------------------------------------------------------------------
(* commit: read the operation, then take it from ready to committing.      *)
ReadOperation(r) ==
    /\ read[r] = None
    /\ row.state = "ready"
    /\ read' = [read EXCEPT ![r] = row.result]
    /\ UNCHANGED <<storage, path, row, pc, op, copier, tick, asking, failures>>

Claim(r) ==
    /\ read[r] # None
    /\ row.state = "ready"
    /\ row' = [row EXCEPT !.state = "committing"]
    /\ op' = read[r]
    /\ read' = [read EXCEPT ![r] = None]
    /\ pc' = "decide"
    /\ aborted' = FALSE
    /\ UNCHANGED <<storage, path, batch, inflight, stray, tick, asking, failures>>

ClaimRefused(r) ==
    /\ read[r] # None
    /\ row.state # "ready"
    /\ read' = [read EXCEPT ![r] = None]
    /\ UNCHANGED <<storage, path, row, pc, op, copier, tick, asking, failures>>

-----------------------------------------------------------------------------
(***************************************************************************)
(* The decision, ending in the publication lock.  A reserved move is       *)
(* finished already when the registry, or storage, no longer has the       *)
(* source.  A fresh one needs a free destination and reserves it; a stale  *)
(* read that misses the reservation finds the destination taken, or the    *)
(* item's metadata changed, and that is a conflict.                        *)
(***************************************************************************)
AlreadyMoved_Reserved == op.reserved

AlreadyMoved_Registry == op.reserved /\ path = "to"

AlreadyMoved == op.reserved /\ (path = "to" \/ source = {})

DecideMoved ==
    /\ pc = "decide"
    /\ AlreadyMoved
    /\ pc' = "finish"
    /\ UNCHANGED <<storage, path, row, read, op, copier, tick, asking, failures>>

DecideResume ==
    /\ pc = "decide"
    /\ op.reserved /\ ~AlreadyMoved
    /\ pc' = "transfer"
    /\ UNCHANGED <<storage, path, row, read, op, copier, tick, asking, failures>>

DecideReserve ==
    /\ pc = "decide"
    /\ ~op.reserved
    /\ path = "from" /\ source # {} /\ dest = {}
    /\ IF row.state = "committing"
       THEN /\ row' = [row EXCEPT !.result = [op EXCEPT !.reserved = TRUE]]
            /\ pc' = "transfer"
       ELSE /\ row' = row
            /\ pc' = "fail"
    /\ UNCHANGED <<storage, path, read, op, copier, tick, asking, failures>>

DecideConflict ==
    /\ pc = "decide"
    /\ ~op.reserved
    /\ path = "to" \/ (source # {} /\ dest # {})
    /\ pc' = "refuse"
    /\ UNCHANGED <<storage, path, row, read, op, copier, tick, asking, failures>>

(* The source is not where an unreserved move expects it.                  *)
DecideGone ==
    /\ pc = "decide"
    /\ ~op.reserved
    /\ path = "from" /\ source = {}
    /\ pc' = "fail"
    /\ UNCHANGED <<storage, path, row, read, op, copier, tick, asking, failures>>

-----------------------------------------------------------------------------
(***************************************************************************)
(* transfer: the source must exist, and the destination must not unless    *)
(* this resumes; then list the source.                                     *)
(***************************************************************************)
TransferStarts ==
    /\ pc = "transfer"
    /\ source # {} /\ (op.reserved \/ dest = {})
    /\ batch' = source
    /\ pc' = "copy"
    /\ UNCHANGED <<storage, path, row, read, op, inflight, stray, aborted, tick, asking,
                   failures>>

TransferRefused ==
    /\ pc = "transfer"
    /\ source = {} \/ (~op.reserved /\ dest # {})
    /\ pc' = "fail"
    /\ UNCHANGED <<storage, path, row, read, op, copier, tick, asking, failures>>

(* A worker takes the next object, unless the transfer is cancelled.       *)
CopyBegins(o) ==
    /\ pc = "copy"
    /\ o \in batch /\ ~aborted
    /\ Cardinality(inflight) < CopyConcurrency
    /\ batch' = batch \ {o}
    /\ inflight' = IF op.reserved /\ o \in dest THEN inflight ELSE inflight \union {o}
    /\ UNCHANGED <<storage, path, row, read, pc, op, stray, aborted, tick, asking, failures>>

(* CopyObject reads and writes on the server, or finds no such key.        *)
CopyOf(o) == dest' = IF o \in source THEN dest \union {o} ELSE dest

CopyLands(o) ==
    /\ o \in inflight
    /\ CopyOf(o)
    /\ inflight' = inflight \ {o}
    /\ UNCHANGED <<source, path, row, read, pc, op, batch, stray, aborted, tick, asking,
                   failures>>

(***************************************************************************)
(* A copy fails, or a worker sees the cancellation: the transfer throws at *)
(* once.  The other workers go on: the copies under way will be made, and  *)
(* the ones not begun too unless the transfer is cancelled.                *)
(***************************************************************************)
Thrown == IF aborted THEN "undo" ELSE "fail"

CopyFails(o) ==
    /\ Fault("storage")
    /\ o \in inflight
    /\ pc' = Thrown
    /\ stray' = stray \union (inflight \ {o}) \union (IF aborted THEN {} ELSE batch)
    /\ batch' = {} /\ inflight' = {}
    /\ UNCHANGED <<storage, path, row, read, op, aborted, tick, asking>>

CopyStops ==
    /\ pc = "copy"
    /\ aborted /\ batch # {} /\ Cardinality(inflight) < CopyConcurrency
    /\ pc' = "undo"
    /\ stray' = stray \union inflight
    /\ batch' = {} /\ inflight' = {}
    /\ UNCHANGED <<storage, path, row, read, op, aborted, tick, asking, failures>>

StrayLands(o) ==
    /\ o \in stray
    /\ CopyOf(o)
    /\ stray' = stray \ {o}
    /\ UNCHANGED <<source, path, row, read, pc, op, batch, inflight, aborted, tick,
                   asking, failures>>

(* deleteTree(source), once every listed object is at the destination.     *)
EveryCopyLanded_Begun == batch = {}

EveryCopyLanded == batch = {} /\ inflight = {}

CopyEnds ==
    /\ pc = "copy"
    /\ EveryCopyLanded
    /\ pc' = "remove"
    /\ UNCHANGED <<storage, path, row, read, op, copier, tick, asking, failures>>

RemoveObject(o) ==
    /\ pc = "remove"
    /\ o \in source
    /\ source' = source \ {o}
    /\ UNCHANGED <<dest, path, row, read, pc, op, copier, tick, asking, failures>>

RemoveEnds ==
    /\ pc = "remove"
    /\ source = {}
    /\ pc' = "finish"
    /\ UNCHANGED <<storage, path, row, read, op, copier, tick, asking, failures>>

RemoveFails ==
    /\ Fault("removal")
    /\ pc = "remove"
    /\ pc' = Thrown
    /\ UNCHANGED <<storage, path, row, read, op, copier, tick, asking>>

-----------------------------------------------------------------------------
(***************************************************************************)
(* A progress tick reads the operation, aborts the transfer when a cancel  *)
(* is recorded there, and writes the result back with the progress; when   *)
(* the read fails it writes what the commit had read.                      *)
(***************************************************************************)
TickStarts ==
    /\ pc = "copy"
    /\ tick.step = "none"
    /\ tick' = [step |-> "read", result |-> op, mine |-> TRUE]
    /\ UNCHANGED <<storage, path, row, read, pc, op, copier, asking, failures>>

Current == tick.mine /\ pc \in {"copy", "remove"}

TickReads ==
    /\ tick.step = "read"
    /\ tick' = [tick EXCEPT !.step = "write", !.result = row.result]
    /\ aborted' = (aborted \/ (row.result.cancelled /\ Current))
    /\ UNCHANGED <<storage, path, row, read, pc, op, batch, inflight, stray, asking, failures>>

TickCannotRead ==
    /\ Fault("storage")
    /\ tick.step = "read"
    /\ tick' = [tick EXCEPT !.step = "write"]
    /\ UNCHANGED <<storage, path, row, read, pc, op, copier, asking>>

TickWrites ==
    /\ tick.step = "write"
    /\ row' = IF row.state = "committing"
              THEN [row EXCEPT !.result = [tick.result EXCEPT !.reserved = TRUE]]
              ELSE row
    /\ tick' = NoTick
    /\ UNCHANGED <<storage, path, read, pc, op, copier, asking, failures>>

-----------------------------------------------------------------------------
(***************************************************************************)
(* undoCancelledCopy: only when the source still exists, empty the         *)
(* destination; then the operation is cancelled.                           *)
(***************************************************************************)
UndoChecks ==
    /\ pc = "undo"
    /\ pc' = IF source = {} THEN "withdraw" ELSE "empty"
    /\ UNCHANGED <<storage, path, row, read, op, copier, tick, asking, failures>>

UndoRemoves(o) ==
    /\ pc = "empty"
    /\ o \in dest
    /\ dest' = dest \ {o}
    /\ UNCHANGED <<source, path, row, read, pc, op, copier, tick, asking, failures>>

UndoEnds ==
    /\ pc = "empty"
    /\ dest = {}
    /\ pc' = "withdraw"
    /\ UNCHANGED <<storage, path, row, read, op, copier, tick, asking, failures>>

Settle(state) ==
    /\ row' = IF row.state = "committing" THEN [row EXCEPT !.state = state] ELSE row
    /\ pc' = "idle"
    /\ tick' = [tick EXCEPT !.mine = FALSE]
    /\ UNCHANGED <<storage, path, read, op, copier, asking, failures>>

Withdraw == pc = "withdraw" /\ Settle("cancelled")

(* The catch of commit: nothing was published, so it can be retried.       *)
Fails == pc = "fail" /\ Settle("ready")

Refuses == pc = "refuse" /\ Settle("conflict")

(* Any other call of the commit, or of its undo, throws.                   *)
CallFails ==
    /\ Fault("storage")
    /\ pc \in {"decide", "transfer", "finish", "complete", "undo", "empty", "withdraw"}
    /\ pc' = "fail"
    /\ UNCHANGED <<storage, path, row, read, op, copier, tick, asking>>

(* repo.move, then the receipt.                                            *)
Finish ==
    /\ pc = "finish"
    /\ path' = "to"
    /\ pc' = "complete"
    /\ UNCHANGED <<storage, row, read, op, copier, tick, asking, failures>>

Complete == pc = "complete" /\ row.state = "committing" /\ Settle("completed")

CompleteRefused ==
    /\ pc = "complete"
    /\ row.state # "committing"
    /\ pc' = "fail"
    /\ UNCHANGED <<storage, path, row, read, op, copier, tick, asking, failures>>

(* The API process stops; the row stays committing.                        *)
Crash ==
    /\ Fault("crash")
    /\ pc # "idle"
    /\ pc' = "idle"
    /\ batch' = {} /\ inflight' = {} /\ stray' = {}
    /\ tick' = NoTick
    /\ UNCHANGED <<storage, path, row, read, op, aborted, asking>>

-----------------------------------------------------------------------------
(* cancel: recorded on a copy under way, at once on an idle operation.     *)
Asks(state) == [state |-> state, result |-> row.result]

CancelReads ==
    /\ "cancel" \in Faults
    /\ asking = None
    /\ \/ row.state = "committing" /\ row.result.reserved
       \/ row.state \in {"ready", "conflict"}
    /\ asking' = Asks(row.state)
    /\ UNCHANGED <<storage, path, row, read, pc, op, copier, tick, failures>>

CancelWrites ==
    /\ asking # None
    /\ row' = IF row.state # asking.state THEN row
              ELSE IF asking.state = "committing"
              THEN [row EXCEPT !.result = [asking.result EXCEPT !.cancelled = TRUE]]
              ELSE [row EXCEPT !.state = "cancelled"]
    /\ asking' = None
    /\ UNCHANGED <<storage, path, read, pc, op, copier, tick, failures>>

(* An administrator resolves a commit that looks stalled.                  *)
ResolveDiscarded ==
    /\ "resolve" \in Faults
    /\ row.state = "committing"
    /\ row' = [row EXCEPT !.state = "cancelled"]
    /\ UNCHANGED <<storage, path, read, pc, op, copier, tick, asking, failures>>

ResolvePublished ==
    /\ "resolve" \in Faults
    /\ row.state = "committing" /\ dest # {}
    /\ row' = [row EXCEPT !.state = "completed"]
    /\ path' = "to"
    /\ UNCHANGED <<storage, read, pc, op, copier, tick, asking, failures>>

(***************************************************************************)
(* Another client writes into one of the directories, which it may have    *)
(* to create: neither is locked while the move runs.                       *)
(***************************************************************************)
NewcomerArrives(o) ==
    /\ "newcomer" \in Faults
    /\ o \in Newcomers \ (source \union dest)
    /\ \/ source' = source \union {o} /\ UNCHANGED dest
       \/ dest' = dest \union {o} /\ UNCHANGED source
    /\ UNCHANGED <<path, row, read, pc, op, copier, tick, asking, failures>>

-----------------------------------------------------------------------------
CopyStep(o) ==
    \/ CopyBegins(o) \/ CopyLands(o) \/ RemoveObject(o) \/ UndoRemoves(o)

MoverStep ==
    \/ \E o \in Objects \union Newcomers : CopyStep(o)
    \/ DecideMoved \/ DecideResume \/ DecideReserve \/ DecideConflict \/ DecideGone
    \/ TransferStarts \/ TransferRefused \/ CopyStops \/ CopyEnds \/ RemoveEnds
    \/ UndoChecks \/ UndoEnds \/ Withdraw \/ Fails \/ Refuses
    \/ Finish \/ Complete \/ CompleteRefused

RequestStep(r) == ReadOperation(r) \/ Claim(r) \/ ClaimRefused(r)

TickStep == TickStarts \/ TickReads \/ TickCannotRead \/ TickWrites

FaultStep ==
    \/ \E o \in Objects \union Newcomers :
          CopyFails(o) \/ StrayLands(o) \/ NewcomerArrives(o)
    \/ RemoveFails \/ CallFails \/ Crash
    \/ CancelReads \/ CancelWrites
    \/ ResolveDiscarded \/ ResolvePublished

Next ==
    \/ MoverStep
    \/ \E r \in Requests : RequestStep(r)
    \/ TickStep
    \/ FaultStep

Spec == Init /\ [][Next]_vars

(* Promises and storage calls settle; the client retries a ready move.     *)
FairSpec ==
    /\ Spec
    /\ WF_vars(MoverStep)
    /\ \A r \in Requests : WF_vars(RequestStep(r))

-----------------------------------------------------------------------------
TypeOK ==
    /\ source \subseteq Objects \union Newcomers
    /\ dest \subseteq Objects \union Newcomers
    /\ path \in {"from", "to"}
    /\ row \in [state : States, result : Results]
    /\ read \in [Requests -> Results \union {None}]
    /\ pc \in Steps /\ op \in Results
    /\ batch \subseteq source
    /\ inflight \subseteq Objects \union Newcomers
    /\ stray \subseteq Objects \union Newcomers
    /\ aborted \in BOOLEAN
    /\ tick \in [step : {"none", "read", "write"}, result : Results, mine : BOOLEAN]
    /\ asking \in [state : {"ready", "conflict", "committing"}, result : Results]
                    \union {None}
    /\ failures \in 0 .. MaxFailures

(***************************************************************************)
(* No object of the directory is ever at neither path: copying, removing,  *)
(* retrying, undoing and crashing keep a copy of each.                     *)
(***************************************************************************)
NoObjectLost == Objects \subseteq source \union dest

(***************************************************************************)
(* "Every object is copied before any is removed": an object leaves the    *)
(* source only when all that is still there is at the destination too,     *)
(* also in a resumed transfer beside the workers of an earlier one.        *)
(***************************************************************************)
RemovalFollowsCopy ==
    [][source' \ source = {} /\ source' # source => source \subseteq dest]_vars

(***************************************************************************)
(* A commit reports completed only a move that happened: every object is   *)
(* at the destination, none at the source, and the registry agrees.        *)
(***************************************************************************)
CompletedMeansMoved ==
    [][pc = "complete" /\ row'.state = "completed" /\ row.state # "completed" =>
          Objects \subseteq dest \ source /\ path = "to"]_vars

(***************************************************************************)
(* "takes back what it had copied ... the source left where it was": once  *)
(* everything has come to rest, a cancelled move left no trace.            *)
(***************************************************************************)
CancelledTakesBack ==
    row.state = "cancelled" /\ pc = "idle" /\ stray = {} =>
        dest = {} /\ source = Objects

(***************************************************************************)
(* "the same operation id resumes and converges, whether it stopped while  *)
(* copying or while removing": with a client that retries, storage that    *)
(* fails finitely often and nobody else writing, the move completes.       *)
(***************************************************************************)
Converges ==
    <>(row.state = "completed" \/ Newcomers \cap (source \union dest) # {})

==============================================================================
