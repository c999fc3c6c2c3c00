----------------------------- MODULE DesktopUpload -----------------------------
(***************************************************************************)
(* The upload half of one native write: the ledger row of a desktop        *)
(* operation, the upload requests that fill its spool directory, and the   *)
(* actors that may remove that directory (cancel, acknowledge, retention). *)
(* From apps/api/src/desktop/writes.ts, apps/api/src/desktop/retention.ts  *)
(* and packages/db/src/repos/desktop.ts.                                   *)
(*                                                                         *)
(* Every await is a step boundary.  A ledger transition is one atomic      *)
(* compare-and-set in PostgreSQL; its answer may be lost, so a caller can  *)
(* see an error for a transition that committed.  API processes crash, and *)
(* their requests die with them; the row and the spool survive.            *)
(*                                                                         *)
(* An upload request is named by its attempt UUID, which is also the name  *)
(* of its spool file.  Bytes are abstracted to how much of a verified      *)
(* payload a spool file holds.                                             *)
(***************************************************************************)
CONSTANTS
    Attempts,     \* upload requests; each draws a fresh attempt id
    Processes,    \* API processes serving them
    None          \* no attempt

ASSUME NoneAssumption == None \notin Attempts

RowStates == {"receiving", "uploading", "ready", "committing", "uncertain",
              "conflict", "completed", "acknowledged", "cancelled"}

(* The steps of upload(), in order; "done" has answered or died.           *)
Steps == {"idle", "claim", "register", "open", "body", "publish", "failed", "reset",
          "unlink", "done"}

(***************************************************************************)
(* row: state and result of the operation (result.attempt, .uploadFile).   *)
(* idle: updatedAt is older than the retention limit of the row's state.   *)
(* reclaimed: result.reclaimedAt is set.                                   *)
(* seen: the row an upload read last ("NoRow" when the read failed).       *)
(* sweeper, canceller: the state each read and means to cancel from, or    *)
(* "none", or "rm" when the compare-and-set succeeded.                     *)
(***************************************************************************)
VARIABLES
    row, idle, reclaimed, spool, pc, process, seen, verified, unlinks,
    aborted, uploads, sweeper, canceller, acknowledger

vars == <<row, idle, reclaimed, spool, pc, process, seen, verified, unlinks, aborted,
          uploads, sweeper, canceller, acknowledger>>

ledger == <<row, idle, reclaimed>>
removers == <<sweeper, canceller, acknowledger>>

Rows == [state : RowStates, attempt : Attempts \union {None},
         uploadFile : Attempts \union {None}]

NoRow == [state |-> "unreadable", attempt |-> None, uploadFile |-> None]

(* prepare reserved the operation; no byte has arrived.                    *)
Init ==
    /\ row = [state |-> "receiving", attempt |-> None, uploadFile |-> None]
    /\ idle = FALSE
    /\ reclaimed = FALSE
    /\ spool = [a \in Attempts |-> "absent"]
    /\ pc = [a \in Attempts |-> "idle"]
    /\ process \in [Attempts -> Processes]
    /\ seen = [a \in Attempts |-> NoRow]
    /\ verified = [a \in Attempts |-> FALSE]
    /\ unlinks = [a \in Attempts |-> FALSE]
    /\ aborted = [a \in Attempts |-> FALSE]
    /\ uploads = [p \in Processes |-> None]
    /\ sweeper = "none"
    /\ canceller = "none"
    /\ acknowledger = "none"

-----------------------------------------------------------------------------
(***************************************************************************)
(* transition(): set the state where it is still the expected one; the     *)
(* result is replaced when one is given.  updatedAt is renewed.            *)
(***************************************************************************)
Transition_Unconditional(expected, new) ==
    /\ row' = new
    /\ idle' = FALSE
    /\ UNCHANGED reclaimed

Transition(expected, new) ==
    /\ row.state = expected
    /\ row' = new
    /\ idle' = FALSE
    /\ UNCHANGED reclaimed

To(state) == [row EXCEPT !.state = state]

Uploading(a) == [state |-> "uploading", attempt |-> a, uploadFile |-> None]

Ready(a) == [state |-> "ready", attempt |-> None, uploadFile |-> a]

Receiving == [state |-> "receiving", attempt |-> None, uploadFile |-> None]

-----------------------------------------------------------------------------
(* upload: read the operation; only a receiving or uploading one proceeds. *)
ReadOperation(a) ==
    /\ pc[a] = "idle"
    /\ seen' = [seen EXCEPT ![a] = row]
    /\ pc' = [pc EXCEPT ![a] =
                IF row.state \in {"receiving", "uploading"} THEN "claim" ELSE "done"]
    /\ UNCHANGED <<ledger, spool, process, verified, unlinks, aborted, uploads, removers>>

(***************************************************************************)
(* Claim the row for this attempt.  An uploading row is taken over only    *)
(* from the attempt that was read.                                         *)
(***************************************************************************)
StillClaimable(a) ==
    /\ row.state = seen[a].state
    /\ row.state = "uploading" => row.attempt = seen[a].attempt

Claim(a) ==
    /\ pc[a] = "claim"
    /\ StillClaimable(a)
    /\ Transition(seen[a].state, Uploading(a))
    /\ pc' = [pc EXCEPT ![a] = "register"]
    /\ UNCHANGED <<spool, process, seen, verified, unlinks, aborted, uploads, removers>>

(* The claim committed but its answer was lost: upload throws before try.  *)
ClaimAnswerLost(a) ==
    /\ pc[a] = "claim"
    /\ StillClaimable(a)
    /\ Transition(seen[a].state, Uploading(a))
    /\ pc' = [pc EXCEPT ![a] = "done"]
    /\ UNCHANGED <<spool, process, seen, verified, unlinks, aborted, uploads, removers>>

ClaimRefused(a) ==
    /\ pc[a] = "claim"
    /\ ~StillClaimable(a)
    /\ pc' = [pc EXCEPT ![a] = "done"]
    /\ UNCHANGED <<ledger, spool, process, seen, verified, unlinks, aborted, uploads, removers>>

(***************************************************************************)
(* The claim is answered: abort the upload this process knew of and take   *)
(* its place.  A newer attempt may have claimed the row, and registered,   *)
(* while the answer was under way; it is then the one aborted.             *)
(***************************************************************************)
Register(a) ==
    /\ pc[a] = "register"
    /\ LET p == process[a]
       IN  /\ aborted' = IF uploads[p] = None THEN aborted
                         ELSE [aborted EXCEPT ![uploads[p]] = TRUE]
           /\ uploads' = [uploads EXCEPT ![p] = a]
    /\ pc' = [pc EXCEPT ![a] = "open"]
    /\ UNCHANGED <<ledger, spool, process, seen, verified, unlinks, removers>>

(* mkdir and open(..., "wx").                                              *)
OpenSpool(a) ==
    /\ pc[a] = "open"
    /\ spool' = [spool EXCEPT ![a] = "partial"]
    /\ pc' = [pc EXCEPT ![a] = "body"]
    /\ UNCHANGED <<ledger, process, seen, verified, unlinks, aborted, uploads, removers>>

(***************************************************************************)
(* The whole body arrived, matches its size and digest and is fsynced.  A  *)
(* file unlinked meanwhile stays unlinked.                                 *)
(***************************************************************************)
BodyVerified(a) ==
    /\ pc[a] = "body"
    /\ ~aborted[a]
    /\ spool' = [spool EXCEPT ![a] = IF @ = "partial" THEN "complete" ELSE @]
    /\ verified' = [verified EXCEPT ![a] = TRUE]
    /\ pc' = [pc EXCEPT ![a] = "publish"]
    /\ UNCHANGED <<ledger, process, seen, unlinks, aborted, uploads, removers>>

(* Disconnect, timeout, abort by a newer attempt, wrong bytes, full disk.  *)
BodyFails(a) ==
    /\ pc[a] \in {"open", "body"}
    /\ pc' = [pc EXCEPT ![a] = "failed"]
    /\ UNCHANGED <<ledger, spool, process, seen, verified, unlinks, aborted, uploads, removers>>

(* finally: forget the controller, unless a newer attempt replaced it.     *)
Leave(a) ==
    /\ pc' = [pc EXCEPT ![a] = "done"]
    /\ uploads' = [p \in Processes |-> IF uploads[p] = a THEN None ELSE uploads[p]]

OwnsRow_StateOnly(a) == row.state = "uploading"

OwnsRow(a) == row.state = "uploading" /\ row.attempt = a

PublishReady(a) ==
    /\ pc[a] = "publish"
    /\ OwnsRow(a)
    /\ Transition("uploading", Ready(a))
    /\ Leave(a)
    /\ UNCHANGED <<spool, process, seen, verified, unlinks, aborted, removers>>

(* Ready committed but the answer was lost: upload enters its catch.       *)
ReadyAnswerLost(a) ==
    /\ pc[a] = "publish"
    /\ OwnsRow(a)
    /\ Transition("uploading", Ready(a))
    /\ pc' = [pc EXCEPT ![a] = "failed"]
    /\ UNCHANGED <<spool, process, seen, verified, unlinks, aborted, uploads, removers>>

(* Superseded, or the database did not take the transition.                *)
ReadyRefused(a) ==
    /\ pc[a] = "publish"
    /\ pc' = [pc EXCEPT ![a] = "failed"]
    /\ UNCHANGED <<ledger, spool, process, seen, verified, unlinks, aborted, uploads, removers>>

(***************************************************************************)
(* catch: read the row again.  A durable ready receipt naming this attempt *)
(* is a success after all.  The read itself may fail.                      *)
(***************************************************************************)
RecoverReceipt(a) ==
    /\ pc[a] = "failed"
    /\ verified[a] /\ row.state = "ready" /\ row.uploadFile = a
    /\ Leave(a)
    /\ UNCHANGED <<ledger, spool, process, seen, verified, unlinks, aborted, removers>>

ReadCurrent(a) ==
    /\ pc[a] = "failed"
    /\ ~(verified[a] /\ row.state = "ready" /\ row.uploadFile = a)
    /\ seen' = [seen EXCEPT ![a] = row]
    /\ pc' = [pc EXCEPT ![a] = "reset"]
    /\ UNCHANGED <<ledger, spool, process, verified, unlinks, aborted, uploads, removers>>

ReadCurrentFails(a) ==
    /\ pc[a] = "failed"
    /\ seen' = [seen EXCEPT ![a] = NoRow]
    /\ pc' = [pc EXCEPT ![a] = "reset"]
    /\ UNCHANGED <<ledger, spool, process, verified, unlinks, aborted, uploads, removers>>

(***************************************************************************)
(* Whether the attempt's file may go, apart from a reset that succeeded:   *)
(* the row that was read names another attempt.                            *)
(***************************************************************************)
Superseded_NotMine(a) ==
    ~(seen[a].state = "ready" /\ seen[a].uploadFile = a)

Superseded(a) ==
    \/ seen[a].state = "uploading" /\ seen[a].attempt # a
    \/ seen[a].state = "ready" /\ seen[a].uploadFile # a

(* Give the row back for another attempt; the answer may be lost.          *)
ResetRow(a) ==
    /\ pc[a] = "reset"
    /\ OwnsRow(a)
    /\ Transition("uploading", Receiving)
    /\ \E answered \in BOOLEAN :
          unlinks' = [unlinks EXCEPT ![a] = answered \/ Superseded(a)]
    /\ pc' = [pc EXCEPT ![a] = "unlink"]
    /\ UNCHANGED <<spool, process, seen, verified, aborted, uploads, removers>>

ResetRefused(a) ==
    /\ pc[a] = "reset"
    /\ unlinks' = [unlinks EXCEPT ![a] = Superseded(a)]
    /\ pc' = [pc EXCEPT ![a] = "unlink"]
    /\ UNCHANGED <<ledger, spool, process, seen, verified, aborted, uploads, removers>>

Unlink(a) ==
    /\ pc[a] = "unlink"
    /\ spool' = IF unlinks[a] THEN [spool EXCEPT ![a] = "absent"] ELSE spool
    /\ Leave(a)
    /\ UNCHANGED <<ledger, process, seen, verified, unlinks, aborted, removers>>

(* An API process stops: its upload requests die where they are.           *)
Crash(p) ==
    /\ \E a \in Attempts : process[a] = p /\ pc[a] \notin {"idle", "done"}
    /\ pc' = [a \in Attempts |->
                IF process[a] = p /\ pc[a] # "idle" THEN "done" ELSE pc[a]]
    /\ uploads' = [uploads EXCEPT ![p] = None]
    /\ UNCHANGED <<ledger, spool, process, seen, verified, unlinks, aborted, removers>>

-----------------------------------------------------------------------------
(***************************************************************************)
(* commit, from the ledger's side: it takes a ready operation, reads the   *)
(* payload its receipt names, and settles as the publication went (see     *)
(* DesktopPublish), or never settles because its process stopped.          *)
(***************************************************************************)
CommitBegins ==
    /\ Transition("ready", To("committing"))
    /\ UNCHANGED <<spool, pc, process, seen, verified, unlinks, aborted, uploads, removers>>

(* The completed receipt replaces the result and names no spool file.      *)
CommitCompletes ==
    /\ Transition("committing", [state |-> "completed", attempt |-> None, uploadFile |-> None])
    /\ UNCHANGED <<spool, pc, process, seen, verified, unlinks, aborted, uploads, removers>>

CommitFails(state) ==
    /\ state \in {"uncertain", "conflict", "ready"}
    /\ Transition("committing", To(state))
    /\ UNCHANGED <<spool, pc, process, seen, verified, unlinks, aborted, uploads, removers>>

(***************************************************************************)
(* An administrator resolves an uncertain commit, or a committing one that *)
(* has stalled: "discarded" cancels it and leaves the spool to retention,  *)
(* "published" makes an uncertain one committing and then completes it.    *)
(***************************************************************************)
ResolveDiscarded ==
    /\ row.state \in {"uncertain", "committing"}
    /\ Transition(row.state, To("cancelled"))
    /\ UNCHANGED <<spool, pc, process, seen, verified, unlinks, aborted, uploads, removers>>

ResolvePublished ==
    /\ Transition("uncertain", To("committing"))
    /\ UNCHANGED <<spool, pc, process, seen, verified, unlinks, aborted, uploads, removers>>

-----------------------------------------------------------------------------
(* rm(spool, recursive): every attempt's file goes.                        *)
EmptySpool == spool' = [a \in Attempts |-> "absent"]

Cancellable == {"receiving", "ready", "conflict"}

CancelReads ==
    /\ canceller = "none"
    /\ row.state \in Cancellable
    /\ canceller' = row.state
    /\ UNCHANGED <<ledger, spool, pc, process, seen, verified, unlinks, aborted, uploads,
                   sweeper, acknowledger>>

CancelSwaps ==
    /\ canceller \in Cancellable
    /\ Transition(canceller, To("cancelled"))
    /\ canceller' = "rm"
    /\ UNCHANGED <<spool, pc, process, seen, verified, unlinks, aborted, uploads,
                   sweeper, acknowledger>>

CancelRefused ==
    /\ canceller \in Cancellable
    /\ row.state # canceller
    /\ canceller' = "none"
    /\ UNCHANGED <<ledger, spool, pc, process, seen, verified, unlinks, aborted, uploads,
                   sweeper, acknowledger>>

CancelRemoves ==
    /\ canceller = "rm"
    /\ EmptySpool
    /\ canceller' = "none"
    /\ UNCHANGED <<ledger, pc, process, seen, verified, unlinks, aborted, uploads,
                   sweeper, acknowledger>>

(* acknowledge: the spool goes once the receipt is acknowledged.           *)
Acknowledge ==
    /\ acknowledger = "none"
    /\ row.state \in {"completed", "acknowledged"}
    /\ row' = IF row.state = "completed" THEN To("acknowledged") ELSE row
    /\ idle' = IF row.state = "completed" THEN FALSE ELSE idle
    /\ acknowledger' = "rm"
    /\ UNCHANGED <<reclaimed, spool, pc, process, seen, verified, unlinks, aborted, uploads,
                   sweeper, canceller>>

AcknowledgeRemoves ==
    /\ acknowledger = "rm"
    /\ EmptySpool
    /\ acknowledger' = "none"
    /\ UNCHANGED <<ledger, pc, process, seen, verified, unlinks, aborted, uploads,
                   sweeper, canceller>>

(* The retention limit of the row's state passes without a transition.     *)
TimePasses ==
    /\ ~idle
    /\ idle' = TRUE
    /\ UNCHANGED <<row, reclaimed, spool, pc, process, seen, verified, unlinks, aborted, uploads, removers>>

(***************************************************************************)
(* retention sweep: expired() lists idle rows, then each is cancelled from *)
(* the state it was listed in and its spool removed.  Acknowledged and     *)
(* cancelled rows are reclaimed.                                           *)
(***************************************************************************)
Expirable == {"receiving", "uploading", "conflict"}

SweepLists ==
    /\ sweeper = "none"
    /\ idle /\ row.state \in Expirable
    /\ sweeper' = row.state
    /\ UNCHANGED <<ledger, spool, pc, process, seen, verified, unlinks, aborted, uploads,
                   canceller, acknowledger>>

SweepSwaps ==
    /\ sweeper \in Expirable
    /\ Transition(sweeper, To("cancelled"))
    /\ sweeper' = "rm"
    /\ UNCHANGED <<spool, pc, process, seen, verified, unlinks, aborted, uploads,
                   canceller, acknowledger>>

SweepRefused ==
    /\ sweeper \in Expirable
    /\ row.state # sweeper
    /\ sweeper' = "none"
    /\ UNCHANGED <<ledger, spool, pc, process, seen, verified, unlinks, aborted, uploads,
                   canceller, acknowledger>>

SweepRemoves ==
    /\ sweeper = "rm"
    /\ EmptySpool
    /\ sweeper' = "none"
    /\ UNCHANGED <<ledger, pc, process, seen, verified, unlinks, aborted, uploads,
                   canceller, acknowledger>>

Reclaim ==
    /\ sweeper = "none"
    /\ idle /\ ~reclaimed /\ row.state \in {"acknowledged", "cancelled"}
    /\ EmptySpool
    /\ reclaimed' = TRUE
    /\ UNCHANGED <<row, idle, pc, process, seen, verified, unlinks, aborted, uploads, removers>>

(* The process of one of the three stops between two of its steps.         *)
RemoverStops ==
    /\ \/ canceller # "none" /\ canceller' = "none" /\ UNCHANGED <<sweeper, acknowledger>>
       \/ sweeper # "none" /\ sweeper' = "none" /\ UNCHANGED <<canceller, acknowledger>>
       \/ acknowledger # "none" /\ acknowledger' = "none" /\ UNCHANGED <<canceller, sweeper>>
    /\ UNCHANGED <<ledger, spool, pc, process, seen, verified, unlinks, aborted, uploads>>

-----------------------------------------------------------------------------
UploadStep(a) ==
    \/ ReadOperation(a) \/ Claim(a) \/ ClaimAnswerLost(a) \/ ClaimRefused(a)
    \/ Register(a) \/ OpenSpool(a) \/ BodyVerified(a) \/ BodyFails(a)
    \/ PublishReady(a) \/ ReadyAnswerLost(a) \/ ReadyRefused(a)
    \/ RecoverReceipt(a) \/ ReadCurrent(a) \/ ReadCurrentFails(a)
    \/ ResetRow(a) \/ ResetRefused(a) \/ Unlink(a)

CommitStep ==
    \/ CommitBegins \/ CommitCompletes
    \/ \E state \in RowStates : CommitFails(state)
    \/ ResolveDiscarded \/ ResolvePublished

RemovalStep ==
    \/ CancelReads \/ CancelSwaps \/ CancelRefused \/ CancelRemoves
    \/ Acknowledge \/ AcknowledgeRemoves
    \/ SweepLists \/ SweepSwaps \/ SweepRefused \/ SweepRemoves \/ Reclaim
    \/ RemoverStops

Next ==
    \/ \E a \in Attempts : UploadStep(a)
    \/ \E p \in Processes : Crash(p)
    \/ CommitStep
    \/ RemovalStep
    \/ TimePasses

Spec == Init /\ [][Next]_vars

-----------------------------------------------------------------------------
TypeOK ==
    /\ row \in Rows
    /\ idle \in BOOLEAN /\ reclaimed \in BOOLEAN
    /\ spool \in [Attempts -> {"absent", "partial", "complete"}]
    /\ pc \in [Attempts -> Steps]
    /\ process \in [Attempts -> Processes]
    /\ seen \in [Attempts -> Rows \union {NoRow}]
    /\ verified \in [Attempts -> BOOLEAN]
    /\ unlinks \in [Attempts -> BOOLEAN]
    /\ aborted \in [Attempts -> BOOLEAN]
    /\ uploads \in [Processes -> Attempts \union {None}]
    /\ sweeper \in Expirable \union {"none", "rm"}
    /\ canceller \in Cancellable \union {"none", "rm"}
    /\ acknowledger \in {"none", "rm"}

(***************************************************************************)
(* "Never unlink the payload named by a durable (or uncertain) receipt":   *)
(* from ready until the outcome is known, the spool holds the complete     *)
(* payload that the receipt names, whatever uploads, cancels, sweeps and   *)
(* crashes are under way.                                                  *)
(***************************************************************************)
PayloadPreserved ==
    row.state \in {"ready", "committing", "uncertain", "conflict"} =>
        row.uploadFile \in Attempts /\ spool[row.uploadFile] = "complete"

(***************************************************************************)
(* A failing upload gives back only its own claim: the row returns to      *)
(* receiving only when the attempt that holds it is the one that failed.   *)
(***************************************************************************)
LosersLeaveTheRow ==
    [][row.state = "uploading" /\ row'.state = "receiving" =>
          pc[row.attempt] = "reset"]_vars

(***************************************************************************)
(* The decision about an operation is never revived by a late upload,      *)
(* commit, resolution or sweep: an acknowledged or cancelled row keeps its *)
(* state, and a row with a receipt never takes another body.               *)
(***************************************************************************)
DecisionsStand ==
    [][/\ row.state \in {"acknowledged", "cancelled"} => row'.state = row.state
       /\ row.uploadFile # None => row'.uploadFile \in {row.uploadFile, None}
       /\ row.uploadFile # None => row'.state \notin {"receiving", "uploading"}]_vars
==============================================================================
