-------------------------- MODULE DesktopUploadProofs --------------------------
(***************************************************************************)
(* Proofs about DesktopUpload, for any number of upload requests and API   *)
(* processes.                                                              *)
(*                                                                         *)
(* PayloadPreserved is not inductive.  A complete payload could be removed *)
(* by an upload that decided to unlink it, or by a cancel, an              *)
(* acknowledgement or a sweep that decided to empty the spool; so each     *)
(* such decision must be known to be final.  Lost(a) is what an upload has *)
(* established before it unlinks its file: the row does not name the       *)
(* attempt and, because attempt ids are fresh, never will again.           *)
(***************************************************************************)
EXTENDS DesktopUpload, TLAPS

Lost(a) == row.uploadFile # a /\ ~OwnsRow(a)

ClaimsAreEarly ==
    \A a \in Attempts :
        /\ pc[a] = "claim" => seen[a].state \in {"receiving", "uploading"}
        /\ pc[a] \in {"idle", "claim"} => row.attempt # a
        /\ pc[a] \in {"idle", "claim", "register", "open", "body", "publish"} =>
              row.uploadFile # a

BodyIsSafe ==
    \A a \in Attempts :
        OwnsRow(a) => /\ pc[a] = "body" => spool[a] = "partial"
                      /\ pc[a] = "publish" => spool[a] = "complete"

UnlinksAreFinal ==
    \A a \in Attempts :
        /\ pc[a] = "reset" /\ Superseded(a) => Lost(a)
        /\ pc[a] = "unlink" /\ unlinks[a] => Lost(a)

RemovalsAreFinal ==
    /\ sweeper = "rm" => row.state = "cancelled"
    /\ canceller = "rm" => row.state = "cancelled"
    /\ acknowledger = "rm" => row.state = "acknowledged"

NoReceiptYet == row.state \in {"receiving", "uploading"} => row.uploadFile = None

IndInv ==
    /\ TypeOK
    /\ PayloadPreserved
    /\ ClaimsAreEarly
    /\ BodyIsSafe
    /\ UnlinksAreFinal
    /\ RemovalsAreFinal
    /\ NoReceiptYet

-----------------------------------------------------------------------------
LEMMA InitInv == Init => IndInv
  <1> SUFFICES ASSUME Init PROVE IndInv
    OBVIOUS
  <1>1. TypeOK
    BY DEF Init, TypeOK, Rows, RowStates, Steps, Cancellable, Expirable
  <1>2. PayloadPreserved /\ RemovalsAreFinal /\ NoReceiptYet
    BY DEF Init, PayloadPreserved, RemovalsAreFinal, NoReceiptYet
  <1>3. ClaimsAreEarly /\ BodyIsSafe /\ UnlinksAreFinal
    BY NoneAssumption DEF Init, ClaimsAreEarly, BodyIsSafe, UnlinksAreFinal, OwnsRow
  <1>4. QED
    BY <1>1, <1>2, <1>3 DEF IndInv

(* No step of an upload request disturbs the invariant.                    *)
LEMMA UploadStepInv ==
  ASSUME IndInv, NEW b \in Attempts, UploadStep(b)
  PROVE  IndInv'
  <1> USE NoneAssumption
          DEF TypeOK, PayloadPreserved, ClaimsAreEarly, BodyIsSafe, UnlinksAreFinal, RemovalsAreFinal, NoReceiptYet,
              Transition, To, Uploading, Ready, Receiving, ledger, removers, OwnsRow, Superseded, Lost, StillClaimable, Rows, RowStates, Steps, NoRow, Leave, EmptySpool, Cancellable, Expirable
  <1>1. CASE ReadOperation(b)
    BY <1>1 DEF IndInv, ReadOperation
  <1>2. CASE Claim(b)
    BY ZenonT(60), <1>2 DEF IndInv, Claim
  <1>3. CASE ClaimAnswerLost(b)
    BY ZenonT(60), <1>3 DEF IndInv, ClaimAnswerLost
  <1>4. CASE ClaimRefused(b)
    BY <1>4 DEF IndInv, ClaimRefused
  <1>5. CASE Register(b)
    BY <1>5 DEF IndInv, Register
  <1>6. CASE OpenSpool(b)
    BY <1>6 DEF IndInv, OpenSpool
  <1>7. CASE BodyVerified(b)
    BY <1>7 DEF IndInv, BodyVerified
  <1>8. CASE BodyFails(b)
    BY <1>8 DEF IndInv, BodyFails
  <1>9. CASE PublishReady(b)
    BY ZenonT(60), <1>9 DEF IndInv, PublishReady
  <1>10. CASE ReadyAnswerLost(b)
    BY ZenonT(60), <1>10 DEF IndInv, ReadyAnswerLost
  <1>11. CASE ReadyRefused(b)
    BY <1>11 DEF IndInv, ReadyRefused
  <1>12. CASE RecoverReceipt(b)
    BY <1>12 DEF IndInv, RecoverReceipt
  <1>13. CASE ReadCurrent(b)
    BY <1>13 DEF IndInv, ReadCurrent
  <1>14. CASE ReadCurrentFails(b)
    BY <1>14 DEF IndInv, ReadCurrentFails
  <1>15. CASE ResetRow(b)
    BY ZenonT(60), <1>15 DEF IndInv, ResetRow
  <1>16. CASE ResetRefused(b)
    BY <1>16 DEF IndInv, ResetRefused
  <1>17. CASE Unlink(b)
    BY <1>17 DEF IndInv, Unlink
  <1>18. QED
    BY <1>1, <1>2, <1>3, <1>4, <1>5, <1>6, <1>7, <1>8, <1>9, <1>10, <1>11, <1>12, <1>13, <1>14, <1>15, <1>16, <1>17 DEF UploadStep

(* Neither does a step of a commit or of its resolution.                   *)
LEMMA CommitStepInv ==
  ASSUME IndInv, CommitStep
  PROVE  IndInv'
  <1> USE NoneAssumption
          DEF TypeOK, PayloadPreserved, ClaimsAreEarly, BodyIsSafe, UnlinksAreFinal, RemovalsAreFinal, NoReceiptYet,
              Transition, To, ledger, removers, OwnsRow, Superseded, Lost, Rows,
              RowStates, Steps, NoRow, EmptySpool, Cancellable, Expirable
  <1>1. CASE CommitBegins
    BY <1>1 DEF IndInv, CommitBegins
  <1>2. CASE CommitCompletes
    BY ZenonT(60), <1>2 DEF IndInv, CommitCompletes
  <1>3. ASSUME NEW state \in RowStates, CommitFails(state) PROVE IndInv'
    BY ZenonT(60), <1>3 DEF IndInv, CommitFails
  <1>4. CASE ResolveDiscarded
    BY <1>4 DEF IndInv, ResolveDiscarded
  <1>5. CASE ResolvePublished
    BY <1>5 DEF IndInv, ResolvePublished
  <1>6. QED
    BY <1>1, <1>2, <1>3, <1>4, <1>5 DEF CommitStep

(* Nor a step of a cancel, an acknowledgement or the retention sweep.      *)
LEMMA RemovalStepInv ==
  ASSUME IndInv, RemovalStep
  PROVE  IndInv'
  <1> USE NoneAssumption
          DEF TypeOK, PayloadPreserved, ClaimsAreEarly, BodyIsSafe, UnlinksAreFinal, RemovalsAreFinal, NoReceiptYet,
              Transition, To, ledger, removers, OwnsRow, Superseded, Lost, Rows,
              RowStates, Steps, NoRow, EmptySpool, Cancellable, Expirable
  <1>1. CASE CancelReads
    BY <1>1 DEF IndInv, CancelReads
  <1>2. CASE CancelSwaps
    BY <1>2 DEF IndInv, CancelSwaps
  <1>3. CASE CancelRefused
    BY <1>3 DEF IndInv, CancelRefused
  <1>4. CASE CancelRemoves
    BY <1>4 DEF IndInv, CancelRemoves
  <1>5. CASE Acknowledge
    BY ZenonT(60), <1>5 DEF IndInv, Acknowledge
  <1>6. CASE AcknowledgeRemoves
    BY <1>6 DEF IndInv, AcknowledgeRemoves
  <1>7. CASE SweepLists
    BY <1>7 DEF IndInv, SweepLists
  <1>8. CASE SweepSwaps
    BY <1>8 DEF IndInv, SweepSwaps
  <1>9. CASE SweepRefused
    BY <1>9 DEF IndInv, SweepRefused
  <1>10. CASE SweepRemoves
    BY <1>10 DEF IndInv, SweepRemoves
  <1>11. CASE Reclaim
    BY <1>11 DEF IndInv, Reclaim
  <1>12. CASE RemoverStops
    BY <1>12 DEF IndInv, RemoverStops
  <1>13. QED
    BY <1>1, <1>2, <1>3, <1>4, <1>5, <1>6, <1>7, <1>8, <1>9, <1>10, <1>11, <1>12 DEF RemovalStep

LEMMA NextInv == IndInv /\ [Next]_vars => IndInv'
  <1> SUFFICES ASSUME IndInv, [Next]_vars PROVE IndInv'
    OBVIOUS
  <1> USE DEF TypeOK, PayloadPreserved, ClaimsAreEarly, BodyIsSafe, UnlinksAreFinal, RemovalsAreFinal, NoReceiptYet, OwnsRow,
              Superseded, Lost, ledger, removers
  <1>1. ASSUME NEW a \in Attempts, UploadStep(a) PROVE IndInv'
    BY <1>1, UploadStepInv
  <1>2. ASSUME NEW p \in Processes, Crash(p) PROVE IndInv'
    BY <1>2 DEF IndInv, Crash, Steps
  <1>3. CASE CommitStep
    BY <1>3, CommitStepInv
  <1>4. CASE RemovalStep
    BY <1>4, RemovalStepInv
  <1>5. CASE TimePasses
    BY <1>5 DEF IndInv, TimePasses
  <1>6. CASE UNCHANGED vars
    BY <1>6 DEF IndInv, vars
  <1>7. QED
    BY <1>1, <1>2, <1>3, <1>4, <1>5, <1>6 DEF Next

THEOREM Inductive == Spec => []IndInv
  BY InitInv, NextInv, PTL DEF Spec

(***************************************************************************)
(* The row, the spool and the requests keep their types, for every set of  *)
(* requests and processes of upload(), cancel(), acknowledge() and sweep().*)
(***************************************************************************)
THEOREM TypeCorrectness == Spec => []TypeOK
  <1>1. IndInv => TypeOK
    BY DEF IndInv
  <1>2. QED
    BY <1>1, Inductive, PTL

(***************************************************************************)
(* No interleaving of uploads, lost answers, cancels, sweeps and crashes   *)
(* removes the payload that a receipt names while its outcome is open.     *)
(***************************************************************************)
THEOREM PayloadSafety == Spec => []PayloadPreserved
  <1>1. IndInv => PayloadPreserved
    BY DEF IndInv
  <1>2. QED
    BY <1>1, Inductive, PTL

(***************************************************************************)
(* A failing upload only ever gives back its own claim, for any number of  *)
(* racing requests: upload()'s reset is conditional on its attempt id.     *)
(***************************************************************************)
THEOREM LosersYield == Spec => LosersLeaveTheRow
  <1> DEFINE A == (row.state = "uploading" /\ row'.state = "receiving" => pc[row.attempt] = "reset")
  <1>1. IndInv /\ [Next]_vars => [A]_vars
    <2> SUFFICES ASSUME IndInv, Next PROVE A
      BY DEF vars
    <2> USE DEF Transition, To, ledger
    <2>1. ASSUME NEW a \in Attempts, UploadStep(a) PROVE A
      BY <2>1, NoneAssumption
         DEF IndInv, UploadStep, Uploading, Ready, Receiving, OwnsRow, TypeOK,
             ReadOperation, Claim, ClaimAnswerLost, ClaimRefused,
             Register, OpenSpool, BodyVerified, BodyFails, PublishReady,
             ReadyAnswerLost, ReadyRefused, RecoverReceipt, ReadCurrent,
             ReadCurrentFails, ResetRow, ResetRefused, Unlink
    <2>2. ASSUME NEW p \in Processes, Crash(p) PROVE A
      BY <2>2 DEF Crash, IndInv, TypeOK
    <2>3. CASE CommitStep
      BY <2>3
         DEF IndInv, CommitStep, Rows, TypeOK,
             CommitBegins, CommitCompletes, CommitFails, ResolveDiscarded,
             ResolvePublished
    <2>4. CASE RemovalStep
      BY <2>4
         DEF IndInv, RemovalStep, Cancellable, Expirable, Rows, TypeOK,
             CancelReads, CancelSwaps, CancelRefused, CancelRemoves,
             Acknowledge, AcknowledgeRemoves, SweepLists, SweepSwaps,
             SweepRefused, SweepRemoves, Reclaim, RemoverStops
    <2>5. CASE TimePasses
      BY <2>5 DEF TimePasses, IndInv, TypeOK
    <2>6. QED
      BY <2>1, <2>2, <2>3, <2>4, <2>5 DEF Next
  <1>2. QED
    BY <1>1, Inductive, PTL DEF Spec, LosersLeaveTheRow

(***************************************************************************)
(* Acknowledged and cancelled operations stay so and a receipt is never    *)
(* replaced by another body, whatever requests arrive late: every change   *)
(* is the compare-and-set of transition().                                 *)
(***************************************************************************)
THEOREM DecisionsAreFinal == Spec => DecisionsStand
  <1> DEFINE A == 
          /\ row.state \in {"acknowledged", "cancelled"} => row'.state = row.state
          /\ row.uploadFile # None => row'.uploadFile \in {row.uploadFile, None}
          /\ row.uploadFile # None => row'.state \notin {"receiving", "uploading"}
  <1>1. IndInv /\ [Next]_vars => [A]_vars
    <2> SUFFICES ASSUME IndInv, Next PROVE A
      BY DEF vars
    <2> USE DEF Transition, To, ledger
    <2>1. ASSUME NEW a \in Attempts, UploadStep(a) PROVE A
      BY <2>1, NoneAssumption
         DEF IndInv, UploadStep, Uploading, Ready, Receiving, OwnsRow, TypeOK, ClaimsAreEarly, NoReceiptYet,
             ReadOperation, Claim, ClaimAnswerLost, ClaimRefused,
             Register, OpenSpool, BodyVerified, BodyFails, PublishReady,
             ReadyAnswerLost, ReadyRefused, RecoverReceipt, ReadCurrent,
             ReadCurrentFails, ResetRow, ResetRefused, Unlink
    <2>2. ASSUME NEW p \in Processes, Crash(p) PROVE A
      BY <2>2 DEF Crash, IndInv, TypeOK, ClaimsAreEarly, NoReceiptYet
    <2>3. CASE CommitStep
      BY <2>3
         DEF IndInv, CommitStep, Rows, TypeOK, NoReceiptYet,
             CommitBegins, CommitCompletes, CommitFails, ResolveDiscarded,
             ResolvePublished
    <2>4. CASE RemovalStep
      BY <2>4
         DEF IndInv, RemovalStep, Cancellable, Expirable, Rows, TypeOK, NoReceiptYet,
             CancelReads, CancelSwaps, CancelRefused, CancelRemoves,
             Acknowledge, AcknowledgeRemoves, SweepLists, SweepSwaps,
             SweepRefused, SweepRemoves, Reclaim, RemoverStops
    <2>5. CASE TimePasses
      BY <2>5 DEF TimePasses, IndInv, TypeOK, ClaimsAreEarly, NoReceiptYet
    <2>6. QED
      BY <2>1, <2>2, <2>3, <2>4, <2>5 DEF Next
  <1>2. QED
    BY <1>1, Inductive, PTL DEF Spec, DecisionsStand

==============================================================================
