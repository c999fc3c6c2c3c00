------------------------- MODULE DesktopBulkMoveProofs -------------------------
(***************************************************************************)
(* Proofs about DesktopBulkMove, for directories of any size, any number   *)
(* of requests and copy workers, and any number of failures.               *)
(*                                                                         *)
(* The undo of a cancelled copy is what can lose an object: it empties the *)
(* destination, which is safe only while the source still has everything.  *)
(* That is so when nothing is ever cancelled, and also when a removal that *)
(* has begun never fails and nobody else writes into the directories: then *)
(* a commit that starts finds the source whole or gone.  With both, TLC    *)
(* finds the loss (run bulk_only_copy), so the assumption cannot go.       *)
(***************************************************************************)
EXTENDS DesktopBulkMove, TLAPS

(* The two cases in which no object can be lost.                           *)
SafeFaults == "cancel" \notin Faults \/ Faults \cap {"removal", "newcomer"} = {}

(* A commit under way has taken the row out of ready.                      *)
Claimed == pc # "idle" => row.state # "ready"

(* Objects are copied only by a copy under way, and from the source.       *)
Flight ==
    /\ pc # "copy" => batch = {} /\ inflight = {}
    /\ inflight \subseteq source

(* What the source still has is copied, being copied or about to be.       *)
Covered ==
    /\ pc = "copy" => Objects \cap source \subseteq batch \union inflight \union dest
    /\ pc = "remove" => Objects \cap source \subseteq dest

(* Nobody cancels: nothing is ever undone.                                 *)
NeverCancelled ==
    /\ ~row.result.cancelled /\ ~op.cancelled /\ ~tick.result.cancelled /\ ~aborted
    /\ \A r \in Requests : read[r] # None => ~read[r].cancelled
    /\ asking = None
    /\ pc \notin {"undo", "empty", "withdraw"}

(* Removals succeed: only a removal under way, or stopped by a crash that  *)
(* leaves the row to an administrator, has a part of the source.           *)
WholeOrGone ==
    /\ source \subseteq Objects
    /\ source \in {Objects, {}} \/ pc = "remove" \/ (pc = "idle" /\ row.state # "ready")
    /\ pc \in {"copy", "undo", "empty"} => source # {}

UndoIsSafe ==
    /\ "cancel" \notin Faults => NeverCancelled
    /\ "removal" \notin Faults /\ "newcomer" \notin Faults => WholeOrGone

NothingLost == SafeFaults => NoObjectLost

NoNewcomer == "newcomer" \in Faults \/ source \subseteq Objects

Base == TypeOK /\ Claimed /\ Flight /\ Covered /\ NoNewcomer

IndInv == Base /\ UndoIsSafe /\ NothingLost

-----------------------------------------------------------------------------
LEMMA NoTickFacts ==
  /\ NoTick \in [step : {"none", "read", "write"}, result : Results, mine : BOOLEAN]
  /\ ~NoTick.result.cancelled
  BY DEF NoTick, Unset, Results

(* A result with one mark set is a result.                                 *)
LEMMA ResultMarks ==
  ASSUME NEW x \in Results
  PROVE  /\ [x EXCEPT !.reserved = TRUE] \in Results
         /\ [x EXCEPT !.cancelled = TRUE] \in Results
         /\ [x EXCEPT !.reserved = TRUE].cancelled = x.cancelled
  BY DEF Results

LEMMA InitInv == Init => IndInv
  <1> SUFFICES ASSUME Init PROVE IndInv
    OBVIOUS
  <1> USE BulkMoveAssumption DEF Init
  <1>1. TypeOK
    <2>1. Unset \in Results
      BY DEF Unset, Results
    <2>2. row \in [state : States, result : Results]
      BY <2>1 DEF States
    <2>3. tick \in [step : {"none", "read", "write"}, result : Results, mine : BOOLEAN]
      BY <2>1 DEF NoTick
    <2>4. read \in [Requests -> Results \union {None}] /\ op \in Results
      BY <2>1
    <2>5. QED
      BY <2>1, <2>2, <2>3, <2>4, 0 \in 0 .. MaxFailures DEF TypeOK, Steps
  <1>2. Claimed /\ Flight /\ Covered /\ NoNewcomer /\ NothingLost
    BY DEF Claimed, Flight, Covered, NoNewcomer, NothingLost, NoObjectLost
  <1>3. NeverCancelled /\ WholeOrGone
    BY DEF NeverCancelled, WholeOrGone, Unset, NoTick
  <1>4. UndoIsSafe
    BY <1>3 DEF UndoIsSafe
  <1>5. QED
    BY <1>1, <1>2, <1>4 DEF IndInv, Base

(* Requests read the row and claim it.                                     *)
LEMMA RequestInv ==
  ASSUME IndInv, NEW r \in Requests, RequestStep(r)
  PROVE  IndInv'
  <1> USE BulkMoveAssumption
          DEF IndInv, Base, Claimed, Flight, Covered, NoNewcomer, UndoIsSafe,
              NeverCancelled, WholeOrGone, NothingLost, NoObjectLost, SafeFaults, TypeOK, storage,
              copier, Results, States, Steps, Fault
  <1>1. CASE ReadOperation(r)
    BY <1>1 DEF ReadOperation
  <1>2. CASE Claim(r)
    <2> USE <1>2 DEF Claim
    <2>0. row' \in [state : States, result : Results] /\ tick' \in [step : {"none", "read", "write"}, result : Results, mine : BOOLEAN]
      OBVIOUS
    <2>1. TypeOK'
      BY <2>0
    <2>2. Claimed' /\ Flight' /\ Covered' /\ NoNewcomer'
      OBVIOUS
    <2>3. UndoIsSafe'
      OBVIOUS
    <2>4. NothingLost'
      OBVIOUS
    <2>5. QED
      BY <2>1, <2>2, <2>3, <2>4
  <1>3. CASE ClaimRefused(r)
    BY <1>3 DEF ClaimRefused
  <1>4. QED
    BY <1>1, <1>2, <1>3 DEF RequestStep

(* Objects are copied, removed, and the copies undone, one by one.         *)
LEMMA CopyInv ==
  ASSUME IndInv, NEW o \in Objects \union Newcomers, CopyStep(o)
  PROVE  IndInv'
  <1> USE BulkMoveAssumption
          DEF IndInv, Base, Claimed, Flight, Covered, NoNewcomer, UndoIsSafe,
              NeverCancelled, WholeOrGone, NothingLost, NoObjectLost, SafeFaults, TypeOK, storage,
              copier, Results, States, Steps, Fault
  <1>1. CASE CopyBegins(o)
    BY <1>1 DEF CopyBegins
  <1>2. CASE CopyLands(o)
    BY <1>2 DEF CopyLands, CopyOf
  <1>3. CASE RemoveObject(o)
    BY <1>3 DEF RemoveObject
  <1>4. CASE UndoRemoves(o)
    BY <1>4 DEF UndoRemoves
  <1>5. QED
    BY <1>1, <1>2, <1>3, <1>4 DEF CopyStep

(* Ticks.                                                                  *)
LEMMA TickInv ==
  ASSUME IndInv, TickStep
  PROVE  IndInv'
  <1> USE BulkMoveAssumption
          DEF IndInv, Base, Claimed, Flight, Covered, NoNewcomer, UndoIsSafe,
              NeverCancelled, WholeOrGone, NothingLost, NoObjectLost, SafeFaults, TypeOK, storage,
              copier, Results, States, Steps, Fault
  <1>1. CASE TickStarts
    BY <1>1 DEF TickStarts, NoTick
  <1>2. CASE TickReads
    <2> USE <1>2 DEF TickReads, Current
    <2>0. row' \in [state : States, result : Results] /\ tick' \in [step : {"none", "read", "write"}, result : Results, mine : BOOLEAN]
      OBVIOUS
    <2>1. TypeOK'
      BY <2>0
    <2>2. Claimed' /\ Flight' /\ Covered' /\ NoNewcomer'
      OBVIOUS
    <2>3. UndoIsSafe'
      OBVIOUS
    <2>4. NothingLost'
      OBVIOUS
    <2>5. QED
      BY <2>1, <2>2, <2>3, <2>4
  <1>3. CASE TickCannotRead
    BY <1>3 DEF TickCannotRead
  <1>4. CASE TickWrites
    <2> USE <1>4, NoTickFacts DEF TickWrites
    <2> DEFINE marked == [tick.result EXCEPT !.reserved = TRUE]
    <2>1. tick.result \in Results
      OBVIOUS
    <2>2. marked \in Results
      BY <2>1, ResultMarks
    <2>3. row' = row \/ row' = [row EXCEPT !.result = marked]
      OBVIOUS
    <2>4. row' \in [state : States, result : Results]
      <3> HIDE DEF marked, Results
      <3> QED BY <2>2, <2>3
    <2>5. TypeOK'
      BY <2>4
    <2>6. Claimed' /\ Flight' /\ Covered' /\ NoNewcomer' /\ NothingLost'
      OBVIOUS
    <2>7. UndoIsSafe'
      <3>1. "cancel" \notin Faults => NeverCancelled'
        BY <2>1, ResultMarks
      <3>2. "removal" \notin Faults /\ "newcomer" \notin Faults => WholeOrGone'
        OBVIOUS
      <3>3. QED
        BY <3>1, <3>2
    <2>8. QED
      BY <2>5, <2>6, <2>7
  <1>5. QED
    BY <1>1, <1>2, <1>3, <1>4 DEF TickStep

(* What the environment does to one object.                                *)
LEMMA FaultObjectInv ==
  ASSUME IndInv, NEW o \in Objects \union Newcomers,
         CopyFails(o) \/ StrayLands(o) \/ NewcomerArrives(o)
  PROVE  IndInv'
  <1> USE BulkMoveAssumption
          DEF IndInv, Base, Claimed, Flight, Covered, NoNewcomer, UndoIsSafe,
              NeverCancelled, WholeOrGone, NothingLost, NoObjectLost, SafeFaults, TypeOK, storage,
              copier, Results, States, Steps, Fault
  <1>1. CASE CopyFails(o)
    BY <1>1 DEF CopyFails, Thrown
  <1>2. CASE StrayLands(o)
    BY <1>2 DEF StrayLands, CopyOf
  <1>3. CASE NewcomerArrives(o)
    BY <1>3 DEF NewcomerArrives
  <1>4. QED
    BY <1>1, <1>2, <1>3

(* Other faults, cancels and resolutions.                                  *)
LEMMA FaultInv ==
  ASSUME IndInv, \/ RemoveFails \/ CallFails \/ Crash
         \/ CancelReads \/ CancelWrites
         \/ ResolveDiscarded \/ ResolvePublished
  PROVE  IndInv'
  <1> USE BulkMoveAssumption
          DEF IndInv, Base, Claimed, Flight, Covered, NoNewcomer, UndoIsSafe,
              NeverCancelled, WholeOrGone, NothingLost, NoObjectLost, SafeFaults, TypeOK, storage,
              copier, Results, States, Steps, Fault
  <1>1. CASE RemoveFails
    BY <1>1 DEF RemoveFails, Thrown
  <1>2. CASE CallFails
    BY <1>2 DEF CallFails
  <1>3. CASE Crash
    <2> USE <1>3, NoTickFacts DEF Crash
    <2>0. row' \in [state : States, result : Results] /\ tick' \in [step : {"none", "read", "write"}, result : Results, mine : BOOLEAN]
      OBVIOUS
    <2>1. TypeOK'
      BY <2>0
    <2>2. Claimed' /\ Flight' /\ Covered' /\ NoNewcomer'
      OBVIOUS
    <2>3. UndoIsSafe'
      OBVIOUS
    <2>4. NothingLost'
      OBVIOUS
    <2>5. QED
      BY <2>1, <2>2, <2>3, <2>4
  <1>4. CASE CancelReads
    BY <1>4 DEF CancelReads, Asks
  <1>5. CASE CancelWrites
    <2> USE <1>5 DEF CancelWrites
    <2> DEFINE marked == [asking.result EXCEPT !.cancelled = TRUE]
    <2>1. asking.result \in Results \/ asking = None
      OBVIOUS
    <2>2. marked \in Results \/ asking = None
      BY <2>1, ResultMarks
    <2>3. row' = row \/ row' = [row EXCEPT !.result = marked] \/ row' = [row EXCEPT !.state = "cancelled"]
      OBVIOUS
    <2>4. row' \in [state : States, result : Results]
      <3> HIDE DEF marked, Results
      <3> QED BY <2>2, <2>3
    <2>5. TypeOK'
      BY <2>4
    <2>6. Claimed' /\ Flight' /\ Covered' /\ NoNewcomer' /\ NothingLost'
      OBVIOUS
    <2>7. UndoIsSafe'
      <3>1. "cancel" \notin Faults => NeverCancelled'
        BY <2>1, ResultMarks
      <3>2. "removal" \notin Faults /\ "newcomer" \notin Faults => WholeOrGone'
        OBVIOUS
      <3>3. QED
        BY <3>1, <3>2
    <2>8. QED
      BY <2>5, <2>6, <2>7
  <1>6. CASE ResolveDiscarded
    BY <1>6 DEF ResolveDiscarded
  <1>7. CASE ResolvePublished
    BY <1>7 DEF ResolvePublished
  <1>8. QED
    BY <1>1, <1>2, <1>3, <1>4, <1>5, <1>6, <1>7

(* The other steps of the commit.                                          *)
LEMMA MoverInv ==
  ASSUME IndInv, MoverStep, \A o \in Objects \union Newcomers : ~CopyStep(o)
  PROVE  IndInv'
  <1> USE BulkMoveAssumption
          DEF IndInv, Base, Claimed, Flight, Covered, NoNewcomer, UndoIsSafe,
              NeverCancelled, WholeOrGone, NothingLost, NoObjectLost, SafeFaults, TypeOK, storage,
              copier, Results, States, Steps, Fault
  <1>1. CASE DecideMoved
    BY <1>1 DEF DecideMoved, AlreadyMoved
  <1>2. CASE DecideResume
    BY <1>2 DEF DecideResume, AlreadyMoved
  <1>3. CASE DecideReserve
    <2> USE <1>3 DEF DecideReserve
    <2> DEFINE marked == [op EXCEPT !.reserved = TRUE]
    <2>1. op \in Results
      OBVIOUS
    <2>2. marked \in Results
      BY <2>1, ResultMarks
    <2>3. row' = row \/ row' = [row EXCEPT !.result = marked]
      OBVIOUS
    <2>4. row' \in [state : States, result : Results]
      <3> HIDE DEF marked, Results
      <3> QED BY <2>2, <2>3
    <2>5. TypeOK'
      BY <2>4
    <2>6. Claimed' /\ Flight' /\ Covered' /\ NoNewcomer' /\ NothingLost'
      OBVIOUS
    <2>7. UndoIsSafe'
      <3>1. "cancel" \notin Faults => NeverCancelled'
        BY <2>1, ResultMarks
      <3>2. "removal" \notin Faults /\ "newcomer" \notin Faults => WholeOrGone'
        OBVIOUS
      <3>3. QED
        BY <3>1, <3>2
    <2>8. QED
      BY <2>5, <2>6, <2>7
  <1>4. CASE DecideConflict
    BY <1>4 DEF DecideConflict
  <1>5. CASE DecideGone
    BY <1>5 DEF DecideGone
  <1>6. CASE TransferStarts
    BY <1>6 DEF TransferStarts
  <1>7. CASE TransferRefused
    BY <1>7 DEF TransferRefused
  <1>8. CASE CopyStops
    BY <1>8 DEF CopyStops
  <1>9. CASE CopyEnds
    BY <1>9 DEF CopyEnds, EveryCopyLanded
  <1>10. CASE RemoveEnds
    BY <1>10 DEF RemoveEnds
  <1>11. CASE UndoChecks
    BY <1>11 DEF UndoChecks
  <1>12. CASE UndoEnds
    BY <1>12 DEF UndoEnds
  <1>13. CASE Withdraw
    <2> USE <1>13 DEF Withdraw, Settle
    <2>0. row' \in [state : States, result : Results] /\ tick' \in [step : {"none", "read", "write"}, result : Results, mine : BOOLEAN]
      OBVIOUS
    <2>1. TypeOK'
      BY <2>0
    <2>2. Claimed' /\ Flight' /\ Covered' /\ NoNewcomer'
      OBVIOUS
    <2>3. UndoIsSafe'
      OBVIOUS
    <2>4. NothingLost'
      OBVIOUS
    <2>5. QED
      BY <2>1, <2>2, <2>3, <2>4
  <1>14. CASE Fails
    <2> USE <1>14 DEF Fails, Settle
    <2>0. row' \in [state : States, result : Results] /\ tick' \in [step : {"none", "read", "write"}, result : Results, mine : BOOLEAN]
      OBVIOUS
    <2>1. TypeOK'
      BY <2>0
    <2>2. Claimed' /\ Flight' /\ Covered' /\ NoNewcomer'
      OBVIOUS
    <2>3. UndoIsSafe'
      OBVIOUS
    <2>4. NothingLost'
      OBVIOUS
    <2>5. QED
      BY <2>1, <2>2, <2>3, <2>4
  <1>15. CASE Refuses
    <2> USE <1>15 DEF Refuses, Settle
    <2>0. row' \in [state : States, result : Results] /\ tick' \in [step : {"none", "read", "write"}, result : Results, mine : BOOLEAN]
      OBVIOUS
    <2>1. TypeOK'
      BY <2>0
    <2>2. Claimed' /\ Flight' /\ Covered' /\ NoNewcomer'
      OBVIOUS
    <2>3. UndoIsSafe'
      OBVIOUS
    <2>4. NothingLost'
      OBVIOUS
    <2>5. QED
      BY <2>1, <2>2, <2>3, <2>4
  <1>16. CASE Finish
    BY <1>16 DEF Finish
  <1>17. CASE Complete
    <2> USE <1>17 DEF Complete, Settle
    <2>0. row' \in [state : States, result : Results] /\ tick' \in [step : {"none", "read", "write"}, result : Results, mine : BOOLEAN]
      OBVIOUS
    <2>1. TypeOK'
      BY <2>0
    <2>2. Claimed' /\ Flight' /\ Covered' /\ NoNewcomer'
      OBVIOUS
    <2>3. UndoIsSafe'
      OBVIOUS
    <2>4. NothingLost'
      OBVIOUS
    <2>5. QED
      BY <2>1, <2>2, <2>3, <2>4
  <1>18. CASE CompleteRefused
    BY <1>18 DEF CompleteRefused
  <1>19. QED
    BY <1>1, <1>2, <1>3, <1>4, <1>5, <1>6, <1>7, <1>8, <1>9, <1>10, <1>11,
       <1>12, <1>13, <1>14, <1>15, <1>16, <1>17, <1>18 DEF MoverStep

LEMMA NextInv == IndInv /\ [Next]_vars => IndInv'
  <1> SUFFICES ASSUME IndInv, [Next]_vars PROVE IndInv'
    OBVIOUS
  <1>1. ASSUME NEW r \in Requests, RequestStep(r) PROVE IndInv'
    BY <1>1, RequestInv
  <1>2. ASSUME NEW o \in Objects \union Newcomers, CopyStep(o) PROVE IndInv'
    BY <1>2, CopyInv
  <1>3. CASE MoverStep
    BY <1>2, <1>3, MoverInv
  <1>4. CASE TickStep
    BY <1>4, TickInv
  <1>5. ASSUME NEW o \in Objects \union Newcomers,
               CopyFails(o) \/ StrayLands(o) \/ NewcomerArrives(o)
        PROVE  IndInv'
    BY <1>5, FaultObjectInv
  <1>6. CASE FaultStep
    BY <1>5, <1>6, FaultInv DEF FaultStep
  <1>7. CASE UNCHANGED vars
    BY <1>7 DEF vars, storage, copier, IndInv, Base, TypeOK, Claimed, Flight, Covered,
       NoNewcomer, UndoIsSafe, NeverCancelled, WholeOrGone, NothingLost, NoObjectLost
  <1>8. QED
    BY <1>1, <1>3, <1>4, <1>6, <1>7 DEF Next

THEOREM Inductive == Spec => []IndInv
  BY InitInv, NextInv, PTL DEF Spec

(***************************************************************************)
(* The row, the commit and the copy keep their types, whatever fails.      *)
(***************************************************************************)
THEOREM TypeCorrectness == Spec => []TypeOK
  <1>1. IndInv => TypeOK
    BY DEF IndInv, Base
  <1>2. QED
    BY <1>1, Inductive, PTL

(***************************************************************************)
(* The move never loses an object, for directories of any size, when       *)
(* nobody cancels; and with cancels when removals succeed and nobody else  *)
(* writes into the directories.                                            *)
(***************************************************************************)
THEOREM ObjectsAreSafe == ASSUME SafeFaults PROVE Spec => []NoObjectLost
  <1>1. IndInv => NoObjectLost
    BY DEF IndInv, NothingLost
  <1>2. QED
    BY <1>1, Inductive, PTL

(***************************************************************************)
(* Without other writers, also with cancels and failing removals, the      *)
(* transfer removes from the source only when all of it has been copied.   *)
(***************************************************************************)
THEOREM RemovalIsLate == ASSUME "newcomer" \notin Faults PROVE Spec => RemovalFollowsCopy
  <1> DEFINE A == source' \ source = {} /\ source' # source => source \subseteq dest
  <1>1. IndInv /\ [Next]_vars => [A]_vars
    <2> SUFFICES ASSUME IndInv, Next, source' # source PROVE A
      BY DEF vars, storage
    <2>1. \E o \in Objects \union Newcomers : RemoveObject(o)
      BY DEF Next, MoverStep, CopyStep, RequestStep, TickStep, FaultStep, storage,
         NewcomerArrives, ReadOperation, Claim, ClaimRefused, DecideMoved,
         DecideResume, DecideReserve, DecideConflict, DecideGone, TransferStarts,
         TransferRefused, CopyBegins, CopyLands, CopyFails, CopyStops, StrayLands,
         CopyEnds, RemoveEnds, RemoveFails, TickStarts, TickReads, TickCannotRead,
         TickWrites, UndoChecks, UndoRemoves, UndoEnds, Settle, Withdraw, Fails,
         Refuses, CallFails, Finish, Complete, CompleteRefused, Crash, CancelReads,
         CancelWrites, ResolveDiscarded, ResolvePublished
    <2>2. QED
      BY <2>1 DEF RemoveObject, IndInv, Base, Covered, NoNewcomer
  <1>2. QED
    BY <1>1, Inductive, PTL DEF Spec, RemovalFollowsCopy

-----------------------------------------------------------------------------
(* The source is empty of the directory's objects from the moment a commit *)
(* takes the move for done, and when the registry has it moved, as long as *)
(* an administrator has not settled the operation in between.              *)
Emptied ==
    /\ row.state \in {"ready", "committing"} /\ path = "to" => Objects \cap source = {}
    /\ row.state = "committing" /\ pc \in {"finish", "complete"} => Objects \cap source = {}
    /\ row.state = "committing" /\ pc = "complete" => path = "to"

(* A step that neither adds to the source, nor reaches the end of a        *)
(* commit, nor makes a settled row ready or committing again, keeps it.    *)
LEMMA EmptiedStays ==
  ASSUME Emptied,
         Objects \cap source' \subseteq source,
         path' = path,
         row'.state \in {"ready", "committing"} => row.state \in {"ready", "committing"},
         row'.state = "committing" /\ pc' \in {"finish", "complete"} =>
             pc' = pc /\ row.state = "committing"
  PROVE  Emptied'
  BY DEF Emptied

LEMMA EmptiedInv == IndInv /\ Emptied /\ [Next]_vars => Emptied'
  <1> SUFFICES ASSUME IndInv, Emptied, [Next]_vars PROVE Emptied'
    OBVIOUS
  <1> USE BulkMoveAssumption DEF IndInv, Base, Claimed, TypeOK, Steps, States, storage,
          copier, Fault
  <1>1. ASSUME NEW r \in Requests, RequestStep(r) PROVE Emptied'
    BY <1>1, EmptiedStays DEF RequestStep, ReadOperation, Claim, ClaimRefused
  <1>2. ASSUME NEW o \in Objects \union Newcomers, CopyStep(o) PROVE Emptied'
    BY <1>2, EmptiedStays DEF CopyStep, CopyBegins, CopyLands, CopyOf, RemoveObject,
       UndoRemoves
  <1>3. CASE TickStep
    BY <1>3, EmptiedStays DEF TickStep, TickStarts, TickReads, TickCannotRead, TickWrites
  <1>4. ASSUME NEW o \in Objects \union Newcomers,
               CopyFails(o) \/ StrayLands(o) \/ NewcomerArrives(o)
        PROVE  Emptied'
    BY <1>4, EmptiedStays DEF CopyFails, Thrown, StrayLands, CopyOf, NewcomerArrives
  <1>5. CASE RemoveFails \/ CallFails \/ Crash \/ CancelReads \/ CancelWrites
             \/ ResolveDiscarded
    BY <1>5, EmptiedStays DEF RemoveFails, Thrown, CallFails, Crash, CancelReads, Asks,
       CancelWrites, ResolveDiscarded
  <1>6. CASE ResolvePublished
    BY <1>6 DEF ResolvePublished, Emptied
  <1>7. CASE DecideMoved
    BY <1>7 DEF DecideMoved, AlreadyMoved, Emptied
  <1>8. CASE DecideResume \/ DecideReserve \/ DecideConflict \/ DecideGone
    BY <1>8, EmptiedStays DEF DecideResume, DecideReserve, DecideConflict, DecideGone
  <1>9. CASE TransferStarts \/ TransferRefused \/ CopyStops \/ CopyEnds
    BY <1>9, EmptiedStays DEF TransferStarts, TransferRefused, CopyStops, CopyEnds
  <1>10. CASE RemoveEnds
    BY <1>10 DEF RemoveEnds, Emptied
  <1>11. CASE UndoChecks \/ UndoEnds \/ Withdraw \/ Fails \/ Refuses
    BY <1>11, EmptiedStays DEF UndoChecks, UndoEnds, Withdraw, Fails, Refuses, Settle
  <1>12. CASE Finish
    BY <1>12 DEF Finish, Emptied
  <1>13. CASE Complete \/ CompleteRefused
    BY <1>13, EmptiedStays DEF Complete, CompleteRefused, Settle
  <1>14. CASE UNCHANGED vars
    BY <1>14 DEF vars, Emptied
  <1>15. QED
    BY <1>1, <1>2, <1>3, <1>4, <1>5, <1>6, <1>7, <1>8, <1>9, <1>10, <1>11, <1>12,
       <1>13, <1>14 DEF Next, MoverStep, FaultStep

(***************************************************************************)
(* A commit reports completed only a move that happened, of a directory of *)
(* any size, however often it was interrupted and resumed, in the cases in *)
(* which no object can be lost.                                            *)
(***************************************************************************)
THEOREM CompletedMoves == ASSUME SafeFaults PROVE Spec => CompletedMeansMoved
  <1> DEFINE A == pc = "complete" /\ row'.state = "completed" /\ row.state # "completed" =>
                     Objects \subseteq dest \ source /\ path = "to"
  <1>1. Init => Emptied
    BY DEF Init, Emptied
  <1>2. IndInv /\ Emptied /\ [Next]_vars => [A]_vars
    <2> SUFFICES ASSUME IndInv, Emptied, Next, pc = "complete",
                        row'.state = "completed", row.state # "completed"
                 PROVE  Objects \subseteq dest \ source /\ path = "to"
      OBVIOUS
    <2>1. row.state = "committing"
      BY DEF Next, MoverStep, CopyStep, RequestStep, TickStep, FaultStep, storage,
         copier, NewcomerArrives, ReadOperation, Claim, ClaimRefused, DecideMoved,
         DecideResume, DecideReserve, DecideConflict, DecideGone, TransferStarts,
         TransferRefused, CopyBegins, CopyLands, CopyFails, CopyStops, StrayLands,
         CopyEnds, RemoveEnds, RemoveFails, TickStarts, TickReads, TickCannotRead,
         TickWrites, UndoChecks, UndoRemoves, UndoEnds, Settle, Withdraw, Fails,
         Refuses, CallFails, Finish, Complete, CompleteRefused, Crash, CancelReads,
         CancelWrites, ResolveDiscarded, ResolvePublished, RemoveObject, IndInv, Base,
         TypeOK, States
    <2>2. Objects \cap source = {} /\ path = "to"
      BY <2>1 DEF Emptied
    <2>3. Objects \subseteq source \union dest
      BY DEF IndInv, NothingLost, NoObjectLost
    <2>4. QED
      BY <2>2, <2>3
  <1>3. Spec => []Emptied
    BY <1>1, EmptiedInv, Inductive, PTL DEF Spec
  <1>4. QED
    BY <1>2, <1>3, Inductive, PTL DEF Spec, CompletedMeansMoved

==============================================================================
