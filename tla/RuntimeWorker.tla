----------------------------- MODULE RuntimeWorker -----------------------------
(***************************************************************************)
(* The controller that runs an optional worker (OCR, indexer, models) only *)
(* while the API's feature document asks for it, from                      *)
(* services/runtime/src/fdrive_runtime/controller.py.  Owners save a new   *)
(* revision of that document by compare and set                            *)
(* (apps/api/src/features/service.ts); a save that is refused is left out. *)
(*                                                                         *)
(* One tick of time is one poll.  A save between the answer to a poll and  *)
(* what the controller does with it is as good as one after the poll.  A   *)
(* worker that is told to stop does stop, at the latest when it is killed. *)
(***************************************************************************)
EXTENDS Naturals

CONSTANTS
    MaxStarts,           \* max_attempts
    RetryAfter,          \* retry_after_seconds, in polls
    StaleAfter,          \* stale_seconds
    UnreachableAfter,    \* unreachable_seconds
    MaxSaves,            \* bound: revisions of the document
    MaxOutages,          \* bound: polls that fail
    MaxExits             \* bound: starts that fail and workers that exit

ASSUME RuntimeAssumption ==
    /\ MaxStarts \in Nat \ {0} /\ RetryAfter \in Nat \ {0}
    /\ StaleAfter \in Nat \ {0} /\ UnreachableAfter \in Nat
    /\ StaleAfter <= UnreachableAfter
    /\ {MaxSaves, MaxOutages, MaxExits} \subseteq Nat

(***************************************************************************)
(* document: its revision, and whether it wants this worker.               *)
(* child: a subprocess runs.  known: the revision last reconciled.         *)
(* latched: polls since the tries were found exhausted, Unlatched before   *)
(* age: polls since the last good document, at most UnreachableAfter.      *)
(* offFor: history, polls since the document stopped wanting the worker.   *)
(***************************************************************************)
VARIABLES document, child, known, tries, latched, age, offFor,
          outages, exits

runtimeVars == <<document, child, known, tries, latched, age, offFor,
                 outages, exits>>

NoRevision == MaxSaves + 1

Unlatched == RetryAfter + 1

RuntimeInit ==
    /\ document = [revision |-> 0, wanted |-> FALSE]
    /\ child = FALSE /\ known = NoRevision
    /\ tries = 0 /\ latched = Unlatched
    /\ age = UnreachableAfter
    /\ offFor = 0
    /\ outages = 0 /\ exits = 0

Capped(n, most) == IF n < most THEN n ELSE most

(* A poll later.                                                           *)
Older == Capped(age + 1, UnreachableAfter)

Waited == IF latched = Unlatched THEN Unlatched ELSE Capped(latched + 1, RetryAfter)

OffLonger == offFor' = IF document.wanted THEN 0 ELSE Capped(offFor + 1, UnreachableAfter + 1)

-----------------------------------------------------------------------------
OwnerSaves(wanted) ==
    /\ document.revision < MaxSaves
    /\ document' = [revision |-> document.revision + 1, wanted |-> wanted]
    /\ offFor' = IF wanted THEN 0 ELSE offFor
    /\ UNCHANGED <<child, known, tries, latched, age, outages, exits>>

-----------------------------------------------------------------------------
(***************************************************************************)
(* run: a document the controller rejects stops the worker after the stale *)
(* window, no answer at all only after the longer one.                     *)
(***************************************************************************)
Patience_Forever(reached) == IF reached THEN StaleAfter ELSE UnreachableAfter + 1

Patience(reached) == IF reached THEN StaleAfter ELSE UnreachableAfter

PollFails(reached) ==
    /\ outages < MaxOutages
    /\ outages' = outages + 1
    /\ age' = Older
    /\ child' = (child /\ Older < Patience(reached))
    /\ latched' = Waited
    /\ OffLonger
    /\ UNCHANGED <<document, known, tries, exits>>

(***************************************************************************)
(* reconcile with a document.  A new revision forgets the failed tries.    *)
(***************************************************************************)
Answered ==
    /\ age' = 0
    /\ known' = document.revision
    /\ OffLonger
    /\ UNCHANGED <<document, outages>>

TriesNow == IF document.revision = known THEN tries ELSE 0

LatchNow == IF document.revision = known THEN Waited ELSE Unlatched

(* Nothing to start: the worker is not wanted, or it runs.                 *)
Rests ==
    /\ ~document.wanted \/ child
    /\ Answered
    /\ child' = (child /\ document.wanted)
    /\ tries' = TriesNow /\ latched' = LatchNow
    /\ exits' = exits

(* The tries are used up: wait for the retry window.                       *)
WindowOver_Never == FALSE

WindowOver == LatchNow = RetryAfter

Latches ==
    /\ document.wanted /\ ~child
    /\ TriesNow >= MaxStarts /\ ~WindowOver
    /\ Answered
    /\ child' = FALSE
    /\ tries' = TriesNow
    /\ latched' = IF LatchNow = Unlatched THEN 0 ELSE LatchNow
    /\ exits' = exits

(* Popen, which starts the worker or raises.                               *)
Starts ==
    /\ document.wanted /\ ~child
    /\ TriesNow < MaxStarts \/ WindowOver
    /\ Answered
    /\ tries' = IF TriesNow < MaxStarts THEN TriesNow + 1 ELSE 1
    /\ latched' = IF TriesNow < MaxStarts THEN LatchNow ELSE Unlatched
    /\ \/ child' = TRUE /\ exits' = exits
       \/ child' = FALSE /\ exits < MaxExits /\ exits' = exits + 1

(* The worker ends by itself; the next poll finds out.                     *)
ChildExits ==
    /\ child /\ exits < MaxExits
    /\ child' = FALSE /\ exits' = exits + 1
    /\ UNCHANGED <<document, known, tries, latched, age, offFor, outages>>

PollAnswers == Rests \/ Latches \/ Starts

RuntimeNext ==
    \/ \E wanted \in BOOLEAN : OwnerSaves(wanted)
    \/ \E reached \in BOOLEAN : PollFails(reached)
    \/ PollAnswers
    \/ ChildExits

(* The loop polls for ever, and outages end.                               *)
RuntimeFairness == WF_runtimeVars(PollAnswers)

RuntimeSpec == RuntimeInit /\ [][RuntimeNext]_runtimeVars

RuntimeFairSpec == RuntimeSpec /\ RuntimeFairness

-----------------------------------------------------------------------------
RuntimeTypeOK ==
    /\ document \in [revision : 0 .. MaxSaves, wanted : BOOLEAN]
    /\ child \in BOOLEAN
    /\ known \in 0 .. NoRevision
    /\ tries \in 0 .. MaxStarts
    /\ latched \in 0 .. Unlatched
    /\ age \in 0 .. UnreachableAfter
    /\ offFor \in 0 .. UnreachableAfter + 1
    /\ outages \in 0 .. MaxOutages /\ exits \in 0 .. MaxExits

(***************************************************************************)
(* "a partial API outage cannot leave optional processing running": once   *)
(* no document wants the worker it is stopped within the unreachable       *)
(* window, whichever polls fail in whichever way.                          *)
(***************************************************************************)
OffWithinWindow == child => offFor < UnreachableAfter

(***************************************************************************)
(* In the end the worker runs exactly if the document wants it: a worker   *)
(* latched off by failures or outages is tried again without a new save.   *)
(***************************************************************************)
WorkerFollowsFeatures == <>[](child <=> document.wanted)
=============================================================================
