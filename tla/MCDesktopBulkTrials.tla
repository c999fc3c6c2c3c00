------------------------- MODULE MCDesktopBulkTrials -------------------------
(***************************************************************************)
(* Two trials of one move, chosen at the start: cancels, crashes,          *)
(* administrators and overlapping requests where removals succeed and      *)
(* nobody else writes, or a client that retries whatever fails, with none  *)
(* of those.  A cancel after a removal that failed, or beside another      *)
(* client's new object at the source, loses objects: that has its own run. *)
(***************************************************************************)
EXTENDS MCDesktopBulkMove

VARIABLE trial

Interrupted ==
    \/ CancelReads \/ Crash \/ ResolveDiscarded \/ ResolvePublished
    \/ \E r, s \in Requests : ReadOperation(r) /\ read[s] # None

TrialInit == Init /\ trial \in {"cancels", "retries"}

TrialNext ==
    /\ Next /\ UNCHANGED trial
    /\ ~(trial = "cancels" /\ (RemoveFails \/ \E o \in Newcomers : NewcomerArrives(o)))
    /\ ~(trial = "retries" /\ Interrupted)

TrialSpec ==
    /\ TrialInit /\ [][TrialNext]_<<vars, trial>>
    /\ WF_vars(MoverStep)
    /\ \A r \in Requests : WF_vars(trial = "retries" /\ RequestStep(r))

(* Retries converge, as the comment of the transfer promises.              *)
RetriesConverge == trial = "retries" => Converges
==============================================================================
