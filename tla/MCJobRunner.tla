----------------------------- MODULE MCJobRunner -----------------------------
(***************************************************************************)
(* Instances of JobRunner for TLC.                                         *)
(***************************************************************************)
EXTENDS JobRunner, TLC

CONSTANTS ada, bob

(* The recorded, re-authorized jobs the archive routes queue, and bare ones. *)
Guarded(i) == [identity |-> i, authorize |-> TRUE, onOutcome |-> TRUE]

Bare(i) == [identity |-> i, authorize |-> FALSE, onOutcome |-> FALSE]

TwoIdentities == {ada, bob}

MixedInputs == {Guarded(ada), Bare(bob)}
==============================================================================
