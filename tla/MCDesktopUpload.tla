--------------------------- MODULE MCDesktopUpload ---------------------------
(***************************************************************************)
(* Instances of DesktopUpload for TLC: two upload requests for one         *)
(* operation, on two API processes.                                        *)
(***************************************************************************)
EXTENDS DesktopUpload, TLC

CONSTANTS a1, a2, p1, p2

TwoAttempts == {a1, a2}

TwoProcesses == {p1, p2}

(* The requests are interchangeable, and so are the processes.             *)
Symmetry2 == Permutations(TwoAttempts) \union Permutations(TwoProcesses)
==============================================================================
