-------------------------- MODULE MCDesktopBulkMove --------------------------
(***************************************************************************)
(* Instances of DesktopBulkMove for TLC: a directory of two or three       *)
(* objects, one or two commit requests.                                    *)
(***************************************************************************)
EXTENDS DesktopBulkMove, TLC

CONSTANTS o1, o2, o3, n1, r1, r2

TwoObjects == {o1, o2}

ThreeObjects == {o1, o2, o3}

NoNewcomers == {}

OneNewcomer == {n1}

OneRequest == {r1}

TwoRequests == {r1, r2}

CancelOnly == {"cancel"}

CancelAndRemoval == {"removal", "cancel"}

NewcomerOnly == {"newcomer"}

ObjectSymmetry == Permutations(ThreeObjects) \union Permutations(TwoRequests)
==============================================================================
