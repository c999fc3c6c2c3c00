--------------------------- MODULE MCDesktopPublish ---------------------------
(***************************************************************************)
(* Instances of DesktopPublish for TLC: two or three operations that meet  *)
(* at one path, and one content that other clients write.                  *)
(***************************************************************************)
EXTENDS DesktopPublish, TLC

CONSTANTS w1, w2, w3, x1

TwoWriters == {w1, w2}

ThreeWriters == {w1, w2, w3}

OneOther == {x1}

SavesOnly == {"save"}

FencedFaults == FaultKinds \ {"late"}

EndingFaults == FaultKinds \ {"damage", "resolve"}

DamageOnly == {"damage"}

WriterSymmetry == Permutations(ThreeWriters)
===============================================================================
