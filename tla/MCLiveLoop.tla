----------------------------- MODULE MCLiveLoop -----------------------------
(* The live loop for TLC: the heads are interchangeable.                   *)
EXTENDS LiveLoop, TLC

HeadSymmetry == Permutations(Heads)
=============================================================================
