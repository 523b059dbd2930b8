---------------------------- MODULE MCStartStop ----------------------------
(* Instances of StartStop for TLC.                                           *)
EXTENDS StartStop, TLC

CONSTANTS a, b, c

TwoProcs == {a, b}
ThreeProcs == {a, b, c}
Symmetry == Permutations(ThreeProcs)
=============================================================================
