---------------------------- MODULE MCLogMetric ----------------------------
(* Instances of LogMetric for TLC: two or three points, interchangeable      *)
(* unless one of them carries no time stamp.                                 *)
EXTENDS LogMetric, TLC

CONSTANTS p1, p2, p3

OnePoint == {p1}
TwoPoints == {p1, p2}
ThreePoints == {p1, p2, p3}
NoTime == {p2}
TwoSymmetry == Permutations(TwoPoints)
ThreeSymmetry == Permutations(ThreePoints)
=============================================================================
