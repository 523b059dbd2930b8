--------------------------- MODULE MCSliceInsert ---------------------------
(* Instances of SliceInsert for TLC.                                         *)
EXTENDS SliceInsert

CONSTANTS s1, s2, s3, w1, w2

ThreeSeries == {s1, s2, s3}
TwoWorkers == {w1, w2}
=============================================================================
