------------------------------ MODULE MCOutput ------------------------------
(* Two lines and two workers, told apart only by name.                    *)
EXTENDS Output

CONSTANTS l1, l2, w1, w2
=============================================================================
