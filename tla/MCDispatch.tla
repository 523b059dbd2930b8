----------------------------- MODULE MCDispatch -----------------------------
(* Instances of Dispatch for TLC.                                            *)
EXTENDS Dispatch, TLC

CONSTANTS j1, j2, j3, j4, j5

FiveJobs == {j1, j2, j3, j4, j5}
=============================================================================
