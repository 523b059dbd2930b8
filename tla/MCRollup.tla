------------------------------ MODULE MCRollup ------------------------------
(* Two coarser resolutions.                                                 *)
EXTENDS Rollup

CONSTANTS cpu, w1, w2
TwoResolutions == <<60, 600>>
=============================================================================
