---------------------------- MODULE MCStartGate ----------------------------
(* Instances of StartGate for TLC.                                           *)
EXTENDS StartGate, TLC

CONSTANTS w1, w2, w3

ThreeWriters == {w1, w2, w3}
=============================================================================
