------------------------------ MODULE MCHasher ------------------------------
(* Two keys that meet the hash keys of two servers in opposite orders.      *)
EXTENDS Hasher

CONSTANTS s1, s2, h1, h2, k1, k2, c1, c2, a1, a2

OneEach == [s \in {s1, s2} |-> IF s = s1 THEN h1 ELSE h2]
ThreeOptions == {<<1, 2>>, <<2, 1>>, <<2, 2>>}
TwoOrders == [k \in {k1, k2} |->
    IF k = k1 THEN <<h1, h2, Nowhere>> ELSE <<h2, Nowhere, h1>>]
=============================================================================
