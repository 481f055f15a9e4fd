---------------------------- MODULE MCTransience ----------------------------
(* Instances of TransientContainer.                                         *)
EXTENDS TransientContainer, TLC

CONSTANTS t1, t2, k1, k2, i1, i2, i3

OneKey == [i \in Items |-> k1]
Mixed == (i1 :> k1) @@ (i2 :> k1) @@ (i3 :> k2)
Same == Permutations(Threads) \cup Permutations({i1, i2})
=============================================================================
