---------------------------- MODULE MCObjectTree ----------------------------
(* Instances of ObjectTree.                                                 *)
EXTENDS ObjectTree, TLC

CONSTANTS root, f, g, x, y, z, a, b, ca,
          MaxSize   \* objects in the tree and locks: a bound of the model

AllKinds == {Folders, Ordered, Vetoers, Replaceable}
CopyIds == a :> ca
Same == Permutations({f, g}) \cup Permutations({x, y})

Small == Cardinality(Below(Site, Root)) + Cardinality({n \in Nodes : Locked(n)}) <= MaxSize
=============================================================================
