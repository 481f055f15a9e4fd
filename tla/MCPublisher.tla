---------------------------- MODULE MCPublisher ----------------------------
(* Publisher for TLC: requests that write overlapping objects. *)
EXTENDS Publisher, TLC

WorkersAreAlike == Permutations(Workers)

CONSTANTS r1, r2, r3, o1, o2

\* r1 writes two objects, the others one of them each.
Overlapping == (r1 :> {o1, o2}) @@ (r2 :> {o1}) @@ (r3 :> {o2})
SameObject == (r1 :> {o1}) @@ (r2 :> {o1})
=============================================================================
