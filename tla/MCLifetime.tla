----------------------------- MODULE MCLifetime -----------------------------
(* Lifetime for TLC: two clients, one request each. *)
EXTENDS Lifetime

CONSTANTS c1, c2, r1, r2

OneEach == (c1 :> <<r1>>) @@ (c2 :> <<r2>>)
Kinds2 == (r1 :> "get") @@ (r2 :> "last")
OneFault == (r1 :> "last") @@ (r2 :> "fault")
=============================================================================
