---------------------------- MODULE MCHttpServer ----------------------------
(* HttpServer for TLC: what the clients send. *)
EXTENDS HttpServer

CONSTANTS c1, c2, c3, r1, r2, r3, r4, r5, r6, r7

\* A connection with three good requests, or one with good requests among bad ones
\* and another with a bad one.
Clients == (c1 :> <<r1, r2, r3>>) @@ (c2 :> <<r4, r5, r6>>) @@ (c3 :> <<r7>>)
Sent ==
    (r1 :> "get") @@ (r2 :> "post") @@ (r3 :> "last")
    @@ (r4 :> "get") @@ (r5 :> "fault") @@ (r6 :> "blank") @@ (r7 :> "bad")
OneOrTwo == {{c1}, {c2, c3}}
=============================================================================
