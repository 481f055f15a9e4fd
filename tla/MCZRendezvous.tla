--------------------------- MODULE MCZRendezvous ---------------------------
(* ZRendezvous for TLC; no symmetry, since liveness is checked. *)
EXTENDS ZRendezvous
=============================================================================
