------------------------- MODULE PipelinedConnection -------------------------
(***************************************************************************)
(* What an HTTP connection of ZServer promises its client: the requests of *)
(* a connection are answered in the order they arrived, a response is      *)
(* never resumed once the next one has begun, and none is left out.        *)
(***************************************************************************)
EXTENDS Naturals

CONSTANTS Channels   \* the connections

VARIABLES arrived,   \* how many requests have arrived on each
          turn       \* the one whose response was last sent a piece of, or 0

vars == <<arrived, turn>>

Init ==
    /\ arrived = [c \in Channels |-> 0]
    /\ turn = [c \in Channels |-> 0]

Arrive(c) ==
    /\ arrived' = [arrived EXCEPT ![c] = @ + 1]
    /\ UNCHANGED turn

\* The first piece of the next response; further pieces are stuttering steps.
Answer(c) ==
    /\ turn[c] < arrived[c]
    /\ turn' = [turn EXCEPT ![c] = @ + 1]
    /\ UNCHANGED arrived

Next == \E c \in Channels : Arrive(c) \/ Answer(c)

Spec == Init /\ [][Next]_vars
=============================================================================
