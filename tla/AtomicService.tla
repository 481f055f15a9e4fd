--------------------------- MODULE AtomicService ---------------------------
(***************************************************************************)
(* What the publisher promises of every request: it is applied to the      *)
(* database as a whole or not at all, at most once, on the state the       *)
(* requests before it left; and the client is told "ok" only of a request  *)
(* that was applied and "failed" only of one that was not.                 *)
(***************************************************************************)
EXTENDS Sequences, Functions

CONSTANTS Requests,  \* the requests clients make
          Objects,   \* the objects of the database
          Touches,   \* the objects the application writes for each request
          Dooms      \* the requests whose transaction the application dooms

VARIABLES db,        \* the requests applied to each object, in order
          answer     \* what the client of each request was told

Init ==
    /\ db = [o \in Objects |-> <<>>]
    /\ answer = [r \in Requests |-> "none"]

Applied(r) == \A o \in Touches[r] : r \in Range(db[o])
NotApplied(r) == \A o \in Touches[r] : r \notin Range(db[o])

Apply(r) ==
    /\ answer[r] = "none" /\ NotApplied(r)
    /\ db' = [o \in Objects |-> IF o \in Touches[r] THEN Append(db[o], r) ELSE db[o]]
    /\ UNCHANGED answer

Answer(r) ==
    /\ answer[r] = "none"
    /\ \/ (Applied(r) \/ r \in Dooms) /\ answer' = [answer EXCEPT ![r] = "ok"]
       \/ NotApplied(r) /\ answer' = [answer EXCEPT ![r] = "failed"]
    /\ UNCHANGED db

Next == \E r \in Requests : Apply(r) \/ Answer(r)

Spec == Init /\ [][Next]_<<db, answer>>
=============================================================================
