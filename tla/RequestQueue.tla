---------------------------- MODULE RequestQueue ----------------------------
(***************************************************************************)
(* What the worker pool of ZServer promises to the rest of the server,     *)
(* without its locks: requests handed to PubCore.handle wait in one queue, *)
(* and every worker thread that has nothing to do takes the oldest one.    *)
(***************************************************************************)
EXTENDS Naturals, Sequences

CONSTANTS Threads,    \* the worker threads
          Requests,   \* the requests that may be handed to the pool
          NoRequest   \* what a thread that is not publishing holds

VARIABLES queue,      \* the requests no thread has taken yet, oldest first
          serving,    \* the request each thread is publishing
          accepted    \* the requests handed in so far

vars == <<queue, serving, accepted>>

Init ==
    /\ queue = <<>>
    /\ serving = [t \in Threads |-> NoRequest]
    /\ accepted = {}

\* A request is handed in, once.
Submit(r) ==
    /\ r \notin accepted
    /\ accepted' = accepted \cup {r}
    /\ queue' = Append(queue, r)
    /\ UNCHANGED serving

\* A thread with nothing to do takes the oldest request.
Take(t) ==
    /\ queue # <<>>
    /\ serving[t] = NoRequest
    /\ serving' = [serving EXCEPT ![t] = Head(queue)]
    /\ queue' = Tail(queue)
    /\ UNCHANGED accepted

\* The publisher returns; nothing says that it ever does.
Finish(t) ==
    /\ serving[t] # NoRequest
    /\ serving' = [serving EXCEPT ![t] = NoRequest]
    /\ UNCHANGED <<queue, accepted>>

Next ==
    \/ \E r \in Requests : Submit(r)
    \/ \E t \in Threads : Take(t) \/ Finish(t)

Spec == Init /\ [][Next]_vars

\* While a request waits and some thread has nothing to do, a request is taken.
WorkConserving == WF_vars(\E t \in Threads : Take(t))
=============================================================================
