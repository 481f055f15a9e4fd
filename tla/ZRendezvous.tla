---------------------------- MODULE ZRendezvous ----------------------------
(***************************************************************************)
(* The worker thread pool, ZServer/PubCore/ZRendezvous.py, with the loop   *)
(* of the threads it starts, ZServer/PubCore/ZServerPublisher.py.          *)
(*                                                                         *)
(* One lock, the mutex, guards three lists: the locks of the threads that  *)
(* do not wait (pool), the request queue, and the locks of the threads     *)
(* that wait (ready).  A thread that finds the queue empty moves a lock    *)
(* from pool to ready and parks by acquiring it a second time; handle      *)
(* releases the last lock of ready to let one thread go on.  A thread has  *)
(* no lock of its own: it takes the last one of pool each time.  A lock is *)
(* named here by the thread that was started when it was allocated.        *)
(***************************************************************************)
EXTENDS Naturals, Sequences, FiniteSets, SequencesExt

CONSTANTS Threads,     \* the threads the constructor starts (its n)
          Callers,     \* the threads that call handle
          Requests,    \* the requests they hand in, each once
          NoRequest,   \* what a thread that is not publishing holds
          Nobody,      \* the owner of the mutex when it is free
          Constructor  \* the thread that runs __init__

ASSUME ThreadsAssumption == IsFiniteSet(Threads)
ASSUME NamesAssumption ==
    /\ Threads \cap Callers = {}
    /\ Nobody \notin Threads \cup Callers \cup {Constructor}
    /\ Constructor \notin Threads \cup Callers
    /\ NoRequest \notin Requests

VARIABLES mutex,     \* the owner of the lock behind _acquire and _release
          pool,      \* locks of the threads that do not wait for work
          requests,  \* the request queue
          ready,     \* locks of the threads that wait for work
          held,      \* the locks of pool and ready that are acquired
          pc,        \* where each worker thread is
          lock,      \* the local variable l of accept
          serving,   \* the request a thread publishes
          calling,   \* the request a caller of handle is queueing
          accepted   \* the requests given to handle so far

vars == <<mutex, pool, requests, ready, held, pc, lock, serving, calling,
          accepted>>
lists == <<pool, requests, ready>>
handling == <<calling, accepted>>

Init ==
    /\ mutex = Constructor
    /\ pool = <<>> /\ requests = <<>> /\ ready = <<>>
    /\ held = {}
    /\ pc = [t \in Threads |-> "unborn"]
    /\ lock = [t \in Threads |-> t]
    /\ serving = [t \in Threads |-> NoRequest]
    /\ calling = [c \in Callers |-> NoRequest]
    /\ accepted = {}

-----------------------------------------------------------------------------
(* The constructor holds the mutex while it starts the threads. *)

StartThread(t) ==
    /\ mutex = Constructor
    /\ pc[t] = "unborn"
    /\ held' = held \cup {t}
    /\ pool' = Append(pool, t)
    /\ pc' = [pc EXCEPT ![t] = "enter"]
    /\ UNCHANGED <<mutex, requests, ready, lock, serving, handling>>

Constructed ==
    /\ mutex = Constructor
    /\ \A t \in Threads : pc[t] # "unborn"
    /\ mutex' = Nobody
    /\ UNCHANGED <<lists, held, pc, lock, serving, handling>>

-----------------------------------------------------------------------------
(* accept, and the loop around it *)

Enter(t) ==
    /\ pc[t] = "enter"
    /\ mutex = Nobody
    /\ mutex' = t
    /\ pc' = [pc EXCEPT ![t] = "test"]
    /\ UNCHANGED <<lists, held, lock, serving, handling>>

\* The queue is empty: give the mutex up and wait on the last lock of the pool.
Park(t) ==
    /\ pc[t] = "test"
    /\ requests = <<>>
    /\ pool # <<>>                      \* pop of an empty list raises: PoolNeverEmpty
    /\ lock' = [lock EXCEPT ![t] = Last(pool)]
    /\ pool' = Front(pool)
    /\ ready' = Append(ready, Last(pool))
    /\ mutex' = Nobody
    /\ pc' = [pc EXCEPT ![t] = "parked"]
    /\ UNCHANGED <<requests, held, serving, handling>>

PutLockBack(t) == pool' = Append(pool, lock[t])

\* The second acquire of the lock succeeds once handle has released it.
Unpark(t) ==
    /\ pc[t] = "parked"
    /\ lock[t] \notin held
    /\ held' = held \cup {lock[t]}
    /\ pc' = [pc EXCEPT ![t] = "woken"]
    /\ UNCHANGED <<mutex, lists, lock, serving, handling>>

Reenter(t) ==
    /\ pc[t] = "woken"
    /\ mutex = Nobody
    /\ mutex' = t
    /\ PutLockBack(t)
    /\ pc' = [pc EXCEPT ![t] = "test"]
    /\ UNCHANGED <<requests, ready, held, lock, serving, handling>>

\* Mutated: pop() instead of pop(0).
PopLast(t) ==
    /\ serving' = [serving EXCEPT ![t] = Last(requests)]
    /\ requests' = Front(requests)

PopFirst(t) ==
    /\ serving' = [serving EXCEPT ![t] = Head(requests)]
    /\ requests' = Tail(requests)

\* Return the first request and give the mutex up.
Take(t) ==
    /\ pc[t] = "test"
    /\ requests # <<>>
    /\ PopFirst(t)
    /\ mutex' = Nobody
    /\ pc' = [pc EXCEPT ![t] = "publish"]
    /\ UNCHANGED <<pool, ready, held, lock, handling>>

\* publish_module returns or raises; either way the loop goes round.
Published(t) ==
    /\ pc[t] = "publish"
    /\ serving' = [serving EXCEPT ![t] = NoRequest]
    /\ pc' = [pc EXCEPT ![t] = "enter"]
    /\ UNCHANGED <<mutex, lists, held, lock, handling>>

-----------------------------------------------------------------------------
(* handle *)

HandleAcquire(c, r) ==
    /\ mutex = Nobody
    /\ calling[c] = NoRequest
    /\ r \notin accepted
    /\ mutex' = c
    /\ calling' = [calling EXCEPT ![c] = r]
    /\ accepted' = accepted \cup {r}
    /\ UNCHANGED <<lists, held, pc, lock, serving>>

\* Mutated: nobody is woken; the lock is released but stays in ready; the
\* request is cleared before it is queued.
WakeNobody == UNCHANGED <<ready, held>>
WakeAndForget ==
    IF ready # <<>>
    THEN held' = held \ {Last(ready)} /\ UNCHANGED ready
    ELSE UNCHANGED <<ready, held>>
QueueRequest(c) == requests' = Append(requests, calling[c])

\* If a thread waits, release the last lock of ready.
WakeOne ==
    IF ready # <<>>
    THEN /\ ready' = Front(ready)
         /\ held' = held \ {Last(ready)}
    ELSE UNCHANGED <<ready, held>>

HandleQueue(c) ==
    /\ calling[c] # NoRequest
    /\ QueueRequest(c)
    /\ calling' = [calling EXCEPT ![c] = NoRequest]
    /\ WakeOne
    /\ UNCHANGED <<mutex, pool, pc, lock, serving, accepted>>

HandleRelease(c) ==
    /\ mutex = c
    /\ calling[c] = NoRequest
    /\ mutex' = Nobody
    /\ UNCHANGED <<lists, held, pc, lock, serving, handling>>

-----------------------------------------------------------------------------
Accept(t) == Enter(t) \/ Park(t) \/ Unpark(t) \/ Reenter(t) \/ Take(t)

Handle(c) ==
    \/ \E r \in Requests : HandleAcquire(c, r)
    \/ HandleQueue(c)
    \/ HandleRelease(c)

Next ==
    \/ \E t \in Threads : StartThread(t) \/ Accept(t) \/ Published(t)
    \/ Constructed
    \/ \E c \in Callers : Handle(c)

Spec == Init /\ [][Next]_vars

\* The operating system runs every thread that can run, and handle and __init__
\* have no loop that waits for application code.  Published has no fairness:
\* the application may never return.
Fairness ==
    /\ WF_vars(Constructed \/ \E t \in Threads : StartThread(t))
    /\ \A t \in Threads : WF_vars(Accept(t))
    /\ \A c \in Callers : WF_vars(HandleQueue(c) \/ HandleRelease(c))

FairSpec == Spec /\ Fairness
-----------------------------------------------------------------------------
(* Properties *)

TypeOK ==
    /\ mutex \in Threads \cup Callers \cup {Nobody, Constructor}
    /\ pool \in Seq(Threads) /\ requests \in Seq(Requests) /\ ready \in Seq(Threads)
    /\ held \subseteq Threads
    /\ pc \in [Threads -> {"unborn", "enter", "test", "parked", "woken", "publish"}]
    /\ lock \in [Threads -> Threads]
    /\ serving \in [Threads -> Requests \cup {NoRequest}]
    /\ calling \in [Callers -> Requests \cup {NoRequest}]
    /\ accepted \subseteq Requests

\* The threads on their way to look at the queue, with nothing that could keep
\* them from it but the mutex.
Awake == {t \in Threads : \/ pc[t] \in {"enter", "test", "woken"}
                          \/ pc[t] = "parked" /\ lock[t] \notin held}
Asleep == {t \in Threads : pc[t] = "parked" /\ lock[t] \in held}

\* A thread that is about to park finds a lock in the pool: pool.pop() at line 63
\* never meets an empty list, though the locks move between threads.
PoolNeverEmpty ==
    \A t \in Threads : pc[t] = "test" /\ requests = <<>> => pool # <<>>

\* No lost wakeup: while a thread sleeps, at least as many threads as there are
\* requests are already on their way to the queue, so no request waits for a
\* sleeping thread.
NoLostWakeup == Asleep # {} => Len(requests) <= Cardinality(Awake)

\* Every lock of ready keeps one sleeping thread, and each sleeping thread can be
\* reached through ready: the release at line 98 is never that of a lock nobody
\* holds (thread.error) and never leaves a thread behind.
ReadyIsTheSleepers ==
    /\ {lock[t] : t \in Asleep} = Range(ready)
    /\ Cardinality(Asleep) = Len(ready)

\* The pool behaves as the one queue RequestQueue describes: each request is taken
\* once, by one thread, in the order handle queued them.
Abstract == INSTANCE RequestQueue WITH
    queue <- requests,
    accepted <- accepted \ {calling[c] : c \in Callers}
ImplementsQueue == Abstract!Spec

\* ... and it takes one whenever a thread has nothing to do.  A thread starts to
\* count as idle once it is started, so the promise is the abstract one.
ConservesWork == Abstract!WorkConserving

=============================================================================
