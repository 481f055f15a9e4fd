----------------------------- MODULE Publisher -----------------------------
(***************************************************************************)
(* How a worker thread publishes a request: publish() and                  *)
(* publish_module_standard() of ZPublisher/Publish.py, with the error hook *)
(* and the transactions manager of Zope2/App/startup.py, the request's and *)
(* the response's retry(), and ZServerPublisher around them.               *)
(*                                                                         *)
(* Threads share nothing but the database.  It keeps the state a           *)
(* connection saw when it was opened (MVCC), and refuses with a            *)
(* ConflictError a commit whose objects have changed since then.           *)
(***************************************************************************)
EXTENDS Naturals, Sequences, FiniteSets, Functions

CONSTANTS Workers,     \* the threads of the pool
          Requests,    \* the requests clients make
          Objects,     \* the objects of the database
          Touches,     \* the objects the application writes for each request
          Dooms,       \* the requests whose transaction the application dooms
          Streams,     \* the requests answered with response.write
          Raises,      \* what the application and subscribers may raise
          Failing,     \* the events whose subscribers may raise
          RetryMaxCount,      \* HTTPRequest.retry_max_count, a class attribute
          MaxConflictRetries, \* max-conflict-retries of the configuration
          NoRequest    \* no request

Exceptions == {"error",     \* any other exception
               "conflict",  \* ConflictError
               "retry",     \* ZPublisher.Retry
               "redirect",  \* Redirect
               "exit"}      \* SystemExit

Events == {"PubStart", "PubBeforeCommit", "PubSuccess", "PubBeforeAbort", "PubFailure"}

ASSUME PublisherAssumption ==
    /\ Touches \in [Requests -> SUBSET Objects]
    /\ Dooms \subseteq Requests /\ Streams \subseteq Requests
    /\ Raises \subseteq Exceptions /\ Failing \subseteq Events
    /\ RetryMaxCount \in Nat /\ MaxConflictRetries \in Nat
    /\ NoRequest \notin Requests

VARIABLES
    db,          \* the requests applied to each object, in order
    waiting,     \* the requests no thread has taken
    wire,        \* the status lines sent for each request
    logged,      \* the status the access log has for each request
    asked,       \* the server exits once this request is served
    pc,          \* where each thread is
    serving,     \* the request it publishes
    attempt,     \* request.retry_count: how often it was retried
    exc,         \* the exception being handled
    outcome,     \* how publish ends: it returns the page, returns a rendered
                 \* error, raises, or retries
    retrying,    \* the flag the failure events carry
    promised,    \* the attempts whose PubFailure said that there will be a retry
    interaction, \* the thread has a security interaction
    snapshot,    \* the database as its connection sees it
    pending,     \* the objects changed in its transaction
    wrote,       \* the attempts whose responses have written their headers
    status,      \* the status of the response of each attempt
    exiting      \* the responses asked to shut the server down

shared == <<db, waiting, wire, logged, asked>>
request == <<serving, attempt>>
failure == <<exc, outcome, retrying, promised>>
transaction == <<interaction, snapshot, pending>>
response == <<wrote, status, exiting>>
vars == <<shared, pc, request, failure, transaction, response>>

Attempts == 0 .. RetryMaxCount + 1
NewStatus == [n \in Attempts |-> "ok"]

Init ==
    /\ db = [o \in Objects |-> <<>>]
    /\ waiting = Requests
    /\ wire = [r \in Requests |-> <<>>]
    /\ logged = [r \in Requests |-> "none"]
    /\ asked = {}
    /\ pc = [w \in Workers |-> "idle"]
    /\ serving = [w \in Workers |-> NoRequest]
    /\ attempt = [w \in Workers |-> 0]
    /\ exc = [w \in Workers |-> "error"]
    /\ outcome = [w \in Workers |-> "page"]
    /\ retrying = [w \in Workers |-> FALSE]
    /\ promised = [w \in Workers |-> {}]
    /\ interaction = [w \in Workers |-> FALSE]
    /\ snapshot = [w \in Workers |-> db]
    /\ pending = [w \in Workers |-> {}]
    /\ wrote = [w \in Workers |-> {}]
    /\ status = [w \in Workers |-> NewStatus]
    /\ exiting = [w \in Workers |-> {}]

Goto(w, label) == pc' = [pc EXCEPT ![w] = label]

\* A statement of publish's try block raises k.
Raise(w, k) == exc' = [exc EXCEPT ![w] = k] /\ Goto(w, "hook")

\* What the application may raise, and the subscribers to an event.
RaisedBy(event) == IF event \in Failing THEN Raises ELSE {}

\* transaction.abort()
AbortTransaction(w) == pending' = [pending EXCEPT ![w] = {}]

\* Mutated: the interaction stays.
KeepInteraction(w) == UNCHANGED interaction

EndInteraction(w) == interaction' = [interaction EXCEPT ![w] = FALSE]

-----------------------------------------------------------------------------
(* The try block of publish *)

\* ZServerPublisher gets a request and calls publish_module_standard.
Take(w) ==
    /\ pc[w] = "idle"
    /\ \E r \in waiting :
         /\ serving' = [serving EXCEPT ![w] = r]
         /\ waiting' = waiting \ {r}
    /\ attempt' = [attempt EXCEPT ![w] = 0]
    /\ promised' = [promised EXCEPT ![w] = {}]
    /\ wrote' = [wrote EXCEPT ![w] = {}]
    /\ status' = [status EXCEPT ![w] = NewStatus]
    /\ exiting' = [exiting EXCEPT ![w] = {}]
    /\ Goto(w, "start")
    /\ UNCHANGED <<db, wire, logged, asked, exc, outcome, retrying, transaction>>

\* notify(PubStart), newInteraction, which fails if there is one, processInputs.
Start(w) ==
    /\ pc[w] = "start"
    /\ \/ /\ \E k \in RaisedBy("PubStart") : Raise(w, k)
          /\ UNCHANGED interaction
       \/ /\ interaction[w]
          /\ Raise(w, "error")
          /\ UNCHANGED interaction
       \/ /\ ~interaction[w]
          /\ interaction' = [interaction EXCEPT ![w] = TRUE]
          /\ \/ Goto(w, "traverse") /\ UNCHANGED exc
             \/ \E k \in Raises \cap {"error", "redirect"} : Raise(w, k)
    /\ UNCHANGED <<shared, request, outcome, retrying, promised, snapshot, pending,
                   response>>

\* transactions_manager.begin() aborts what is left of a transaction; traversal
\* opens the connection; notify(PubAfterTraversal).
Traverse(w) ==
    /\ pc[w] = "traverse"
    /\ AbortTransaction(w)
    /\ snapshot' = [snapshot EXCEPT ![w] = db]
    /\ \/ Goto(w, "call") /\ UNCHANGED exc
       \/ \E k \in Raises : Raise(w, k)
    /\ UNCHANGED <<shared, request, outcome, retrying, promised, interaction,
                   response>>

\* mapply: the application changes its objects, may start to stream, and returns
\* or raises on the way.
Call(w) ==
    /\ pc[w] = "call"
    /\ pending' = [pending EXCEPT ![w] = Touches[serving[w]]]
    /\ IF serving[w] \in Streams
       THEN /\ wire' = [wire EXCEPT ![serving[w]] = Append(@, "ok")]
            /\ wrote' = [wrote EXCEPT ![w] = @ \cup {attempt[w]}]
       ELSE UNCHANGED <<wire, wrote>>
    /\ \/ Goto(w, "commit") /\ UNCHANGED exc
       \/ \E k \in Raises : Raise(w, k)
    /\ UNCHANGED <<db, waiting, logged, asked, request, outcome, retrying, promised,
                   interaction, snapshot, status, exiting>>

Conflict(w) == \E o \in pending[w] : snapshot[w][o] # db[o]

\* The database stores what the application made of the objects it saw.
Store(w) ==
    db' = [o \in Objects |->
              IF o \in pending[w] THEN Append(snapshot[w][o], serving[w]) ELSE db[o]]

\* TransactionsManager.commit: a doomed transaction is aborted, without a word.
CommitTransaction(w) ==
    \/ /\ serving[w] \in Dooms
       /\ AbortTransaction(w)
       /\ Goto(w, "success")
       /\ UNCHANGED <<db, exc>>
    \/ /\ serving[w] \notin Dooms /\ ~Conflict(w)
       /\ Store(w)
       /\ pending' = [pending EXCEPT ![w] = {}]
       /\ Goto(w, "success")
       /\ UNCHANGED exc
    \/ /\ serving[w] \notin Dooms /\ Conflict(w)
       /\ Raise(w, "conflict")
       /\ UNCHANGED <<db, pending>>

\* notify(PubBeforeCommit) and the commit, which may fail for other reasons too.
Commit(w) ==
    /\ pc[w] = "commit"
    /\ \/ /\ \E k \in RaisedBy("PubBeforeCommit") \cup (Raises \cap {"error"}) : Raise(w, k)
          /\ UNCHANGED <<db, pending>>
       \/ CommitTransaction(w)
    /\ UNCHANGED <<waiting, wire, logged, asked, request, outcome, retrying, promised,
                   interaction, snapshot, response>>

\* endInteraction, notify(PubSuccess), return.
Success(w) ==
    /\ pc[w] = "success"
    /\ EndInteraction(w)
    /\ \/ /\ outcome' = [outcome EXCEPT ![w] = "page"]
          /\ Goto(w, "answer")
          /\ UNCHANGED exc
       \/ (\E k \in RaisedBy("PubSuccess") : Raise(w, k)) /\ UNCHANGED outcome
    /\ UNCHANGED <<shared, request, retrying, promised, snapshot, pending, response>>

-----------------------------------------------------------------------------
(* The except block of publish *)

\* The attributes named retry_max_count once the configuration is read: it is
\* set on the module ZPublisher.HTTPRequest, and requests read their class's.
RetryMaxCounts == [module |-> MaxConflictRetries, class |-> RetryMaxCount]

\* request.supports_retry()
SupportsRetry(w) == attempt[w] < RetryMaxCounts.class

\* Mutated: the rendered error keeps the status of the page.
StatusOfPage == "ok"

\* response.setStatus(t)
StatusOfError == "failed"

\* The hook finds an error page to render into the response, or raises.
RenderError(w) ==
    \/ /\ outcome' = [outcome EXCEPT ![w] = "rendered"]
       /\ status' = [status EXCEPT ![w][attempt[w]] = StatusOfError]
    \/ /\ outcome' = [outcome EXCEPT ![w] = "raised"]
       /\ UNCHANGED status

\* Mutated: retry is set before the request is asked whether it supports that.
AnnounceAnyway(w) ==
    /\ retrying' = [retrying EXCEPT ![w] = TRUE]
    /\ IF SupportsRetry(w)
       THEN outcome' = [outcome EXCEPT ![w] = "retry"] /\ UNCHANGED status
       ELSE RenderError(w)

\* The hook raises Retry: publish retries, or calls the hook with that.
RetryRaised(w) ==
    IF SupportsRetry(w)
    THEN /\ retrying' = [retrying EXCEPT ![w] = TRUE]
         /\ outcome' = [outcome EXCEPT ![w] = "retry"]
         /\ UNCHANGED status
    ELSE /\ retrying' = [retrying EXCEPT ![w] = FALSE]
         /\ RenderError(w)

\* err_hook.  A Retry that the application raises is taken out of its wrapping
\* and rendered like an error; one that wraps nothing and is not rendered leaves
\* the hook as a Retry.
Hook(w) ==
    /\ pc[w] = "hook"
    /\ \/ /\ exc[w] \in {"redirect", "exit"}
          /\ outcome' = [outcome EXCEPT ![w] = "raised"]
          /\ retrying' = [retrying EXCEPT ![w] = FALSE]
          /\ UNCHANGED status
       \/ /\ exc[w] \in {"error", "retry"}
          /\ RenderError(w)
          /\ retrying' = [retrying EXCEPT ![w] = FALSE]
       \/ /\ exc[w] \in {"conflict", "retry"}
          /\ RetryRaised(w)
    /\ Goto(w, "abort")
    /\ UNCHANGED <<shared, request, exc, promised, transaction, wrote, exiting>>

\* A subscriber to a failure event, or the abort, raises k: that is what leaves
\* publish.
RaiseInstead(w, k) ==
    /\ exc' = [exc EXCEPT ![w] = k]
    /\ outcome' = [outcome EXCEPT ![w] = "raised"]

\* notify(PubBeforeAbort), transactions_manager.abort() and endInteraction(),
\* each whatever happens to those before.
Abort(w) ==
    /\ pc[w] = "abort"
    /\ AbortTransaction(w)
    /\ EndInteraction(w)
    /\ \/ UNCHANGED <<exc, outcome>>
       \/ \E k \in RaisedBy("PubBeforeAbort") : RaiseInstead(w, k)
    /\ Goto(w, "failure")
    /\ UNCHANGED <<shared, request, retrying, promised, snapshot, response>>

\* notify(PubFailure)
Failure(w) ==
    /\ pc[w] = "failure"
    /\ promised' = [promised EXCEPT ![w] = IF retrying[w] THEN @ \cup {attempt[w]} ELSE @]
    /\ \/ /\ Goto(w, IF outcome[w] = "retry" THEN "retry" ELSE "answer")
          /\ UNCHANGED <<exc, outcome>>
       \/ /\ \E k \in RaisedBy("PubFailure") : RaiseInstead(w, k)
          /\ Goto(w, "answer")
    /\ UNCHANGED <<shared, request, retrying, transaction, response>>

\* Mutated: the new request starts to count again.
ForgetCount(w) == 0

\* HTTPRequest.retry passes the count on.
RetryCount(w) == attempt[w] + 1

\* request.retry() makes a request with a response of its own; request.close()
\* drops the connection and what its transaction holds; publish(newrequest).
Retry(w) ==
    /\ pc[w] = "retry"
    /\ attempt' = [attempt EXCEPT ![w] = RetryCount(w)]
    /\ AbortTransaction(w)
    /\ Goto(w, "start")
    /\ UNCHANGED <<shared, serving, failure, interaction, snapshot, response>>

-----------------------------------------------------------------------------
(* publish_module_standard and ZServerPublisher once publish has ended *)

\* What publish raises is rendered into the response of the first attempt, the
\* one publish_module_standard knows of.
Responding(w) == IF outcome[w] = "raised" THEN 0 ELSE attempt[w]

FinalStatus(w) ==
    IF outcome[w] = "raised" THEN [status[w] EXCEPT ![0] = "failed"] ELSE status[w]

\* response.outputBody() writes nothing more than the end of a stream;
\* request.close() drops the connection.
Answer(w) ==
    /\ pc[w] = "answer"
    /\ status' = [status EXCEPT ![w] = FinalStatus(w)]
    /\ wire' = IF Responding(w) \in wrote[w] THEN wire
               ELSE [wire EXCEPT ![serving[w]] =
                        Append(@, FinalStatus(w)[Responding(w)])]
    /\ exiting' = [exiting EXCEPT ![w] =
                      IF outcome[w] = "raised" /\ exc[w] = "exit" THEN @ \cup {0} ELSE @]
    /\ AbortTransaction(w)
    /\ Goto(w, "finish")
    /\ UNCHANGED <<db, waiting, logged, asked, request, failure, interaction,
                   snapshot, wrote>>

\* Mutated: _finish does not follow _retried_response.
FinishFirst(w) == 0

\* _finish goes along _retried_response to the response of the last attempt.
Finished(w) == attempt[w]

\* response._finish(): the log producer and the shutdown producer are pushed.
Finish(w) ==
    /\ pc[w] = "finish"
    /\ logged' = [logged EXCEPT ![serving[w]] = status[w][Finished(w)]]
    /\ asked' = IF Finished(w) \in exiting[w] THEN asked \cup {serving[w]} ELSE asked
    /\ serving' = [serving EXCEPT ![w] = NoRequest]
    /\ Goto(w, "idle")
    /\ UNCHANGED <<db, waiting, wire, attempt, failure, transaction, response>>

-----------------------------------------------------------------------------
Publish(w) ==
    \/ Take(w) \/ Start(w) \/ Traverse(w) \/ Call(w) \/ Commit(w) \/ Success(w)
    \/ Hook(w) \/ Abort(w) \/ Failure(w) \/ Retry(w) \/ Answer(w) \/ Finish(w)

Next == \E w \in Workers : Publish(w)

Spec == Init /\ [][Next]_vars

\* Threads run, and the application returns.
FairSpec == Spec /\ \A w \in Workers : WF_vars(Publish(w))
-----------------------------------------------------------------------------
(* Properties *)

TypeOK ==
    /\ db \in [Objects -> Seq(Requests)]
    /\ waiting \subseteq Requests /\ asked \subseteq Requests
    /\ wire \in [Requests -> Seq({"ok", "failed"})]
    /\ logged \in [Requests -> {"none", "ok", "failed"}]
    /\ pc \in [Workers -> {"idle", "start", "traverse", "call", "commit", "success",
                           "hook", "abort", "failure", "retry", "answer", "finish"}]
    /\ serving \in [Workers -> Requests \cup {NoRequest}]
    /\ attempt \in [Workers -> 0 .. RetryMaxCount]
    /\ exc \in [Workers -> Exceptions]
    /\ outcome \in [Workers -> {"page", "rendered", "raised", "retry"}]
    /\ retrying \in [Workers -> BOOLEAN]
    /\ promised \in [Workers -> SUBSET (0 .. RetryMaxCount)]
    /\ interaction \in [Workers -> BOOLEAN]
    /\ snapshot \in [Workers -> [Objects -> Seq(Requests)]]
    /\ pending \in [Workers -> SUBSET Objects]
    /\ wrote \in [Workers -> SUBSET Attempts]
    /\ status \in [Workers -> [Attempts -> {"ok", "failed"}]]
    /\ exiting \in [Workers -> SUBSET Attempts]

\* Whatever happened to the request or the attempt before, the next one starts
\* without its interaction and its changes: every path through the except block
\* ends in endInteraction and abort, though abort and the subscribers may raise.
StartsClean ==
    \A w \in Workers :
        pc[w] \in {"idle", "start"} => ~interaction[w] /\ pending[w] = {}

\* The failure events carry retry = True for all attempts but the last:
\* interfaces.py:35, "Whether the request will be retried".
RetriesAreAnnounced ==
    \A w \in Workers : pc[w] = "finish" => promised[w] = 0 .. attempt[w] - 1

\* The access log shows the status line the client got, but for a page that had
\* begun to stream, and for an exception that leaves a retried attempt, which is
\* rendered into the response of the first.
LoggedIsSent ==
    [][\A w \in Workers :
          pc[w] = "finish" /\ pc'[w] = "idle" =>
              \/ serving[w] \in Streams
              \/ outcome[w] = "raised" /\ attempt[w] > 0
              \/ wire[serving[w]] = <<logged'[serving[w]]>>]_vars

\* What the client of each request was told.
Told == [r \in Requests |-> IF wire[r] = <<>> THEN "none" ELSE wire[r][1]]

\* Requests are applied atomically, at most once, and answered truthfully.
Atomic == INSTANCE AtomicService WITH answer <- Told
ImplementsAtomic == Atomic!Spec

\* Every request is answered and logged, however often it conflicts.
EveryRequestAnswered ==
    \A r \in Requests : r \in waiting ~> logged[r] # "none"
=============================================================================
