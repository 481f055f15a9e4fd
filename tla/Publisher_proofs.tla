-------------------------- MODULE Publisher_proofs --------------------------
(***************************************************************************)
(* Theorems about the publisher, for any threads, requests and objects,    *)
(* whatever the application raises.                                        *)
(*                                                                         *)
(* StartsClean needs no more than what each label of publish leaves of the *)
(* thread's interaction and transaction (CleanInv).  The refinement        *)
(* follows a request: until the commit succeeds nothing of it is in the    *)
(* database, from then on all of it is, and the label and the outcome of   *)
(* its thread tell which of the two holds (FateInv).                       *)
(***************************************************************************)
EXTENDS Publisher, TLAPS, SequenceTheorems

Labels == {"idle", "start", "traverse", "call", "commit", "success",
           "hook", "abort", "failure", "retry", "answer", "finish"}

\* The thread is inside publish and has not committed.
Trying == {"start", "traverse", "call", "commit", "hook", "abort", "failure", "retry"}

-----------------------------------------------------------------------------
\* What an append does to the requests applied to an object.
LEMMA AppendRange ==
    ASSUME NEW S, NEW s \in Seq(S), NEW e \in S
    PROVE  Append(s, e) \in Seq(S) /\ Range(Append(s, e)) = Range(s) \cup {e}
<1>1. /\ Append(s, e) \in Seq(S)
      /\ DOMAIN Append(s, e) = 1 .. Len(s) + 1
      /\ \A i \in 1 .. Len(s) : Append(s, e)[i] = s[i]
      /\ Append(s, e)[Len(s) + 1] = e
      /\ DOMAIN s = 1 .. Len(s)
      /\ Len(s) \in Nat
  BY AppendProperties
<1>2. ASSUME NEW x \in Range(Append(s, e)) PROVE x \in Range(s) \cup {e}
  <2>1. PICK i \in 1 .. Len(s) + 1 : x = Append(s, e)[i]
    BY <1>1 DEF Range
  <2> QED BY <2>1, <1>1 DEF Range
<1>3. ASSUME NEW x \in Range(s) PROVE x \in Range(Append(s, e))
  <2>1. PICK i \in 1 .. Len(s) : x = s[i]
    BY <1>1 DEF Range
  <2> QED BY <2>1, <1>1 DEF Range
<1>4. e \in Range(Append(s, e))
  BY <1>1 DEF Range
<1> QED BY <1>1, <1>2, <1>3, <1>4

-----------------------------------------------------------------------------
(* Types *)

\* A thread that publishes serves a request.
ServeInv == \A w \in Workers : pc[w] # "idle" => serving[w] \in Requests

\* Only a thread that may retry gets to do it.
RetryInv ==
    \A w \in Workers :
        pc[w] \in {"abort", "failure", "retry"} /\ outcome[w] = "retry"
            => attempt[w] < RetryMaxCount

\* publish reaches the end of its except block only to retry.
RetryLabelInv == \A w \in Workers : pc[w] = "retry" => outcome[w] = "retry"

TInv == TypeOK /\ ServeInv /\ RetryInv /\ RetryLabelInv

\* What a raise does, and what it can raise.
LEMMA RaiseTypes ==
    /\ \A e : RaisedBy(e) \subseteq Exceptions
    /\ Raises \subseteq Exceptions
    /\ \A w \in Workers, k \in Exceptions :
         TypeOK /\ Raise(w, k) =>
            /\ exc' \in [Workers -> Exceptions]
            /\ pc' = [pc EXCEPT ![w] = "hook"]
<1>1. Raises \subseteq Exceptions /\ \A e : RaisedBy(e) \subseteq Exceptions
  BY PublisherAssumption DEF RaisedBy
<1>2. ASSUME NEW w \in Workers, NEW k \in Exceptions, TypeOK, Raise(w, k)
      PROVE  exc' \in [Workers -> Exceptions] /\ pc' = [pc EXCEPT ![w] = "hook"]
  <2>1. exc \in [Workers -> Exceptions]
    BY <1>2 DEF TypeOK
  <2> QED BY <1>2, <2>1 DEF Raise, Goto
<1> QED BY <1>1, <1>2

\* What the raise of a failure event's subscriber does.
LEMMA InsteadTypes ==
    ASSUME NEW w \in Workers, NEW e, NEW k \in RaisedBy(e), TypeOK, RaiseInstead(w, k)
    PROVE  /\ exc' \in [Workers -> Exceptions]
           /\ outcome' = [outcome EXCEPT ![w] = "raised"]
<1>1. k \in Exceptions
  BY RaiseTypes
<1>2. exc \in [Workers -> Exceptions]
  BY DEF TypeOK
<1> QED BY <1>1, <1>2 DEF RaiseInstead

LEMMA TInvInit == Init => TInv
<1> SUFFICES ASSUME Init PROVE TInv
  OBVIOUS
<1> USE PublisherAssumption DEF Init, Attempts, NewStatus
<1>1. \A o \in Objects : <<>> \in Seq(Requests)
  OBVIOUS
<1>2. TypeOK
  BY <1>1 DEF TypeOK, Exceptions
<1>3. ServeInv /\ RetryInv /\ RetryLabelInv
  BY DEF ServeInv, RetryInv, RetryLabelInv
<1> QED BY <1>2, <1>3 DEF TInv

LEMMA TInvNext == TInv /\ [Next]_vars => TInv'
<1> SUFFICES ASSUME TInv, [Next]_vars PROVE TInv'
  OBVIOUS
<1> USE PublisherAssumption
<1>0. TypeOK /\ ServeInv /\ RetryInv /\ RetryLabelInv
  BY DEF TInv
<1>f. Attempts \subseteq Nat /\ 0 \in Attempts /\ \A n \in 0 .. RetryMaxCount : n \in Attempts
  BY DEF Attempts
<1>1. ASSUME NEW w \in Workers, Take(w) PROVE TInv'
  BY <1>0, <1>1, <1>f DEF Take, TInv, TypeOK, ServeInv, RetryInv, RetryLabelInv, Goto, transaction,
     NewStatus
<1>2. ASSUME NEW w \in Workers, Start(w) PROVE TInv'
  <2>1. \/ exc' = exc /\ pc' = [pc EXCEPT ![w] = "traverse"]
        \/ exc' \in [Workers -> Exceptions] /\ pc' = [pc EXCEPT ![w] = "hook"]
    BY <1>0, <1>2, RaiseTypes DEF Start, Goto, Exceptions
  <2>2. interaction' \in [Workers -> BOOLEAN]
    BY <1>0, <1>2 DEF Start, TypeOK
  <2> QED BY <1>0, <1>2, <2>1, <2>2 DEF Start, TInv, TypeOK, ServeInv, RetryInv,
       RetryLabelInv, shared, request, response
<1>3. ASSUME NEW w \in Workers, Traverse(w) PROVE TInv'
  <2>1. \/ exc' = exc /\ pc' = [pc EXCEPT ![w] = "call"]
        \/ exc' \in [Workers -> Exceptions] /\ pc' = [pc EXCEPT ![w] = "hook"]
    BY <1>0, <1>3, RaiseTypes DEF Traverse, Goto
  <2>2. /\ pending' \in [Workers -> SUBSET Objects]
        /\ snapshot' \in [Workers -> [Objects -> Seq(Requests)]]
    BY <1>0, <1>3 DEF Traverse, AbortTransaction, TypeOK
  <2> QED BY <1>0, <1>3, <2>1, <2>2 DEF Traverse, TInv, TypeOK, ServeInv, RetryInv,
       RetryLabelInv, shared, request, response
<1>4. ASSUME NEW w \in Workers, Call(w) PROVE TInv'
  <2>1. serving[w] \in Requests /\ Touches[serving[w]] \in SUBSET Objects
    BY <1>0, <1>4 DEF ServeInv, Call
  <2>2. attempt[w] \in Attempts
    BY <1>0, <1>f DEF TypeOK
  <2>3. wire' \in [Requests -> Seq({"ok", "failed"})] /\ wrote' \in [Workers -> SUBSET Attempts]
    <3>1. \A r \in Requests : Append(wire[r], "ok") \in Seq({"ok", "failed"})
      BY <1>0 DEF TypeOK
    <3>2. CASE serving[w] \in Streams
      <4>1. wire' \in [Requests -> Seq({"ok", "failed"})]
        <5>1. wire' = [wire EXCEPT ![serving[w]] = Append(wire[serving[w]], "ok")]
          BY <1>4, <3>2 DEF Call
        <5>2. wire \in [Requests -> Seq({"ok", "failed"})]
          BY <1>0 DEF TypeOK
        <5> QED BY <5>1, <5>2, <2>1, <3>1
      <4>2. wrote' = [wrote EXCEPT ![w] = wrote[w] \cup {attempt[w]}]
        BY <1>4, <3>2 DEF Call
      <4>3. wrote \in [Workers -> SUBSET Attempts]
        BY <1>0 DEF TypeOK
      <4> QED BY <4>1, <4>2, <4>3, <2>2
    <3>3. CASE serving[w] \notin Streams
      BY <1>0, <1>4, <3>3 DEF Call, TypeOK
    <3> QED BY <3>2, <3>3
  <2>4. pending' \in [Workers -> SUBSET Objects]
    BY <1>0, <1>4, <2>1 DEF Call, TypeOK
  <2>5. \/ exc' = exc /\ pc' = [pc EXCEPT ![w] = "commit"]
        \/ exc' \in [Workers -> Exceptions] /\ pc' = [pc EXCEPT ![w] = "hook"]
    BY <1>0, <1>4, RaiseTypes DEF Call, Goto
  <2> QED BY <1>0, <1>4, <2>1, <2>3, <2>4, <2>5 DEF Call, TInv, TypeOK, ServeInv, RetryInv,
       RetryLabelInv, request
<1>5. ASSUME NEW w \in Workers, Commit(w) PROVE TInv'
  <2>1. serving[w] \in Requests
    BY <1>0, <1>5 DEF ServeInv, Commit
  <2>2. db' \in [Objects -> Seq(Requests)]
    <3>1. \A o \in Objects : Append(snapshot[w][o], serving[w]) \in Seq(Requests)
      BY <1>0, <2>1 DEF TypeOK
    <3>2. CASE UNCHANGED db
      BY <1>0, <3>2 DEF TypeOK
    <3>3. CASE Store(w)
      BY <1>0, <3>1, <3>3 DEF Store, TypeOK
    <3> QED BY <1>5, <3>2, <3>3 DEF Commit, CommitTransaction
  <2>3. /\ \/ exc' = exc /\ pc' = [pc EXCEPT ![w] = "success"]
           \/ exc' \in [Workers -> Exceptions] /\ pc' = [pc EXCEPT ![w] = "hook"]
        /\ pending' \in [Workers -> SUBSET Objects]
    <3>1. CASE CommitTransaction(w)
      <4>1. "conflict" \in Exceptions
        BY DEF Exceptions
      <4> QED BY <1>0, <3>1, <4>1, RaiseTypes DEF CommitTransaction, AbortTransaction, Goto, TypeOK
    <3>2. CASE \E k \in RaisedBy("PubBeforeCommit") \cup (Raises \cap {"error"}) :
                   Raise(w, k) /\ UNCHANGED pending
      BY <1>0, <3>2, RaiseTypes DEF TypeOK
    <3> QED BY <1>5, <3>1, <3>2 DEF Commit
  <2> QED BY <1>0, <1>5, <2>1, <2>2, <2>3 DEF Commit, TInv, TypeOK, ServeInv, RetryInv,
       RetryLabelInv, request, response
<1>6. ASSUME NEW w \in Workers, Success(w) PROVE TInv'
  <2>1. \/ exc' = exc /\ pc' = [pc EXCEPT ![w] = "answer"]
        \/ exc' \in [Workers -> Exceptions] /\ pc' = [pc EXCEPT ![w] = "hook"]
    BY <1>0, <1>6, RaiseTypes DEF Success, Goto
  <2>2. /\ outcome' \in [Workers -> {"page", "rendered", "raised", "retry"}]
        /\ outcome' = outcome \/ outcome' = [outcome EXCEPT ![w] = "page"]
        /\ interaction' \in [Workers -> BOOLEAN]
    BY <1>0, <1>6 DEF Success, EndInteraction, TypeOK
  <2>3. exc' \in [Workers -> Exceptions] /\ pc' \in [Workers -> Labels]
    BY <1>0, <2>1 DEF TypeOK, Labels
  <2>4. /\ pc'[w] \in {"answer", "hook"}
        /\ \A v \in Workers : v # w => pc'[v] = pc[v] /\ outcome'[v] = outcome[v]
    BY <1>0, <2>1, <2>2 DEF TypeOK
  <2>5. ServeInv' /\ RetryInv' /\ RetryLabelInv'
    BY <1>0, <1>6, <2>4 DEF Success, ServeInv, RetryInv, RetryLabelInv, request
  <2> QED BY <1>0, <1>6, <2>2, <2>3, <2>5 DEF Success, TInv, TypeOK, Labels,
       shared, request, response
<1>7. ASSUME NEW w \in Workers, Hook(w) PROVE TInv'
  <2>1. attempt[w] \in Attempts
    BY <1>0, <1>f DEF TypeOK
  <2>2. RenderError(w) =>
          /\ status' \in [Workers -> [Attempts -> {"ok", "failed"}]]
          /\ outcome' \in [Workers -> {"page", "rendered", "raised", "retry"}]
          /\ outcome'[w] # "retry"
          /\ \A v \in Workers : v # w => outcome'[v] = outcome[v]
    <3>1. /\ status \in [Workers -> [Attempts -> {"ok", "failed"}]]
          /\ outcome \in [Workers -> {"page", "rendered", "raised", "retry"}]
      BY <1>0 DEF TypeOK
    <3>2. [status EXCEPT ![w][attempt[w]] = "failed"] \in [Workers -> [Attempts -> {"ok", "failed"}]]
      BY <3>1, <2>1
    <3> QED BY <3>1, <3>2 DEF RenderError, StatusOfError
  <2>3. RetryRaised(w) =>
          /\ status' \in [Workers -> [Attempts -> {"ok", "failed"}]]
          /\ outcome' \in [Workers -> {"page", "rendered", "raised", "retry"}]
          /\ retrying' \in [Workers -> BOOLEAN]
          /\ outcome'[w] = "retry" => attempt[w] < RetryMaxCount
          /\ \A v \in Workers : v # w => outcome'[v] = outcome[v]
    BY <1>0, <2>2 DEF RetryRaised, SupportsRetry, RetryMaxCounts, TypeOK
  <2>4. /\ status' \in [Workers -> [Attempts -> {"ok", "failed"}]]
        /\ outcome' \in [Workers -> {"page", "rendered", "raised", "retry"}]
        /\ retrying' \in [Workers -> BOOLEAN]
        /\ outcome'[w] = "retry" => attempt[w] < RetryMaxCount
        /\ \A v \in Workers : v # w => outcome'[v] = outcome[v]
    BY <1>0, <1>7, <2>2, <2>3 DEF Hook, TypeOK
  <2> QED BY <1>0, <1>7, <2>4 DEF Hook, TInv, TypeOK, ServeInv, RetryInv, RetryLabelInv, Goto,
       shared, request, transaction
<1>8. ASSUME NEW w \in Workers, Abort(w) PROVE TInv'
  <2>1. \/ UNCHANGED <<exc, outcome>>
        \/ /\ exc' \in [Workers -> Exceptions]
           /\ outcome' = [outcome EXCEPT ![w] = "raised"]
    BY <1>0, <1>8, InsteadTypes DEF Abort
  <2>2. interaction' \in [Workers -> BOOLEAN] /\ pending' \in [Workers -> SUBSET Objects]
    BY <1>0, <1>8 DEF Abort, AbortTransaction, EndInteraction, TypeOK
  <2> QED BY <1>0, <1>8, <2>1, <2>2 DEF Abort, TInv, TypeOK, ServeInv, RetryInv, RetryLabelInv,
       Goto, shared, request, response
<1>9. ASSUME NEW w \in Workers, Failure(w) PROVE TInv'
  <2>1. promised' \in [Workers -> SUBSET (0 .. RetryMaxCount)]
    BY <1>0, <1>9 DEF Failure, TypeOK
  <2>2. \/ /\ UNCHANGED <<exc, outcome>>
           /\ pc' = [pc EXCEPT ![w] = IF outcome[w] = "retry" THEN "retry" ELSE "answer"]
        \/ /\ exc' \in [Workers -> Exceptions]
           /\ outcome' = [outcome EXCEPT ![w] = "raised"]
           /\ pc' = [pc EXCEPT ![w] = "answer"]
    BY <1>0, <1>9, InsteadTypes DEF Failure, Goto
  <2>3. ServeInv' /\ RetryInv' /\ RetryLabelInv'
    <3>1. /\ pc'[w] \in {"retry", "answer"}
          /\ pc'[w] = "retry" => outcome[w] = "retry" /\ outcome'[w] = "retry"
          /\ \A v \in Workers : v # w => pc'[v] = pc[v] /\ outcome'[v] = outcome[v]
      BY <1>0, <2>2 DEF TypeOK
    <3> QED BY <1>0, <1>9, <3>1 DEF Failure, ServeInv, RetryInv, RetryLabelInv, request
  <2>4. /\ exc' \in [Workers -> Exceptions] /\ pc' \in [Workers -> Labels]
        /\ outcome' \in [Workers -> {"page", "rendered", "raised", "retry"}]
    BY <1>0, <2>2 DEF TypeOK, Labels
  <2> QED BY <1>0, <1>9, <2>1, <2>3, <2>4 DEF Failure, TInv, TypeOK, Labels,
       shared, request, transaction, response
<1>10. ASSUME NEW w \in Workers, Retry(w) PROVE TInv'
  BY <1>0, <1>10 DEF Retry, TInv, TypeOK, ServeInv, RetryInv, RetryLabelInv, Goto, RetryCount,
     AbortTransaction, shared, failure, response
<1>11. ASSUME NEW w \in Workers, Answer(w) PROVE TInv'
  <2>1. attempt[w] \in Attempts /\ serving[w] \in Requests
    BY <1>0, <1>11, <1>f DEF TypeOK, Answer, ServeInv
  <2>2. FinalStatus(w) \in [Attempts -> {"ok", "failed"}]
    BY <1>0, <1>f DEF FinalStatus, TypeOK
  <2>3. FinalStatus(w)[Responding(w)] \in {"ok", "failed"}
    BY <2>1, <2>2, <1>f DEF Responding
  <2>4. wire' \in [Requests -> Seq({"ok", "failed"})]
    <3>1. Append(wire[serving[w]], FinalStatus(w)[Responding(w)]) \in Seq({"ok", "failed"})
      BY <1>0, <2>1, <2>3 DEF TypeOK
    <3> QED BY <1>0, <1>11, <3>1 DEF TypeOK, Answer
  <2>5. exiting' \in [Workers -> SUBSET Attempts]
    BY <1>0, <1>11, <1>f DEF TypeOK, Answer
  <2>6. status' \in [Workers -> [Attempts -> {"ok", "failed"}]]
    BY <1>0, <1>11, <2>2 DEF TypeOK, Answer
  <2>7. pc' \in [Workers -> Labels] /\ pending' \in [Workers -> SUBSET Objects]
    BY <1>0, <1>11 DEF TypeOK, Answer, Goto, AbortTransaction, Labels
  <2>8. ServeInv' /\ RetryInv' /\ RetryLabelInv'
    BY <1>0, <1>11 DEF TypeOK, Answer, Goto, ServeInv, RetryInv, RetryLabelInv, request, failure
  <2> QED BY <1>0, <1>11, <2>4, <2>5, <2>6, <2>7, <2>8 DEF Answer, TInv, TypeOK, Labels,
       request, failure
<1>12. ASSUME NEW w \in Workers, Finish(w) PROVE TInv'
  <2>1. attempt[w] \in Attempts /\ serving[w] \in Requests
    BY <1>0, <1>12, <1>f DEF TypeOK, Finish, ServeInv
  <2>2. logged' \in [Requests -> {"none", "ok", "failed"}]
    BY <1>0, <1>12, <2>1 DEF TypeOK, Finish, Finished
  <2>3. asked' \subseteq Requests
    BY <1>0, <1>12, <2>1 DEF TypeOK, Finish
  <2> QED BY <1>0, <1>12, <2>2, <2>3 DEF Finish, TInv, TypeOK, ServeInv, RetryInv, RetryLabelInv,
       Goto, failure, transaction, response
<1>13. CASE UNCHANGED vars
  BY <1>0, <1>13 DEF vars, shared, request, failure, transaction, response, TInv, TypeOK,
     ServeInv, RetryInv, RetryLabelInv
<1> QED BY <1>1, <1>2, <1>3, <1>4, <1>5, <1>6, <1>7, <1>8, <1>9, <1>10, <1>11, <1>12, <1>13
     DEF Next, Publish

\* Every variable keeps its type, and with it request.retry_count its bound: no
\* request is tried more than retry_max_count + 1 times.
THEOREM TypeCorrect == Spec => []TypeOK
<1>1. TInv => TypeOK
  BY DEF TInv
<1> QED BY <1>1, TInvInit, TInvNext, PTL DEF Spec

LEMMA TypeInvariance == Spec => []TInv
BY TInvInit, TInvNext, PTL DEF Spec

-----------------------------------------------------------------------------
(* Threads *)

\* What thread w keeps for itself.
Own(w) == <<pc[w], serving[w], attempt[w], exc[w], outcome[w], retrying[w], promised[w],
            interaction[w], snapshot[w], pending[w], wrote[w], status[w], exiting[w]>>

\* A thread changes nothing of another one.
LEMMA OthersUntouched ==
    ASSUME TypeOK, NEW w \in Workers, Publish(w), NEW v \in Workers, v # w
    PROVE  Own(v)' = Own(v)
<1>1. \A k : Raise(w, k) => pc'[v] = pc[v] /\ exc'[v] = exc[v]
  BY DEF Raise, Goto, TypeOK
<1>2. \A l : Goto(w, l) => pc'[v] = pc[v]
  BY DEF Goto, TypeOK
<1>3. AbortTransaction(w) => pending'[v] = pending[v]
  BY DEF AbortTransaction, TypeOK
<1>4. EndInteraction(w) => interaction'[v] = interaction[v]
  BY DEF EndInteraction, TypeOK
<1>5. \A k : RaiseInstead(w, k) => exc'[v] = exc[v] /\ outcome'[v] = outcome[v]
  BY DEF RaiseInstead, TypeOK
<1>6. RenderError(w) => outcome'[v] = outcome[v] /\ status'[v] = status[v]
  BY DEF RenderError, TypeOK
<1>7. RetryRaised(w) =>
        outcome'[v] = outcome[v] /\ status'[v] = status[v] /\ retrying'[v] = retrying[v]
  BY <1>6 DEF RetryRaised, TypeOK
<1>8. CommitTransaction(w) =>
        pc'[v] = pc[v] /\ exc'[v] = exc[v] /\ pending'[v] = pending[v]
  BY <1>1, <1>2, <1>3 DEF CommitTransaction, TypeOK
<1> USE DEF Own, shared, request, failure, transaction, response
<1>11. CASE Take(w)
  BY <1>2, <1>11 DEF Take, TypeOK
<1>12. CASE Start(w)
  BY <1>1, <1>2, <1>12 DEF Start, TypeOK
<1>13. CASE Traverse(w)
  BY <1>1, <1>2, <1>3, <1>13 DEF Traverse, TypeOK
<1>14. CASE Call(w)
  BY <1>1, <1>2, <1>14 DEF Call, TypeOK
<1>15. CASE Commit(w)
  BY <1>1, <1>8, <1>15 DEF Commit, TypeOK
<1>16. CASE Success(w)
  BY <1>1, <1>2, <1>4, <1>16 DEF Success, TypeOK
<1>17. CASE Hook(w)
  BY <1>2, <1>6, <1>7, <1>17 DEF Hook, TypeOK
<1>18. CASE Abort(w)
  BY <1>2, <1>3, <1>4, <1>5, <1>18 DEF Abort, TypeOK
<1>19. CASE Failure(w)
  BY <1>2, <1>5, <1>19 DEF Failure, TypeOK
<1>20. CASE Retry(w)
  BY <1>2, <1>3, <1>20 DEF Retry, TypeOK
<1>21. CASE Answer(w)
  BY <1>2, <1>3, <1>21 DEF Answer, TypeOK
<1>22. CASE Finish(w)
  BY <1>2, <1>22 DEF Finish, TypeOK
<1> QED BY <1>11, <1>12, <1>13, <1>14, <1>15, <1>16, <1>17, <1>18, <1>19, <1>20, <1>21, <1>22
     DEF Publish

-----------------------------------------------------------------------------
(* Interactions and transactions *)

Clean(w) ==
    /\ pc[w] \in {"idle", "start", "failure", "retry", "answer", "finish"} => ~interaction[w]
    /\ pc[w] \in {"idle", "start", "failure", "retry", "finish"} => pending[w] = {}

CleanInv == \A w \in Workers : Clean(w)

LEMMA CleanNext == TInv /\ CleanInv /\ [Next]_vars => CleanInv'
<1> SUFFICES ASSUME TInv, CleanInv, [Next]_vars PROVE CleanInv'
  OBVIOUS
<1>0. TypeOK
  BY DEF TInv
<1>1. CASE UNCHANGED vars
  BY <1>1 DEF vars, shared, request, failure, transaction, response, CleanInv, Clean
<1>2. ASSUME NEW w \in Workers, Publish(w) PROVE CleanInv'
  <2>1. ASSUME NEW v \in Workers, v # w PROVE Clean(v)'
    BY <1>0, <1>2, <2>1, OthersUntouched DEF Own, Clean, CleanInv
  <2>2. Clean(w)
    BY DEF CleanInv
  <2>3. \A k : Raise(w, k) => pc'[w] = "hook"
    BY <1>0 DEF Raise, Goto, TypeOK
  <2>4. \A l : Goto(w, l) => pc'[w] = l
    BY <1>0 DEF Goto, TypeOK
  <2>5. AbortTransaction(w) => pending'[w] = {}
    BY <1>0 DEF AbortTransaction, TypeOK
  <2>6. EndInteraction(w) => ~interaction'[w]
    BY <1>0 DEF EndInteraction, TypeOK
  <2>7. Clean(w)'
    <3> USE DEF Clean
    <3>1. CASE Take(w)
      BY <2>2, <2>4, <3>1 DEF Take, transaction
    <3>2. CASE Start(w) \/ Traverse(w) \/ Call(w) \/ Commit(w)
      <4>1. pc'[w] \in {"traverse", "call", "commit", "success", "hook"}
        BY <2>3, <2>4, <3>2 DEF Start, Traverse, Call, Commit, CommitTransaction
      <4> QED BY <4>1
    <3>3. CASE Success(w)
      BY <2>3, <2>4, <2>6, <3>3 DEF Success
    <3>4. CASE Hook(w)
      BY <2>4, <3>4 DEF Hook
    <3>5. CASE Abort(w)
      BY <2>4, <2>5, <2>6, <3>5 DEF Abort
    <3>6. CASE Failure(w)
      BY <2>2, <2>4, <3>6 DEF Failure, transaction
    <3>7. CASE Retry(w)
      BY <2>2, <2>4, <2>5, <3>7 DEF Retry
    <3>8. CASE Answer(w)
      BY <2>2, <2>4, <2>5, <3>8 DEF Answer
    <3>9. CASE Finish(w)
      BY <2>2, <2>4, <3>9 DEF Finish, transaction
    <3> QED BY <1>2, <3>1, <3>2, <3>3, <3>4, <3>5, <3>6, <3>7, <3>8, <3>9 DEF Publish
  <2> QED BY <2>1, <2>7 DEF CleanInv
<1> QED BY <1>1, <1>2 DEF Next

\* Every attempt finds its thread without an interaction and without changes of
\* another request, whatever the application and the subscribers raise.
THEOREM AttemptsStartClean == Spec => []StartsClean
<1>1. Init => CleanInv
  BY DEF Init, CleanInv, Clean
<1>2. CleanInv => StartsClean
  BY DEF CleanInv, Clean, StartsClean
<1> QED BY <1>1, <1>2, CleanNext, TypeInvariance, PTL DEF Spec

-----------------------------------------------------------------------------
(* Announced retries *)

\* Subscribers to the failure events, and abort, do not raise.
FailureEventsSucceed == "PubBeforeAbort" \notin Failing /\ "PubFailure" \notin Failing

Announced(w) ==
    /\ pc[w] \in {"start", "traverse", "call", "commit", "success", "hook", "abort",
                  "failure", "answer", "finish"} => promised[w] = 0 .. attempt[w] - 1
    /\ pc[w] \in {"abort", "failure"} => (retrying[w] <=> outcome[w] = "retry")
    /\ pc[w] = "retry" => promised[w] = 0 .. attempt[w]

AnnouncedInv == \A w \in Workers : Announced(w)

LEMMA AnnouncedNext ==
    FailureEventsSucceed /\ TInv /\ AnnouncedInv /\ [Next]_vars => AnnouncedInv'
<1> SUFFICES ASSUME FailureEventsSucceed, TInv, AnnouncedInv, [Next]_vars PROVE AnnouncedInv'
  OBVIOUS
<1>0. TypeOK
  BY DEF TInv
<1>1. CASE UNCHANGED vars
  BY <1>1 DEF vars, shared, request, failure, transaction, response, AnnouncedInv, Announced
<1>2. ASSUME NEW w \in Workers, Publish(w) PROVE AnnouncedInv'
  <2>1. ASSUME NEW v \in Workers, v # w PROVE Announced(v)'
    BY <1>0, <1>2, <2>1, OthersUntouched DEF Own, Announced, AnnouncedInv
  <2>2. Announced(w)
    BY DEF AnnouncedInv
  <2>3. \A k : Raise(w, k) => pc'[w] = "hook"
    BY <1>0 DEF Raise, Goto, TypeOK
  <2>4. \A l : Goto(w, l) => pc'[w] = l
    BY <1>0 DEF Goto, TypeOK
  <2>5. RaisedBy("PubBeforeAbort") = {} /\ RaisedBy("PubFailure") = {}
    BY DEF FailureEventsSucceed, RaisedBy
  <2>6. attempt[w] \in Nat
    BY <1>0, PublisherAssumption DEF TypeOK
  <2>7. Announced(w)'
    <3>1. CASE Take(w)
      BY <1>0, <2>4, <3>1 DEF Take, Announced, TypeOK
    <3>2. CASE Start(w) \/ Traverse(w) \/ Call(w) \/ Commit(w) \/ Success(w)
      <4>1. pc'[w] \in {"traverse", "call", "commit", "success", "hook", "answer"}
        BY <2>3, <2>4, <3>2 DEF Start, Traverse, Call, Commit, CommitTransaction, Success
      <4>2. /\ pc[w] \in {"start", "traverse", "call", "commit", "success"}
            /\ promised' = promised /\ attempt' = attempt
        BY <3>2 DEF Start, Traverse, Call, Commit, Success, request
      <4> QED BY <2>2, <4>1, <4>2 DEF Announced
    <3>3. CASE Hook(w)
      <4>1. retrying'[w] <=> outcome'[w] = "retry"
        <5>1. RenderError(w) => outcome'[w] # "retry"
          BY <1>0 DEF RenderError, TypeOK
        <5>2. RetryRaised(w) => (retrying'[w] <=> outcome'[w] = "retry")
          BY <1>0, <5>1 DEF RetryRaised, TypeOK
        <5> QED BY <1>0, <3>3, <5>1, <5>2 DEF Hook, TypeOK
      <4> QED BY <2>2, <2>4, <3>3, <4>1 DEF Hook, Announced, request
    <3>4. CASE Abort(w)
      BY <2>2, <2>4, <2>5, <3>4 DEF Abort, Announced, request
    <3>5. CASE Failure(w)
      <4>1. promised'[w] = IF retrying[w] THEN promised[w] \cup {attempt[w]} ELSE promised[w]
        BY <1>0, <3>5 DEF Failure, TypeOK
      <4>2. pc'[w] = IF outcome[w] = "retry" THEN "retry" ELSE "answer"
        BY <2>4, <2>5, <3>5 DEF Failure
      <4>3. (0 .. attempt[w] - 1) \cup {attempt[w]} = 0 .. attempt[w]
        BY <2>6
      <4>4. pc[w] = "failure" /\ promised[w] = 0 .. attempt[w] - 1
        BY <2>2, <3>5 DEF Failure, Announced
      <4>5. promised'[w] = IF outcome[w] = "retry" THEN 0 .. attempt[w] ELSE 0 .. attempt[w] - 1
        BY <2>2, <4>1, <4>3, <4>4 DEF Announced
      <4>6. attempt' = attempt /\ pc'[w] \in {"retry", "answer"} /\ (pc'[w] = "retry" <=> outcome[w] = "retry")
        BY <3>5, <4>2 DEF Failure, request
      <4> QED BY <4>5, <4>6 DEF Announced
    <3>6. CASE Retry(w)
      <4>1. attempt'[w] = attempt[w] + 1
        BY <1>0, <3>6 DEF Retry, RetryCount, TypeOK
      <4>2. pc[w] = "retry" /\ promised'[w] = 0 .. attempt[w] /\ pc'[w] = "start"
        BY <2>2, <2>4, <3>6 DEF Retry, Announced, failure
      <4>3. 0 .. attempt[w] = 0 .. (attempt[w] + 1) - 1
        BY <2>6
      <4> QED BY <4>1, <4>2, <4>3 DEF Announced
    <3>7. CASE Answer(w)
      BY <2>2, <2>4, <3>7 DEF Answer, Announced, failure, request
    <3>8. CASE Finish(w)
      BY <2>4, <3>8 DEF Finish, Announced
    <3> QED BY <1>2, <3>1, <3>2, <3>3, <3>4, <3>5, <3>6, <3>7, <3>8 DEF Publish
  <2> QED BY <2>1, <2>7 DEF AnnouncedInv
<1> QED BY <1>1, <1>2 DEF Next

\* As long as no subscriber to a failure event raises, retry = True is announced
\* for exactly the attempts that are followed by another one.
THEOREM RetriesAnnounced ==
    ASSUME FailureEventsSucceed
    PROVE  Spec => []RetriesAreAnnounced
<1>1. Init => AnnouncedInv
  BY DEF Init, AnnouncedInv, Announced
<1>2. AnnouncedInv => RetriesAreAnnounced
  BY DEF AnnouncedInv, Announced, RetriesAreAnnounced
<1>3. TInv /\ AnnouncedInv /\ [Next]_vars => AnnouncedInv'
  BY AnnouncedNext
<1> QED BY <1>1, <1>2, <1>3, TypeInvariance, PTL DEF Spec

-----------------------------------------------------------------------------
(* The access log *)

\* No two threads serve one request.
OneThread ==
    \A v, w \in Workers :
        pc[v] # "idle" /\ pc[w] # "idle" /\ serving[v] = serving[w] => v = w

\* Nothing is sent for a request that waits, and no thread serves it.
TakenInv ==
    /\ OneThread
    /\ \A r \in waiting : wire[r] = <<>> /\ \A w \in Workers : pc[w] # "idle" => serving[w] # r

\* What is sent for the request of w, unless it streams, is sent by Answer.
Sent(w) ==
    serving[w] \notin Streams =>
        /\ pc[w] \notin {"idle", "finish"} => wire[serving[w]] = <<>> /\ wrote[w] = {}
        /\ pc[w] = "finish" =>
              \/ outcome[w] = "raised" /\ attempt[w] > 0
              \/ wire[serving[w]] = <<status[w][attempt[w]]>>

SentInv == TakenInv /\ \A w \in Workers : Sent(w)

\* What w's step leaves of the requests that are not its own.
LEMMA OthersWire ==
    ASSUME TInv, NEW w \in Workers, Publish(w), NEW q \in Requests, pc[w] # "idle" => q # serving[w]
    PROVE  wire'[q] = wire[q]
<1>0. TypeOK
  BY DEF TInv
<1>1. CASE Call(w) \/ Answer(w)
  <2>1. q # serving[w]
    BY <1>1 DEF Call, Answer
  <2>2. \/ wire' = wire
        \/ \E e \in {"ok", FinalStatus(w)[Responding(w)]} :
              wire' = [wire EXCEPT ![serving[w]] = Append(wire[serving[w]], e)]
    BY <1>1 DEF Call, Answer
  <2> QED BY <1>0, <2>1, <2>2 DEF TypeOK
<1> QED BY <1>1 DEF Publish, Take, Start, Traverse, Commit, Success, Hook, Abort, Failure, Retry,
     Finish, shared

\* What w's step makes of the requests that wait.
LEMMA TakenNext ==
    ASSUME TInv, TakenInv, NEW w \in Workers, Publish(w)
    PROVE  TakenInv'
<1>0. TypeOK /\ OneThread
  BY DEF TInv, TakenInv
<1>1. /\ pc[w] = "idle" => Take(w)
      /\ pc[w] # "idle" => pc'[w] = "idle" \/ serving' = serving
      /\ pc[w] # "idle" => waiting' = waiting
  BY <1>0 DEF Publish, Take, Start, Traverse, Call, Commit, Success, Hook, Abort,
     Failure, Retry, Answer, Finish, Goto, TypeOK, shared, request
<1>2. Take(w) => serving'[w] \in waiting /\ waiting' = waiting \ {serving'[w]}
  BY <1>0 DEF Take, TypeOK
<1>3. ASSUME NEW v \in Workers, v # w PROVE pc'[v] = pc[v] /\ serving'[v] = serving[v]
  BY <1>0, <1>3, OthersUntouched DEF Own
<1>4. OneThread'
  BY <1>0, <1>1, <1>2, <1>3 DEF OneThread, TakenInv
<1>5. ASSUME NEW r \in waiting'
      PROVE  wire'[r] = <<>> /\ \A v \in Workers : pc'[v] # "idle" => serving'[v] # r
  <2>1. r \in waiting /\ r \in Requests
    BY <1>0, <1>1, <1>2 DEF TypeOK
  <2>2. wire[r] = <<>> /\ \A v \in Workers : pc[v] # "idle" => serving[v] # r
    BY <2>1 DEF TakenInv
  <2>3. wire'[r] = <<>>
    BY <2>1, <2>2, OthersWire
  <2>4. ASSUME NEW v \in Workers, pc'[v] # "idle" PROVE serving'[v] # r
    BY <1>1, <1>2, <1>3, <2>2, <2>4
  <2> QED BY <2>3, <2>4
<1> QED BY <1>4, <1>5 DEF TakenInv

\* What w's step makes of its own request.
LEMMA OwnWire ==
    ASSUME TInv, TakenInv, NEW w \in Workers, Publish(w), Sent(w)
    PROVE  Sent(w)'
<1>0. TypeOK /\ ServeInv
  BY DEF TInv
<1>1. \A k : Raise(w, k) => pc'[w] = "hook"
  BY <1>0 DEF Raise, Goto, TypeOK
<1>2. \A l : Goto(w, l) => pc'[w] = l
  BY <1>0 DEF Goto, TypeOK
<1>3. CASE Take(w)
  <2>1. PICK r \in waiting : serving' = [serving EXCEPT ![w] = r]
    BY <1>3 DEF Take
  <2>2. serving'[w] = r /\ pc'[w] = "start" /\ wrote'[w] = {}
    BY <1>0, <1>2, <1>3, <2>1 DEF Take, TypeOK
  <2>3. wire'[r] = <<>>
    BY <1>3 DEF Take, TakenInv
  <2> QED BY <2>2, <2>3 DEF Sent
<1>4. CASE Call(w)
  <2>1. serving' = serving /\ pc'[w] \in {"commit", "hook"} /\ pc[w] = "call"
    BY <1>1, <1>2, <1>4 DEF Call, request
  <2>2. serving[w] \notin Streams => wire' = wire /\ wrote' = wrote
    BY <1>4 DEF Call
  <2> QED BY <2>1, <2>2 DEF Sent
<1>5. CASE Answer(w)
  <2>1. pc[w] = "answer" /\ pc'[w] = "finish" /\ serving' = serving /\ UNCHANGED <<outcome, attempt>>
    BY <1>2, <1>5 DEF Answer, request, failure
  <2>2. ASSUME serving[w] \notin Streams, outcome[w] # "raised" \/ ~(attempt[w] > 0)
        PROVE  wire'[serving[w]] = <<status'[w][attempt[w]]>>
    <3>1. wire[serving[w]] = <<>> /\ wrote[w] = {}
      BY <2>1, <2>2 DEF Sent
    <3>2. wire' = [wire EXCEPT ![serving[w]] = Append(<<>>, FinalStatus(w)[Responding(w)])]
      BY <1>5, <3>1 DEF Answer
    <3>3. status' = [status EXCEPT ![w] = FinalStatus(w)]
      BY <1>5 DEF Answer
    <3>4. Responding(w) = attempt[w]
      <4>1. attempt[w] \in Nat
        BY <1>0, PublisherAssumption DEF TypeOK
      <4> QED BY <4>1, <2>2 DEF Responding
    <3>5. serving[w] \in Requests
      BY <1>0, <2>1 DEF ServeInv
    <3>6. wire'[serving[w]] = <<FinalStatus(w)[Responding(w)]>>
      BY <1>0, <3>2, <3>5 DEF TypeOK
    <3>7. status'[w] = FinalStatus(w)
      BY <1>0, <3>3 DEF TypeOK
    <3> QED BY <3>4, <3>6, <3>7
  <2> QED BY <2>1, <2>2 DEF Sent
<1>6. CASE Finish(w)
  BY <1>2, <1>6 DEF Finish, Sent
<1>7. CASE Start(w) \/ Traverse(w) \/ Commit(w) \/ Success(w) \/ Hook(w) \/ Abort(w) \/ Failure(w) \/ Retry(w)
  <2>1. pc[w] \notin {"idle", "finish"} /\ UNCHANGED <<serving, wire, wrote>>
    BY <1>7 DEF Start, Traverse, Commit, Success, Hook, Abort, Failure, Retry, shared, request, response
  <2>2. pc'[w] \notin {"idle", "finish"}
    BY <1>1, <1>2, <1>7 DEF Start, Traverse, Commit, CommitTransaction, Success, Hook, Abort, Failure, Retry
  <2> QED BY <2>1, <2>2 DEF Sent
<1> QED BY <1>3, <1>4, <1>5, <1>6, <1>7 DEF Publish

LEMMA SentNext == TInv /\ SentInv /\ [Next]_vars => SentInv'
<1> SUFFICES ASSUME TInv, SentInv, [Next]_vars PROVE SentInv'
  OBVIOUS
<1>0. TypeOK /\ ServeInv /\ OneThread /\ TakenInv /\ \A v \in Workers : Sent(v)
  BY DEF TInv, SentInv, TakenInv
<1>1. CASE UNCHANGED vars
  BY <1>0, <1>1 DEF vars, shared, request, failure, transaction, response, SentInv, TakenInv,
     OneThread, Sent
<1>2. ASSUME NEW w \in Workers, Publish(w) PROVE SentInv'
  <2>1. ASSUME NEW v \in Workers, v # w PROVE Sent(v)'
    <3>1. Own(v)' = Own(v)
      BY <1>0, <1>2, <2>1, OthersUntouched
    <3>2. CASE pc[v] = "idle"
      BY <1>0, <3>1, <3>2 DEF Own, Sent
    <3>3. CASE pc[v] # "idle"
      <4>1. serving[v] \in Requests
        BY <1>0, <3>3 DEF ServeInv
      <4>2. pc[w] # "idle" => serving[v] # serving[w]
        BY <1>0, <2>1, <3>3 DEF OneThread
      <4>3. wire'[serving[v]] = wire[serving[v]]
        BY <1>2, <4>1, <4>2, OthersWire
      <4> QED BY <1>0, <3>1, <4>3 DEF Own, Sent
    <3> QED BY <3>2, <3>3
  <2>2. Sent(w)'
    BY <1>0, <1>2, OwnWire
  <2>3. TakenInv'
    BY <1>0, <1>2, TakenNext
  <2> QED BY <2>1, <2>2, <2>3 DEF SentInv
<1> QED BY <1>1, <1>2 DEF Next

\* Whatever fails in the handling of failures, the access log shows the status line
\* that was sent, but for streams and for what leaves a retried attempt: _finish
\* follows the responses to the last attempt, the one that was answered.
THEOREM LoggedWasSent == Spec => LoggedIsSent
<1>1. Init => SentInv
  BY DEF Init, SentInv, TakenInv, OneThread, Sent
<1>2. TInv /\ SentInv /\ [Next]_vars => SentInv'
  BY SentNext
<1>3. TInv /\ SentInv /\ [Next]_vars =>
        [\A w \in Workers :
            pc[w] = "finish" /\ pc'[w] = "idle" =>
                \/ serving[w] \in Streams
                \/ outcome[w] = "raised" /\ attempt[w] > 0
                \/ wire[serving[w]] = <<logged'[serving[w]]>>]_vars
  <2> SUFFICES ASSUME TInv, SentInv, Next, NEW w \in Workers, pc[w] = "finish", pc'[w] = "idle",
                      serving[w] \notin Streams, ~(outcome[w] = "raised" /\ attempt[w] > 0)
               PROVE  wire[serving[w]] = <<logged'[serving[w]]>>
    OBVIOUS
  <2>1. PICK v \in Workers : Publish(v)
    BY DEF Next
  <2>2. v = w
    <3>1. v # w => pc'[w] = pc[w]
      BY <2>1, OthersUntouched DEF Own, TInv
    <3> QED BY <3>1
  <2>3. Finish(w)
    BY <2>1, <2>2 DEF Publish, Take, Start, Traverse, Call, Commit, Success, Hook, Abort, Failure,
       Retry, Answer
  <2>4. serving[w] \in Requests
    BY DEF TInv, ServeInv
  <2>5. logged'[serving[w]] = status[w][attempt[w]]
    BY <2>3, <2>4 DEF Finish, Finished, TInv, TypeOK
  <2>6. wire[serving[w]] = <<status[w][attempt[w]]>>
    BY DEF SentInv, Sent
  <2> QED BY <2>5, <2>6
<1> QED BY <1>1, <1>2, <1>3, TypeInvariance, PTL DEF Spec, LoggedIsSent

-----------------------------------------------------------------------------
(* The refinement *)

\* Subscribers to PubSuccess do not raise, and no page is streamed: what is
\* committed is not tried again, and nothing is sent before the commit.
AnswersAreHonest == "PubSuccess" \notin Failing /\ Streams = {}

\* r is in the database d, or not.
In(r, d) == \A o \in Touches[r] : r \in Range(d[o])
Out(r, d) == \A o \in Touches[r] : r \notin Range(d[o])
Settled(r, d) == In(r, d) \/ r \in Dooms

\* The database once r is applied to it.
DbWith(r) == [o \in Objects |-> IF o \in Touches[r] THEN Append(db[o], r) ELSE db[o]]

WaitingInv ==
    \A r \in waiting :
        /\ wire[r] = <<>> /\ Out(r, db)
        /\ \A w \in Workers : pc[w] # "idle" => serving[w] # r

\* How far the request of w is: what was answered, what is in the database, and
\* what its response says.
Fate(w) ==
    /\ wrote[w] = {}
    /\ pc[w] \in Trying \cup {"success", "answer"} => wire[serving[w]] = <<>>
    /\ pc[w] \in Trying => Out(serving[w], db)
    /\ pc[w] = "commit" => pending[w] = Touches[serving[w]]
    /\ pc[w] = "success" => Settled(serving[w], db)
    /\ pc[w] \in {"start", "traverse", "call", "commit", "hook", "retry", "success"}
           => status[w] = NewStatus
    /\ pc[w] \in {"abort", "failure"} =>
           /\ outcome[w] # "page"
           /\ outcome[w] = "rendered" => status[w][attempt[w]] = "failed"
           /\ outcome[w] = "retry" => status[w] = NewStatus
    /\ pc[w] = "answer" =>
           \/ outcome[w] = "page" /\ Settled(serving[w], db) /\ status[w] = NewStatus
           \/ outcome[w] = "rendered" /\ Out(serving[w], db)
              /\ status[w][attempt[w]] = "failed"
           \/ outcome[w] = "raised" /\ Out(serving[w], db)

FateInv == OneThread /\ WaitingInv /\ \A w \in Workers : Fate(w)

RInv == TInv /\ FateInv

\* Applying r makes it applied, and changes nothing for another request.
LEMMA ApplyOne ==
    ASSUME TypeOK, NEW r \in Requests, db' = DbWith(r)
    PROVE  /\ In(r, db')
           /\ \A q \in Requests \ {r} :
                (Out(q, db) => Out(q, db')) /\ (In(q, db) => In(q, db'))
<1>1. \A o \in Objects : db[o] \in Seq(Requests)
  BY DEF TypeOK
<1>2. \A o \in Objects : Range(Append(db[o], r)) = Range(db[o]) \cup {r}
  BY <1>1, AppendRange
<1>3. \A q \in Requests : Touches[q] \subseteq Objects
  BY PublisherAssumption
<1>4. \A o \in Objects : Range(db'[o]) = IF o \in Touches[r] THEN Range(db[o]) \cup {r}
                                         ELSE Range(db[o])
  BY <1>2 DEF DbWith
<1>5. ASSUME NEW o \in Touches[r] PROVE r \in Range(db'[o])
  <2>1. o \in Objects
    BY <1>3
  <2> QED BY <1>4, <2>1
<1>6. ASSUME NEW q \in Requests, q # r, NEW o \in Touches[q]
      PROVE  q \in Range(db'[o]) <=> q \in Range(db[o])
  <2>1. o \in Objects
    BY <1>3, <1>6
  <2> QED BY <1>4, <1>6, <2>1
<1>7. In(r, db')
  BY <1>5 DEF In
<1>8. ASSUME NEW q \in Requests \ {r}
      PROVE  /\ Out(q, db) => Out(q, db')
             /\ In(q, db) => In(q, db')
  BY <1>6 DEF In, Out
<1> QED BY <1>7, <1>8

\* A step changes the database only by applying the request of a commit.
LEMMA DbStep ==
    ASSUME RInv, NEW w \in Workers, Publish(w)
    PROVE  \/ db' = db
           \/ /\ pc[w] = "commit" /\ pc'[w] = "success"
              /\ db' = DbWith(serving[w])
<1>1. CASE Commit(w)
  <2>1. CASE UNCHANGED db
    BY <2>1
  <2>2. CASE Store(w) /\ ~Conflict(w) /\ Goto(w, "success")
    <3>1. pending[w] = Touches[serving[w]] /\ pc[w] = "commit"
      BY <1>1 DEF Commit, RInv, FateInv, Fate
    <3>2. \A o \in pending[w] : snapshot[w][o] = db[o]
      BY <2>2 DEF Conflict
    <3>3. db' = DbWith(serving[w])
      BY <2>2, <3>1, <3>2 DEF Store, DbWith
    <3>4. pc'[w] = "success"
      BY <2>2 DEF Goto, RInv, TInv, TypeOK
    <3> QED BY <3>1, <3>3, <3>4
  <2> QED BY <1>1, <2>1, <2>2 DEF Commit, CommitTransaction
<1> QED BY <1>1 DEF Publish, Take, Start, Traverse, Call, Success, Hook, Abort, Failure, Retry,
     Answer, Finish, shared

\* A step changes what is sent only by answering a request.
LEMMA WireStep ==
    ASSUME AnswersAreHonest, RInv, NEW w \in Workers, Publish(w)
    PROVE  \/ wire' = wire
           \/ /\ pc[w] = "answer" /\ pc'[w] = "finish"
              /\ wire' = [wire EXCEPT ![serving[w]] =
                             Append(wire[serving[w]], FinalStatus(w)[Responding(w)])]
<1>1. CASE Call(w)
  BY <1>1 DEF Call, AnswersAreHonest
<1>2. CASE Answer(w)
  BY <1>2 DEF Answer, Goto, RInv, TInv, TypeOK
<1> QED BY <1>1, <1>2 DEF Publish, Take, Start, Traverse, Commit, Success, Hook, Abort,
     Failure, Retry, Finish, shared

LEMMA FateInit == Init => FateInv
<1> SUFFICES ASSUME Init PROVE FateInv
  OBVIOUS
<1>1. \A o \in Objects : Range(db[o]) = {}
  BY DEF Init, Range
<1>2. \A r \in Requests : Touches[r] \subseteq Objects
  BY PublisherAssumption
<1>3. \A r \in Requests : Out(r, db)
  BY <1>1, <1>2 DEF Out
<1>4. OneThread /\ WaitingInv
  BY <1>3 DEF Init, OneThread, WaitingInv
<1>5. \A w \in Workers : Fate(w)
  BY DEF Init, Fate, Trying
<1> QED BY <1>4, <1>5 DEF FateInv

\* What w's step leaves of the requests that are not its own.
LEMMA OthersFate ==
    ASSUME AnswersAreHonest, RInv, NEW w \in Workers, Publish(w),
           NEW q \in Requests, pc[w] # "idle" => q # serving[w]
    PROVE  /\ wire'[q] = wire[q]
           /\ Out(q, db) => Out(q, db')
           /\ Settled(q, db) => Settled(q, db')
<1>0. TypeOK /\ ServeInv
  BY DEF RInv, TInv
<1>1. wire'[q] = wire[q]
  <2>1. CASE wire' = wire
    BY <2>1
  <2>2. CASE /\ pc[w] = "answer"
             /\ wire' = [wire EXCEPT ![serving[w]] =
                            Append(wire[serving[w]], FinalStatus(w)[Responding(w)])]
    BY <1>0, <2>2 DEF TypeOK
  <2> QED BY <2>1, <2>2, WireStep
<1>2. CASE db' = db
  BY <1>1, <1>2 DEF In, Out, Settled
<1>3. CASE pc[w] = "commit" /\ db' = DbWith(serving[w])
  <2>1. serving[w] \in Requests /\ q # serving[w]
    BY <1>0, <1>3 DEF ServeInv
  <2> QED BY <1>0, <1>1, <1>3, <2>1, ApplyOne DEF Settled
<1> QED BY <1>2, <1>3, DbStep

\* What w's step makes of its own request.
LEMMA OwnFate ==
    ASSUME AnswersAreHonest, RInv, NEW w \in Workers, Publish(w)
    PROVE  Fate(w)'
<1>0. /\ TypeOK /\ ServeInv /\ RetryInv /\ RetryLabelInv
      /\ WaitingInv /\ Fate(w)
  BY DEF RInv, TInv, FateInv
<1>f. attempt[w] \in Attempts /\ 0 \in Attempts
  BY <1>0, PublisherAssumption DEF TypeOK, Attempts
<1>1. \A k : Raise(w, k) => pc'[w] = "hook"
  BY <1>0 DEF Raise, Goto, TypeOK
<1>2. \A l : Goto(w, l) => pc'[w] = l
  BY <1>0 DEF Goto, TypeOK
<1>3. \A k : RaiseInstead(w, k) => outcome'[w] = "raised"
  BY <1>0 DEF RaiseInstead, TypeOK
<1>4. RenderError(w) =>
        \/ outcome'[w] = "rendered" /\ status'[w][attempt[w]] = "failed"
        \/ outcome'[w] = "raised"
  BY <1>0, <1>f DEF RenderError, StatusOfError, TypeOK
<1>5. RetryRaised(w) =>
        \/ outcome'[w] = "retry" /\ status' = status
        \/ outcome'[w] = "rendered" /\ status'[w][attempt[w]] = "failed"
        \/ outcome'[w] = "raised"
  BY <1>0, <1>4 DEF RetryRaised, TypeOK
<1> USE DEF shared, request, failure, transaction, response
<1>11. CASE Take(w)
  <2>1. PICK r \in waiting : serving' = [serving EXCEPT ![w] = r]
    BY <1>11 DEF Take
  <2>2. serving'[w] = r /\ pc'[w] = "start" /\ wrote'[w] = {} /\ status'[w] = NewStatus
    BY <1>0, <1>2, <1>11, <2>1 DEF Take, TypeOK
  <2>3. wire'[r] = <<>> /\ Out(r, db')
    BY <1>0, <1>11 DEF Take, WaitingInv
  <2> QED BY <2>2, <2>3 DEF Fate, Trying, Out
<1>12. CASE Start(w)
  <2>1. pc'[w] \in {"traverse", "hook"} /\ pc[w] = "start"
    BY <1>1, <1>2, <1>12 DEF Start
  <2> QED BY <1>0, <1>12, <2>1 DEF Start, Fate, Trying, Out
<1>13. CASE Traverse(w)
  <2>1. pc'[w] \in {"call", "hook"} /\ pc[w] = "traverse"
    BY <1>1, <1>2, <1>13 DEF Traverse
  <2> QED BY <1>0, <1>13, <2>1 DEF Traverse, Fate, Trying, Out
<1>14. CASE Call(w)
  <2>1. pc'[w] \in {"commit", "hook"} /\ pc[w] = "call"
    BY <1>1, <1>2, <1>14 DEF Call
  <2>2. pending'[w] = Touches[serving[w]] /\ wire' = wire /\ wrote' = wrote
    BY <1>0, <1>14 DEF Call, AnswersAreHonest, TypeOK
  <2> QED BY <1>0, <1>14, <2>1, <2>2 DEF Call, Fate, Trying, Out
<1>15. CASE Commit(w)
  <2>1. CASE db' = db /\ pc'[w] = "hook"
    BY <1>0, <1>15, <2>1 DEF Commit, Fate, Trying, Out
  <2>2. CASE pc'[w] = "success" /\ serving[w] \in Dooms
    BY <1>0, <1>15, <2>2 DEF Commit, Fate, Trying, Settled
  <2>3. CASE pc'[w] = "success" /\ db' = DbWith(serving[w])
    <3>1. serving[w] \in Requests
      BY <1>0, <1>15 DEF Commit, ServeInv
    <3>2. In(serving[w], db')
      BY <1>0, <2>3, <3>1, ApplyOne
    <3> QED BY <1>0, <1>15, <2>3, <3>2 DEF Commit, Fate, Trying, Settled, In
  <2> QED
    <3>1. \/ pc'[w] = "hook" /\ db' = db
          \/ pc'[w] = "success" /\ serving[w] \in Dooms
          \/ pc'[w] = "success" /\ db' # db
          \/ pc'[w] = "success" /\ Store(w) /\ ~Conflict(w)
      BY <1>1, <1>2, <1>15 DEF Commit, CommitTransaction
    <3>2. pc'[w] = "success" /\ Store(w) /\ ~Conflict(w) => db' = DbWith(serving[w])
      <4>1. pending[w] = Touches[serving[w]]
        BY <1>0, <1>15 DEF Commit, Fate
      <4> QED BY <4>1 DEF Store, Conflict, DbWith
    <3> QED BY <2>1, <2>2, <2>3, <3>1, <3>2, DbStep
<1>16. CASE Success(w)
  <2>1. pc'[w] = "answer" /\ outcome'[w] = "page" /\ pc[w] = "success"
    BY <1>0, <1>2, <1>16 DEF Success, RaisedBy, AnswersAreHonest, TypeOK
  <2> QED BY <1>0, <1>16, <2>1 DEF Success, Fate, Trying, Settled, In
<1>17. CASE Hook(w)
  <2>1. /\ pc'[w] = "abort" /\ pc[w] = "hook"
        /\ \/ outcome'[w] = "rendered" /\ status'[w][attempt[w]] = "failed"
           \/ outcome'[w] = "raised"
           \/ outcome'[w] = "retry" /\ status' = status
    BY <1>0, <1>2, <1>4, <1>5, <1>17 DEF Hook, TypeOK
  <2> QED BY <1>0, <1>17, <2>1 DEF Hook, Fate, Trying, Out
<1>18. CASE Abort(w)
  <2>1. /\ pc'[w] = "failure" /\ pc[w] = "abort"
        /\ outcome'[w] = outcome[w] \/ outcome'[w] = "raised"
    BY <1>2, <1>3, <1>18 DEF Abort
  <2> QED BY <1>0, <1>18, <2>1 DEF Abort, Fate, Trying, Out
<1>19. CASE Failure(w)
  <2>1. /\ pc[w] = "failure"
        /\ \/ outcome' = outcome /\ outcome[w] = "retry" /\ pc'[w] = "retry"
           \/ outcome' = outcome /\ outcome[w] # "retry" /\ pc'[w] = "answer"
           \/ outcome'[w] = "raised" /\ pc'[w] = "answer"
    BY <1>2, <1>3, <1>19 DEF Failure
  <2>2. outcome[w] \in {"page", "rendered", "raised", "retry"}
    BY <1>0 DEF TypeOK
  <2> QED BY <1>0, <1>19, <2>1, <2>2 DEF Failure, Fate, Trying, Out
<1>20. CASE Retry(w)
  <2>1. pc'[w] = "start" /\ pc[w] = "retry"
    BY <1>2, <1>20 DEF Retry
  <2> QED BY <1>0, <1>20, <2>1 DEF Retry, Fate, Trying, Out
<1>21. CASE Answer(w)
  <2>1. pc'[w] = "finish"
    BY <1>2, <1>21 DEF Answer
  <2> QED BY <1>0, <1>21, <2>1 DEF Answer, Fate, Trying
<1>22. CASE Finish(w)
  <2>1. pc'[w] = "idle"
    BY <1>2, <1>22 DEF Finish
  <2> QED BY <1>0, <1>22, <2>1 DEF Finish, Fate, Trying
<1> QED BY <1>11, <1>12, <1>13, <1>14, <1>15, <1>16, <1>17, <1>18, <1>19, <1>20, <1>21,
     <1>22 DEF Publish

LEMMA FateNext == AnswersAreHonest /\ RInv /\ [Next]_vars => FateInv'
<1> SUFFICES ASSUME AnswersAreHonest, RInv, [Next]_vars PROVE FateInv'
  OBVIOUS
<1>0. /\ TypeOK /\ ServeInv /\ RetryInv /\ RetryLabelInv
      /\ OneThread /\ WaitingInv /\ \A v \in Workers : Fate(v)
  BY DEF RInv, TInv, FateInv
<1>1. CASE UNCHANGED vars
  BY <1>0, <1>1 DEF vars, shared, request, failure, transaction, response, FateInv, OneThread,
     WaitingInv, Fate, In, Out, Settled
<1>2. ASSUME NEW w \in Workers, Publish(w) PROVE FateInv'
  <2>1. ASSUME NEW v \in Workers, v # w PROVE Fate(v)'
    <3>1. Own(v)' = Own(v)
      BY <1>0, <1>2, <2>1, OthersUntouched
    <3>2. CASE pc[v] = "idle"
      BY <1>0, <3>1, <3>2 DEF Own, Fate, Trying
    <3>3. CASE pc[v] # "idle"
      <4>1. serving[v] \in Requests
        BY <1>0, <3>3 DEF ServeInv
      <4>2. pc[w] # "idle" => serving[v] # serving[w]
        BY <1>0, <2>1, <3>3 DEF OneThread
      <4>3. /\ wire'[serving[v]] = wire[serving[v]]
            /\ Out(serving[v], db) => Out(serving[v], db')
            /\ Settled(serving[v], db) => Settled(serving[v], db')
        BY <1>2, <4>1, <4>2, OthersFate
      <4> QED BY <1>0, <3>1, <4>3 DEF Own, Fate
    <3> QED BY <3>2, <3>3
  <2>2. Fate(w)'
    BY <1>0, <1>2, OwnFate DEF RInv
  <2>3. /\ pc[w] = "idle" => Take(w)
        /\ pc[w] # "idle" => pc'[w] = "idle" \/ serving' = serving
        /\ pc[w] # "idle" => waiting' = waiting
    BY <1>0, <1>2 DEF Publish, Take, Start, Traverse, Call, Commit, Success, Hook, Abort,
       Failure, Retry, Answer, Finish, Goto, TypeOK, shared, request
  <2>4. Take(w) => /\ serving'[w] \in waiting
                   /\ waiting' = waiting \ {serving'[w]}
    BY <1>0 DEF Take, TypeOK
  <2>5. ASSUME NEW v \in Workers, v # w PROVE pc'[v] = pc[v] /\ serving'[v] = serving[v]
    BY <1>0, <1>2, <2>5, OthersUntouched DEF Own
  <2>6. OneThread'
    BY <1>0, <2>3, <2>4, <2>5 DEF OneThread, WaitingInv
  <2>7. WaitingInv'
    <3> SUFFICES ASSUME NEW r \in waiting'
                 PROVE  /\ wire'[r] = <<>> /\ Out(r, db')
                        /\ \A v \in Workers : pc'[v] # "idle" => serving'[v] # r
      BY DEF WaitingInv, Out
    <3>1. r \in waiting /\ r \in Requests
      BY <1>0, <2>3, <2>4 DEF TypeOK
    <3>2. wire[r] = <<>> /\ Out(r, db) /\ \A v \in Workers : pc[v] # "idle" => serving[v] # r
      BY <1>0, <3>1 DEF WaitingInv
    <3>3. wire'[r] = <<>> /\ Out(r, db')
      BY <1>2, <3>1, <3>2, OthersFate
    <3>4. ASSUME NEW v \in Workers, pc'[v] # "idle" PROVE serving'[v] # r
      BY <2>3, <2>4, <2>5, <3>2, <3>4
    <3> QED BY <3>3, <3>4
  <2> QED BY <2>1, <2>2, <2>6, <2>7 DEF FateInv
<1> QED BY <1>1, <1>2 DEF Next

\* Each step of a thread applies its request, answers it, or does neither.
LEMMA StepImplements ==
    ASSUME AnswersAreHonest, RInv, [Next]_vars
    PROVE  [Atomic!Next]_<<db, Told>>
<1>0. TypeOK /\ ServeInv /\ \A v \in Workers : Fate(v)
  BY DEF RInv, TInv, FateInv
<1>1. CASE UNCHANGED vars
  BY <1>1 DEF vars, shared, Told
<1>2. ASSUME NEW w \in Workers, Publish(w) PROVE [Atomic!Next]_<<db, Told>>
  <2> DEFINE r == serving[w]
  <2>1. CASE wire' = wire /\ db' = db
    BY <2>1 DEF Told
  <2>2. CASE /\ pc[w] = "commit" /\ wire' = wire
             /\ db' = DbWith(r)
    <3>1. r \in Requests /\ wire[r] = <<>> /\ Out(r, db)
      BY <1>0, <2>2 DEF ServeInv, Fate, Trying
    <3>2. Told[r] = "none" /\ Told' = Told
      BY <2>2, <3>1 DEF Told
    <3>3. Atomic!NotApplied(r)
      BY <3>1 DEF Atomic!NotApplied, Atomic!Range, Out, Range
    <3>4. Atomic!Apply(r)
      BY <2>2, <3>2, <3>3 DEF Atomic!Apply, DbWith
    <3> QED BY <3>1, <3>4 DEF Atomic!Next
  <2>3. CASE /\ pc[w] = "answer" /\ db' = db
             /\ wire' = [wire EXCEPT ![r] = Append(wire[r], FinalStatus(w)[Responding(w)])]
    <3>1. r \in Requests /\ wire[r] = <<>>
      BY <1>0, <2>3 DEF ServeInv, Fate
    <3>2. \/ Settled(r, db) /\ FinalStatus(w)[Responding(w)] = "ok"
          \/ Out(r, db) /\ FinalStatus(w)[Responding(w)] = "failed"
      <4>1. 0 \in Attempts /\ attempt[w] \in Attempts
        BY <1>0, PublisherAssumption DEF TypeOK, Attempts
      <4>2. status[w] \in [Attempts -> {"ok", "failed"}]
        BY <1>0 DEF TypeOK
      <4> QED BY <1>0, <2>3, <4>1, <4>2 DEF Fate, FinalStatus, Responding, NewStatus
    <3>3. \/ Settled(r, db) /\ wire'[r] = <<"ok">>
          \/ Out(r, db) /\ wire'[r] = <<"failed">>
      <4>1. wire'[r] = <<FinalStatus(w)[Responding(w)]>>
        BY <1>0, <2>3, <3>1 DEF TypeOK
      <4> QED BY <3>2, <4>1
    <3>4. \A q \in Requests \ {r} : wire'[q] = wire[q]
      BY <1>0, <2>3 DEF TypeOK
    <3>5. \/ Settled(r, db) /\ Told' = [Told EXCEPT ![r] = "ok"]
          \/ Out(r, db) /\ Told' = [Told EXCEPT ![r] = "failed"]
      <4>1. \A q \in Requests \ {r} : Told'[q] = Told[q]
        BY <3>4 DEF Told
      <4>2. /\ wire'[r] = <<"ok">> => Told'[r] = "ok"
            /\ wire'[r] = <<"failed">> => Told'[r] = "failed"
        BY <3>1 DEF Told
      <4>3. Told' = [q \in Requests |-> Told'[q]] /\ Told = [q \in Requests |-> Told[q]]
        BY DEF Told
      <4> QED BY <3>1, <3>3, <4>1, <4>2, <4>3
    <3>6. Told[r] = "none"
      BY <3>1 DEF Told
    <3>7. /\ Settled(r, db) => Atomic!Applied(r) \/ r \in Dooms
          /\ Out(r, db) => Atomic!NotApplied(r)
      BY DEF Atomic!Applied, Atomic!NotApplied, Atomic!Range, Settled, In, Out, Range
    <3>8. Atomic!Answer(r)
      BY <2>3, <3>5, <3>6, <3>7 DEF Atomic!Answer
    <3> QED BY <3>1, <3>8 DEF Atomic!Next
  <2> QED BY <1>0, <1>2, <2>1, <2>2, <2>3, DbStep, WireStep
<1> QED BY <1>1, <1>2 DEF Next

\* As long as subscribers to PubSuccess do not raise and pages are not streamed,
\* every request is applied atomically and at most once, and answered truthfully.
THEOREM Refinement ==
    ASSUME AnswersAreHonest
    PROVE  Spec => ImplementsAtomic
<1>1. Init => Atomic!Init
  BY DEF Init, Atomic!Init, Told
<1>2. Init => RInv
  BY TInvInit, FateInit DEF RInv
<1>3. RInv /\ [Next]_vars => RInv'
  BY TInvNext, FateNext DEF RInv
<1>4. RInv /\ [Next]_vars => [Atomic!Next]_<<db, Told>>
  BY StepImplements
<1> QED BY <1>1, <1>2, <1>3, <1>4, PTL DEF Spec, ImplementsAtomic, Atomic!Spec
=============================================================================
