-------------------------- MODULE HttpServer_proofs --------------------------
(***************************************************************************)
(* Theorems about the HTTP channels, for any connections, any workers, any *)
(* pipelines of requests and any number of writes in a response.           *)
(*                                                                         *)
(* The argument follows a request.  It is in one place at a time: unread,  *)
(* collecting its body, in the backlog, in the pool's queue, with one      *)
(* worker, in the output queue, done.  Each place names the requests it    *)
(* may hold, so a step that moves a request makes no second copy of it.    *)
(* A worker's script is read the same way: what it may still do to the     *)
(* channel decides which marks the output queue may not hold yet.          *)
(* The order of the answers follows: a connection gives its requests to    *)
(* the pool one by one, in the order they came, and a response is sent     *)
(* before its done() gives the next one.                                   *)
(*                                                                         *)
(* The orderly shutdown comes last.  A step of the shutdown loop is no     *)
(* step of HttpServer: it closes idle channels between two polls.  It      *)
(* keeps the invariant of the channels all the same, and that invariant    *)
(* says what an idle channel is: one without a request at the pool.        *)
(***************************************************************************)
EXTENDS Lifetime, Lists, FiniteSetTheorems

Good == {"get", "last", "post"}
Elements == {CloseMark} \cup ({"write", "log", "done", "reply"} \X Requests)
OnceMarks == {"log", "done", "reply"} \X Requests

\* The main thread has read the header of r.
Read(r) == Place(r) <= arrived[ChannelOf(r)]

\* A worker has, or had, r.
Handed == accepted \ Range(queue)

\* An element of the output queue still logs r.
Marked(r) == \E m \in {"log", "reply"} : <<m, r>> \in Range(fifo[ChannelOf(r)])

-----------------------------------------------------------------------------
(* The inductive invariant *)

TypeInv ==
    /\ TypeOK
    /\ fifo \in [Channels -> Seq(Elements)]
    /\ \A w \in Workers : script[w] # <<>> => serving[w] # NoRequest
    /\ \A w \in Workers : checked[w] =>
          script[w] # <<>> /\ Head(script[w]) \in {"write", "log", "done", "close"}

\* What is left of a script: each write is followed by a wake; after the test of
\* the pipe come only the calls of close, each once, and the last wake.
Shape(s) ==
    /\ s # <<>> => s[Len(s)] = "wake"
    /\ \A i \in DOMAIN s : s[i] = "write" => s[i + 1] = "wake"
    /\ \A i, j \in DOMAIN s :
          /\ i < j /\ j < Len(s) /\ s[i] \in {"pipe", "log", "done", "close"}
          => s[j] \in {"log", "done", "close"}
    /\ OnceIn(s, {"log", "done"})
    /\ \A i \in DOMAIN s : s[i] \in {"write", "pipe", "log"} =>
          \E j \in DOMAIN s : i < j /\ s[j] = "done"

ShapeInv == \A w \in Workers : Shape(script[w])

WakeInv ==
    /\ main = "select" => reading = NoChannel /\ sending = NoChannel
    /\ NoLostWakeup

\* Where each good request is.
PlaceInv ==
    /\ \A c \in Channels : \A r \in Range(backlog[c]) :
          /\ ChannelOf(r) = c /\ Read(r) /\ Kind[r] \in Good
          /\ r \notin accepted /\ r # current[c]
    /\ \A c \in Channels : OnceIn(backlog[c], Requests)
    /\ \A c \in Channels : current[c] # NoRequest =>
          /\ ChannelOf(current[c]) = c /\ Read(current[c]) /\ Kind[current[c]] \in Good
          /\ current[c] \notin accepted
    /\ \A r \in accepted : Read(r) /\ Kind[r] \in Good
    /\ OnceIn(queue, Requests) /\ Range(queue) \subseteq accepted
    /\ \A w \in Workers : serving[w] # NoRequest => serving[w] \in Handed
    /\ \A w, v \in Workers : serving[w] = serving[v] /\ serving[w] # NoRequest => w = v

\* What an output queue holds.
MarkInv ==
    /\ \A c \in Channels : \A e \in Range(fifo[c]) : e # CloseMark =>
          /\ ChannelOf(e[2]) = c /\ Read(e[2])
          /\ e[1] = "reply" => Kind[e[2]] \notin Good
          /\ e[1] # "reply" => e[2] \in Handed
    /\ \A c \in Channels : OnceIn(fifo[c], OnceMarks)
    /\ \A w \in Workers : "done" \in Range(script[w]) =>
          <<"done", serving[w]>> \notin Range(fifo[ServedOn(w)])

\* Who may still log a request.
LogInv ==
    /\ \A r \in Requests : logged[r] \in {0, 1}
    /\ \A r \in Requests : logged[r] = 1 =>
          /\ Read(r) /\ ~Marked(r)
          /\ Kind[r] \in Good => r \in Handed
    /\ \A w \in Workers : {"pipe", "log"} \cap Range(script[w]) # {} =>
          logged[serving[w]] = 0 /\ ~Marked(serving[w])

\* channel.working, as long as the channel is not closed.
BusyInv ==
    /\ \A c \in open : ~closed[c]
    /\ \A c \in Channels : ~closed[c] =>
          /\ working[c] <=> \E r \in Requests : ChannelOf(r) = c /\ Undone(r)
          /\ \A r, q \in Requests :
                ChannelOf(r) = c /\ ChannelOf(q) = c /\ Undone(r) /\ Undone(q) => r = q

PoolInv == PlaceInv /\ MarkInv /\ LogInv /\ BusyInv
IInv == TypeInv /\ ShapeInv /\ WakeInv /\ PoolInv

-----------------------------------------------------------------------------
(* Requests and their places *)

LEMMA PlaceOf ==
    ASSUME NEW r \in Requests
    PROVE  /\ ChannelOf(r) \in Channels
           /\ Place(r) \in DOMAIN Pipeline[ChannelOf(r)]
           /\ Pipeline[ChannelOf(r)][Place(r)] = r
           /\ Place(r) \in Nat
<1>1. PICK c \in Channels : r \in Range(Pipeline[c])
  BY PipelineAssumption
<1>2. ChannelOf(r) \in Channels /\ r \in Range(Pipeline[ChannelOf(r)])
  BY <1>1 DEF ChannelOf
<1>3. \E i \in DOMAIN Pipeline[ChannelOf(r)] : Pipeline[ChannelOf(r)][i] = r
  BY <1>2 DEF Range
<1>4. /\ Place(r) \in DOMAIN Pipeline[ChannelOf(r)]
      /\ Pipeline[ChannelOf(r)][Place(r)] = r
  BY <1>3 DEF Place
<1>5. DOMAIN Pipeline[ChannelOf(r)] \subseteq Nat
  BY <1>2, PipelineAssumption
<1> QED BY <1>2, <1>4, <1>5

LEMMA NextIsNew ==
    ASSUME NEW c \in Channels, arrived[c] \in Nat, arrived[c] < Len(Pipeline[c])
    PROVE  /\ NextRequest(c) \in Requests
           /\ ChannelOf(NextRequest(c)) = c
           /\ Place(NextRequest(c)) = arrived[c] + 1
<1> DEFINE i == arrived[c] + 1
           r == Pipeline[c][i]
<1>1. i \in DOMAIN Pipeline[c] /\ r \in Requests /\ NextRequest(c) = r
  BY PipelineAssumption DEF NextRequest
<1> HIDE DEF i, r
<1>2. /\ ChannelOf(r) \in Channels
      /\ Place(r) \in DOMAIN Pipeline[ChannelOf(r)]
      /\ Pipeline[ChannelOf(r)][Place(r)] = Pipeline[c][i]
  BY <1>1, PlaceOf DEF r
<1>3. ChannelOf(r) = c /\ Place(r) = i
  BY <1>1, <1>2, PipelineAssumption
<1> QED BY <1>1, <1>3 DEF i

LEMMA ElementsAre ==
    /\ \A e \in Elements \ {CloseMark} :
          /\ e[1] \in {"write", "log", "done", "reply"} /\ e[2] \in Requests
          /\ e = <<e[1], e[2]>>
    /\ CloseMark \in Elements /\ CloseMark[1] = "close" /\ CloseMark[2] = NoRequest
    /\ \A r \in Requests : \A m \in {"write", "log", "done", "reply"} :
          <<m, r>> \in Elements /\ <<m, r>>[1] = m /\ <<m, r>>[2] = r /\ <<m, r>> # CloseMark
    /\ Elements \subseteq Marks \X (Requests \cup {NoRequest})
    /\ CloseMark \notin OnceMarks
BY NamesAssumption DEF Elements, CloseMark, Marks, OnceMarks

-----------------------------------------------------------------------------
(* Types *)

LEMMA LogsType ==
    ASSUME NEW r, NEW s \in Seq(Elements)
    PROVE  Logs(r, s) \in Nat
<1>1. IsFiniteSet(1 .. Len(s)) /\ DOMAIN s = 1 .. Len(s)
  BY FS_Interval
<1>2. IsFiniteSet({i \in DOMAIN s : s[i] \in {<<"log", r>>, <<"reply", r>>}})
  BY <1>1, FS_Subset
<1> QED BY <1>2, FS_CardinalityType DEF Logs

LEMMA WorkType ==
    ASSUME TypeInv, NEW c \in Channels, NEW busy \in BOOLEAN, NEW b \in Seq(Requests),
           Work(c, busy, b)
    PROVE  /\ working' \in [Channels -> BOOLEAN]
           /\ backlog' \in [Channels -> Seq(Requests)]
           /\ queue' \in Seq(Requests) /\ accepted' \subseteq Requests
           /\ serving' = serving
<1>1. /\ working \in [Channels -> BOOLEAN] /\ noMore \in [Channels -> BOOLEAN]
      /\ backlog \in [Channels -> Seq(Requests)]
      /\ queue \in Seq(Requests) /\ accepted \subseteq Requests
  BY DEF TypeInv, TypeOK
<1>2. b # <<>> => Head(b) \in Requests /\ Tail(b) \in Seq(Requests)
  BY TailRange
<1>3. b # <<>> => Append(queue, Head(b)) \in Seq(Requests)
  BY <1>1, <1>2, AppendRange
<1> QED BY <1>1, <1>2, <1>3 DEF Work, Pool!Submit, pool

LEMMA CloseType ==
    ASSUME TypeInv, NEW C, Close(C)
    PROVE  /\ closed' \in [Channels -> BOOLEAN] /\ working' \in [Channels -> BOOLEAN]
           /\ current' \in [Channels -> Requests \cup {NoRequest}]
           /\ backlog' \in [Channels -> Seq(Requests)]
           /\ fifo' \in [Channels -> Seq(Elements)]
           /\ logged' \in [Requests -> Nat]
<1>1. /\ closed \in [Channels -> BOOLEAN] /\ working \in [Channels -> BOOLEAN]
      /\ current \in [Channels -> Requests \cup {NoRequest}]
      /\ backlog \in [Channels -> Seq(Requests)]
      /\ fifo \in [Channels -> Seq(Elements)]
      /\ logged \in [Requests -> Nat]
  BY DEF TypeInv, TypeOK
<1>2. \A r \in Requests : Logs(r, fifo[ChannelOf(r)]) \in Nat
  BY <1>1, PlaceOf, LogsType
<1>3. logged' \in [Requests -> Nat]
  BY <1>1, <1>2 DEF Close
<1>4. <<>> \in Seq(Requests) /\ <<>> \in Seq(Elements)
  OBVIOUS
<1> QED BY <1>1, <1>3, <1>4 DEF Close

\* TypeInv with the sets of its conjuncts taken apart.
TypeFacts ==
    /\ main \in {"poll", "select", "events"}
    /\ watched \subseteq Channels /\ open \subseteq Channels
    /\ triggered \in BOOLEAN /\ thenClose \in BOOLEAN
    /\ reading \in Channels \cup {NoChannel} /\ sending \in Channels \cup {NoChannel}
    /\ closed \in [Channels -> BOOLEAN] /\ working \in [Channels -> BOOLEAN]
    /\ noMore \in [Channels -> BOOLEAN]
    /\ arrived \in [Channels -> Nat]
    /\ current \in [Channels -> Requests \cup {NoRequest}]
    /\ backlog \in [Channels -> Seq(Requests)]
    /\ fifo \in [Channels -> Seq(Elements)]
    /\ queue \in Seq(Requests) /\ accepted \subseteq Requests
    /\ serving \in [Workers -> Requests \cup {NoRequest}]
    /\ script \in [Workers -> Seq(Ops)]
    /\ checked \in [Workers -> BOOLEAN]
    /\ sent \in [Channels -> Seq(Requests)]
    /\ logged \in [Requests -> Nat]
    /\ \A w \in Workers : script[w] # <<>> => serving[w] # NoRequest
    /\ \A w \in Workers : checked[w] =>
          script[w] # <<>> /\ Head(script[w]) \in {"write", "log", "done", "close"}

LEMMA TypeInvIs == TypeInv <=> TypeFacts
<1>1. fifo \in [Channels -> Seq(Elements)] =>
      fifo \in [Channels -> Seq(Marks \X (Requests \cup {NoRequest}))]
  <2>1. ASSUME NEW s \in Seq(Elements)
        PROVE  s \in Seq(Marks \X (Requests \cup {NoRequest}))
    BY ElementsAre, SeqMonotonic
  <2> QED BY <2>1
<1> QED BY <1>1 DEF TypeInv, TypeOK, TypeFacts

LEMMA InitType == Init => TypeFacts
<1> SUFFICES ASSUME Init PROVE TypeFacts
  OBVIOUS
<1>1. \A S : <<>> \in Seq(S)
  OBVIOUS
<1>2. /\ queue = <<>> /\ accepted = {}
      /\ serving = [w \in Workers |-> NoRequest]
  BY DEF Init, Pool!Init
<1>3. /\ backlog \in [Channels -> Seq(Requests)] /\ fifo \in [Channels -> Seq(Elements)]
      /\ sent \in [Channels -> Seq(Requests)] /\ script \in [Workers -> Seq(Ops)]
      /\ queue \in Seq(Requests)
  BY <1>1, <1>2 DEF Init
<1>4. \A w \in Workers : script[w] = <<>> /\ ~checked[w]
  BY DEF Init
<1>5. /\ serving \in [Workers -> Requests \cup {NoRequest}]
      /\ current \in [Channels -> Requests \cup {NoRequest}]
      /\ arrived \in [Channels -> Nat] /\ logged \in [Requests -> Nat]
      /\ closed \in [Channels -> BOOLEAN] /\ working \in [Channels -> BOOLEAN]
      /\ noMore \in [Channels -> BOOLEAN] /\ checked \in [Workers -> BOOLEAN]
  BY <1>2 DEF Init
<1> QED BY <1>2, <1>3, <1>4, <1>5 DEF Init, TypeFacts

LEMMA ScriptStart ==
    ASSUME NEW n \in Nat \ {0}, NEW last \in BOOLEAN
    PROVE  /\ Writes(n) \o ClosingCalls(last) \in Seq(Ops)
           /\ ClosingCalls(last) \in Seq(Ops) /\ Writes(n) \in Seq(Ops)
           /\ Len(Writes(n)) = 2 * n
<1>2. ClosingCalls(last) \in Seq(Ops)
  <2>1. CASE last
    BY <2>1 DEF Ops, ClosingCalls
  <2>2. CASE ~last
    BY <2>2 DEF Ops, ClosingCalls
  <2> QED BY <2>1, <2>2
<1>3. Writes(n) \in Seq(Ops) /\ Len(Writes(n)) = 2 * n
  <2>1. 2 * n \in Nat
    OBVIOUS
  <2>2. Writes(n) \in [1 .. 2 * n -> Ops]
    BY DEF Writes, Ops
  <2> QED BY <2>1, <2>2
<1>4. Writes(n) \o ClosingCalls(last) \in Seq(Ops)
  BY <1>2, <1>3, ConcatProperties
<1> QED BY <1>2, <1>3, <1>4

LEMMA Heads ==
    ASSUME TypeFacts
    PROVE  /\ \A c \in Channels : fifo[c] # <<>> =>
                 Head(fifo[c]) \in Elements /\ Tail(fifo[c]) \in Seq(Elements)
           /\ \A w \in Workers : script[w] # <<>> =>
                 Head(script[w]) \in Ops /\ Tail(script[w]) \in Seq(Ops)
           /\ queue # <<>> => Head(queue) \in Requests /\ Tail(queue) \in Seq(Requests)
           /\ \A c \in Channels : \A e \in Elements : Append(fifo[c], e) \in Seq(Elements)
           /\ \A c \in Channels : \A r \in Requests : Append(sent[c], r) \in Seq(Requests)
           /\ \A c \in Channels : \A r \in Requests : Append(backlog[c], r) \in Seq(Requests)
<1>1. \A c \in Channels : fifo[c] \in Seq(Elements) /\ sent[c] \in Seq(Requests)
                         /\ backlog[c] \in Seq(Requests)
  BY DEF TypeFacts
<1>2. \A w \in Workers : script[w] \in Seq(Ops)
  BY DEF TypeFacts
<1>3. queue \in Seq(Requests)
  BY DEF TypeFacts
<1> QED BY <1>1, <1>2, <1>3, TailRange, AppendRange

LEMMA Counted ==
    ASSUME TypeFacts, NEW r \in Requests
    PROVE  [logged EXCEPT ![r] = logged[r] + 1] \in [Requests -> Nat]
<1>1. logged \in [Requests -> Nat] /\ logged[r] + 1 \in Nat
  BY DEF TypeFacts
<1> QED BY <1>1

\* The steps of the main thread.
LEMMA MainType ==
    ASSUME TypeFacts, Poll \/ HandleTrigger \/ EndRead
    PROVE  TypeFacts'
BY DEF TypeFacts, Poll, HandleTrigger, EndRead, input, pool, pipe

LEMMA AcceptType ==
    ASSUME TypeFacts, NEW c \in Channels, NEW zombies \in SUBSET open,
           AcceptConnection(c, zombies)
    PROVE  TypeFacts'
<1>1. Close(zombies)
  BY DEF AcceptConnection
<1>2. /\ closed' \in [Channels -> BOOLEAN] /\ working' \in [Channels -> BOOLEAN]
      /\ current' \in [Channels -> Requests \cup {NoRequest}]
      /\ backlog' \in [Channels -> Seq(Requests)]
      /\ fifo' \in [Channels -> Seq(Elements)]
      /\ logged' \in [Requests -> Nat]
  BY <1>1, CloseType, TypeInvIs
<1> QED BY <1>2 DEF TypeFacts, AcceptConnection, pool, pipe

LEMMA ReadType ==
    ASSUME TypeFacts, NEW c \in Channels, Reading(c)
    PROVE  TypeFacts'
<1>1. ASSUME NEW kinds, HeaderOf(c, kinds)
      PROVE  /\ NextRequest(c) \in Requests
             /\ arrived' \in [Channels -> Nat]
             /\ reading' = c /\ main' = "events"
  BY <1>1, NextIsNew DEF TypeFacts, HeaderOf
<1>2. ASSUME ReceiveGet(c) PROVE TypeFacts'
  <2>1. Append(backlog[c], NextRequest(c)) \in Seq(Requests)
    BY <1>1, <1>2, Heads DEF ReceiveGet
  <2>2. working[c] \in BOOLEAN
    BY DEF TypeFacts
  <2>3. /\ working' \in [Channels -> BOOLEAN]
        /\ backlog' \in [Channels -> Seq(Requests)]
        /\ queue' \in Seq(Requests) /\ accepted' \subseteq Requests
        /\ serving' = serving
    BY <1>2, <2>1, <2>2, WorkType, TypeInvIs DEF ReceiveGet
  <2> QED BY <1>1, <1>2, <2>3 DEF ReceiveGet, TypeFacts, pipe
<1>3. ASSUME ReceivePost(c) PROVE TypeFacts'
  <2>1. current' \in [Channels -> Requests \cup {NoRequest}]
    BY <1>1, <1>3 DEF ReceivePost, TypeFacts
  <2> QED BY <1>1, <1>3, <2>1 DEF ReceivePost, TypeFacts, pool, pipe
<1>4. ASSUME ReceiveBody(c) PROVE TypeFacts'
  <2>1. CollectedRequest(c) \in Requests
    BY <1>4 DEF ReceiveBody, TypeFacts, CollectedRequest
  <2>2. Append(backlog[c], CollectedRequest(c)) \in Seq(Requests)
    BY <2>1, Heads
  <2>3. working[c] \in BOOLEAN
    BY DEF TypeFacts
  <2>4. /\ working' \in [Channels -> BOOLEAN]
        /\ backlog' \in [Channels -> Seq(Requests)]
        /\ queue' \in Seq(Requests) /\ accepted' \subseteq Requests
        /\ serving' = serving
    BY <1>4, <2>2, <2>3, WorkType, TypeInvIs DEF ReceiveBody
  <2>5. current' \in [Channels -> Requests \cup {NoRequest}]
    BY <1>4 DEF ReceiveBody, TypeFacts
  <2> QED BY <1>4, <2>4, <2>5 DEF ReceiveBody, TypeFacts, pipe
<1>5. ASSUME ReceiveError(c) PROVE TypeFacts'
  <2>1. NextRequest(c) \in Requests
    BY <1>1, <1>5 DEF ReceiveError
  <2>2. /\ Append(fifo[c], CloseMark) \in Seq(Elements)
        /\ Append(fifo[c], <<"reply", NextRequest(c)>>) \in Seq(Elements)
    BY <2>1, Heads, ElementsAre
  <2>3. fifo' \in [Channels -> Seq(Elements)]
    BY <1>5, <2>2 DEF ReceiveError, TypeFacts
  <2>4. sending' \in Channels \cup {NoChannel} /\ thenClose' \in BOOLEAN
    BY <1>5 DEF ReceiveError, TypeFacts
  <2> QED BY <1>1, <1>5, <2>3, <2>4 DEF ReceiveError, TypeFacts, pool, pipe
<1>6. ASSUME ReceiveBlank(c) PROVE TypeFacts'
  <2>1. fifo' \in [Channels -> Seq(Elements)]
    BY <1>6, Heads, ElementsAre DEF ReceiveBlank, TypeFacts
  <2> QED BY <1>1, <1>6, <2>1 DEF ReceiveBlank, TypeFacts, pool, pipe
<1>7. ASSUME ReadFails(c) PROVE TypeFacts'
  <2>1. Close({c})
    BY <1>7 DEF ReadFails
  <2>2. /\ closed' \in [Channels -> BOOLEAN] /\ working' \in [Channels -> BOOLEAN]
        /\ current' \in [Channels -> Requests \cup {NoRequest}]
        /\ backlog' \in [Channels -> Seq(Requests)]
        /\ fifo' \in [Channels -> Seq(Elements)]
        /\ logged' \in [Requests -> Nat]
    BY <2>1, CloseType, TypeInvIs
  <2> QED BY <1>7, <2>2 DEF ReadFails, TypeFacts, pool, pipe
<1> QED BY <1>2, <1>3, <1>4, <1>5, <1>6, <1>7 DEF Reading

LEMMA SendType ==
    ASSUME TypeFacts, NEW c \in Channels, HandleWrite(c) \/ Sending(c)
    PROVE  TypeFacts'
<1>1. ASSUME HandleWrite(c) PROVE TypeFacts'
  BY <1>1 DEF HandleWrite, TypeFacts, input, pool, pipe
<1>2. ASSUME NEW f \in Seq(Elements), EndSend(c, f)
      PROVE  /\ fifo' \in [Channels -> Seq(Elements)]
             /\ sending' = NoChannel /\ thenClose' = FALSE
  <2>1. Append(f, CloseMark) \in Seq(Elements)
    BY ElementsAre, AppendRange
  <2> QED BY <1>2, <2>1 DEF EndSend, TypeFacts
<1>3. ASSUME SendPiece(c) PROVE TypeFacts'
  <2> DEFINE r == Head(fifo[c])[2]
  <2>1. Head(fifo[c]) \in Elements /\ Tail(fifo[c]) \in Seq(Elements)
    BY <1>3, Heads DEF SendPiece
  <2>2. r \in Requests
    BY <1>3, <2>1, ElementsAre DEF SendPiece, Head1
  <2>3. sent' \in [Channels -> Seq(Requests)] /\ logged' \in [Requests -> Nat]
    <3>1. logged' = [logged EXCEPT ![r] = logged[r] + 1] \/ logged' = logged
      BY <1>3, <2>2 DEF SendPiece, TypeFacts
    <3>2. sent' = [sent EXCEPT ![c] = Append(sent[c], r)]
      BY <1>3 DEF SendPiece
    <3> QED BY <2>2, <3>1, <3>2, Heads, Counted DEF TypeFacts
  <2>4. fifo' \in [Channels -> Seq(Elements)] /\ sending' = NoChannel /\ thenClose' = FALSE
    BY <1>2, <1>3, <2>1 DEF SendPiece
  <2> QED BY <1>3, <2>3, <2>4 DEF SendPiece, TypeFacts, input, pool, pipe
<1>4. ASSUME SendBlocks(c) PROVE TypeFacts'
  <2>1. fifo[c] \in Seq(Elements)
    BY DEF TypeFacts
  <2>2. fifo' \in [Channels -> Seq(Elements)] /\ sending' = NoChannel /\ thenClose' = FALSE
    BY <1>2, <1>4, <2>1 DEF SendBlocks
  <2> QED BY <1>4, <2>2 DEF SendBlocks, TypeFacts, input, pool, pipe
<1>5. ASSUME SendLog(c) PROVE TypeFacts'
  <2>1. Head(fifo[c]) \in Elements /\ Tail(fifo[c]) \in Seq(Elements)
    BY <1>5, Heads DEF SendLog
  <2>2. Head(fifo[c])[2] \in Requests
    BY <1>5, <2>1, ElementsAre DEF SendLog, Head1
  <2>3. logged' \in [Requests -> Nat]
    BY <1>5, <2>2, Counted DEF SendLog
  <2>4. fifo' \in [Channels -> Seq(Elements)]
    BY <1>5, <2>1 DEF SendLog, TypeFacts
  <2> QED BY <1>5, <2>3, <2>4 DEF SendLog, TypeFacts, loop, input, pool, pipe
<1>6. ASSUME SendDone(c) PROVE TypeFacts'
  <2>1. Head(fifo[c]) \in Elements /\ Tail(fifo[c]) \in Seq(Elements)
    BY <1>6, Heads DEF SendDone
  <2>2. fifo' \in [Channels -> Seq(Elements)]
    BY <1>6, <2>1 DEF SendDone, TypeFacts
  <2>3. backlog[c] \in Seq(Requests) /\ Work(c, FALSE, backlog[c])
    BY <1>6 DEF SendDone, Done, TypeFacts
  <2>4. /\ working' \in [Channels -> BOOLEAN]
        /\ backlog' \in [Channels -> Seq(Requests)]
        /\ queue' \in Seq(Requests) /\ accepted' \subseteq Requests
        /\ serving' = serving
    BY <2>3, WorkType, TypeInvIs
  <2> QED BY <1>6, <2>2, <2>4 DEF SendDone, TypeFacts, loop, input, pipe
<1>7. ASSUME SendClose(c) PROVE TypeFacts'
  <2>1. Close({c})
    BY <1>7 DEF SendClose
  <2>2. /\ closed' \in [Channels -> BOOLEAN] /\ working' \in [Channels -> BOOLEAN]
        /\ current' \in [Channels -> Requests \cup {NoRequest}]
        /\ backlog' \in [Channels -> Seq(Requests)]
        /\ fifo' \in [Channels -> Seq(Elements)]
        /\ logged' \in [Requests -> Nat]
    BY <2>1, CloseType, TypeInvIs
  <2> QED BY <1>7, <2>2 DEF SendClose, TypeFacts, pool, pipe
<1>8. ASSUME SendEmpty(c) PROVE TypeFacts'
  <2>1. <<>> \in Seq(Elements)
    OBVIOUS
  <2>2. fifo' \in [Channels -> Seq(Elements)] /\ sending' = NoChannel /\ thenClose' = FALSE
    BY <1>2, <1>8, <2>1 DEF SendEmpty
  <2> QED BY <1>8, <2>2 DEF SendEmpty, TypeFacts, input, pool, pipe
<1> QED BY <1>1, <1>3, <1>4, <1>5, <1>6, <1>7, <1>8 DEF Sending

LEMMA WorkerType ==
    ASSUME TypeFacts, NEW w \in Workers, Working(w)
    PROVE  TypeFacts'
<1>1. ASSUME TakeRequest(w) PROVE TypeFacts'
  <2>1. /\ queue # <<>> /\ Head(queue) \in Requests
        /\ serving' = [serving EXCEPT ![w] = Head(queue)]
        /\ queue' = Tail(queue) /\ accepted' = accepted
    BY <1>1, Heads DEF TakeRequest, Pool!Take
  <2>2. PICK n \in 1 .. MaxWrites :
           script' = [script EXCEPT ![w] =
                          Writes(n) \o ClosingCalls(Kind[Head(queue)] = "last")]
    BY <1>1 DEF TakeRequest
  <2>3. Writes(n) \o ClosingCalls(Kind[Head(queue)] = "last") \in Seq(Ops)
    <3>1. n \in Nat \ {0} /\ (Kind[Head(queue)] = "last") \in BOOLEAN
      BY MaxWritesAssumption
    <3> QED BY <3>1, ScriptStart
  <2>4. script' \in [Workers -> Seq(Ops)]
    BY <2>2, <2>3 DEF TypeFacts
  <2>5. checked' = checked /\ script[w] = <<>> /\ ~checked[w]
    BY <1>1 DEF TakeRequest, Pool!Take, TypeFacts
  <2>6. /\ queue' \in Seq(Requests) /\ accepted' \subseteq Requests
        /\ serving' \in [Workers -> Requests \cup {NoRequest}]
    BY <2>1, Heads DEF TypeFacts
  <2>7. \A v \in Workers : script'[v] # <<>> => serving'[v] # NoRequest
    BY <2>1, <2>2, NamesAssumption DEF TypeFacts
  <2>8. \A v \in Workers : checked'[v] =>
           script'[v] # <<>> /\ Head(script'[v]) \in {"write", "log", "done", "close"}
    BY <2>2, <2>5 DEF TypeFacts
  <2> QED BY <1>1, <2>4, <2>5, <2>6, <2>7, <2>8 DEF TakeRequest, TypeFacts, loop, input
<1>2. ASSUME Advance(w), script[w] # <<>>, serving' = serving,
             (checked' = checked /\ ~checked[w]) \/ checked' = [checked EXCEPT ![w] = FALSE]
      PROVE  /\ script' \in [Workers -> Seq(Ops)] /\ checked' \in [Workers -> BOOLEAN]
             /\ \A v \in Workers : script'[v] # <<>> => serving'[v] # NoRequest
             /\ \A v \in Workers : checked'[v] =>
                  script'[v] # <<>> /\ Head(script'[v]) \in {"write", "log", "done", "close"}
  BY <1>2, Heads DEF Advance, TypeFacts
<1>3. ASSUME LookAtClosed(w) PROVE TypeFacts'
  <2>1. CASE closed[ServedOn(w)]
    BY <1>2, <1>3, <2>1 DEF LookAtClosed, Next1, TypeFacts, loop, input, pool
  <2>2. CASE ~closed[ServedOn(w)]
    BY <1>3, <2>2 DEF LookAtClosed, Next1, TypeFacts, loop, input, pool
  <2> QED BY <2>1, <2>2
<1>4. ASSUME Push(w) PROVE TypeFacts'
  <2>1. /\ script[w] # <<>> /\ Head(script[w]) \in {"write", "log", "done", "close"}
        /\ serving[w] \in Requests
    BY <1>4 DEF Push, TypeFacts
  <2> DEFINE e == IF Head(script[w]) = "close" THEN CloseMark
                  ELSE <<Head(script[w]), serving[w]>>
  <2>2. e \in Elements /\ ServedOn(w) \in Channels
    BY <2>1, ElementsAre, PlaceOf DEF ServedOn
  <2>3. fifo' \in [Channels -> Seq(Elements)]
    BY <1>4, <2>2, Heads DEF Push, TypeFacts
  <2> QED BY <1>2, <1>4, <2>1, <2>3 DEF Push, TypeFacts, loop, input, pool
<1>5. ASSUME ClosePipe(w) PROVE TypeFacts'
  <2>1. serving[w] \in Requests /\ ~checked[w] /\ script[w] # <<>>
    BY <1>5 DEF ClosePipe, Next1, TypeFacts
  <2>2. CASE closed[ServedOn(w)]
    <3>1. <<"wake">> \in Seq(Ops)
      BY DEF Ops
    <3>2. /\ logged' \in [Requests -> Nat] /\ script' \in [Workers -> Seq(Ops)]
          /\ \A v \in Workers : v # w => script'[v] = script[v]
      <4>1. /\ logged' = [logged EXCEPT ![serving[w]] = logged[serving[w]] + 1]
            /\ script' = [script EXCEPT ![w] = <<"wake">>]
        BY <1>5, <2>2 DEF ClosePipe
      <4> QED BY <2>1, <3>1, <4>1, Counted DEF TypeFacts
    <3> QED BY <1>5, <2>1, <3>2 DEF ClosePipe, TypeFacts, loop, input, pool
  <2>3. CASE ~closed[ServedOn(w)]
    BY <1>2, <1>5, <2>1, <2>3 DEF ClosePipe, TypeFacts, loop, input, pool
  <2> QED BY <2>2, <2>3
<1>6. ASSUME Wakeup(w) PROVE TypeFacts'
  <2>1. ~checked[w] /\ script[w] # <<>>
    BY <1>6 DEF Wakeup, Next1, TypeFacts
  <2> QED BY <1>2, <1>6, <2>1 DEF Wakeup, PullTrigger, TypeFacts, input, pool
<1>7. ASSUME Finished(w) PROVE TypeFacts'
  BY <1>7 DEF Finished, Pool!Finish, TypeFacts, loop, input, pipe
<1> QED BY <1>1, <1>3, <1>4, <1>5, <1>6, <1>7 DEF Working

LEMMA NextType == TypeInv /\ [Next]_vars => TypeInv'
<1> SUFFICES ASSUME TypeFacts, [Next]_vars PROVE TypeFacts'
  <2>1. TypeInv' <=> TypeFacts'
    BY TypeInvIs, PTL
  <2> QED BY <2>1, TypeInvIs
<1>1. CASE UNCHANGED vars
  BY <1>1 DEF TypeFacts, vars, loop, input, pool, pipe
<1>2. CASE Next
  BY <1>2, MainType, AcceptType, ReadType, SendType, WorkerType
     DEF Next, Accepting, Events
<1> QED BY <1>1, <1>2

\* Every variable keeps its type, and the elements of an output queue and the calls
\* of a worker always belong to a request.
THEOREM TypeCorrect == Spec => []TypeOK
<1>1. Init => TypeInv
  BY InitType, TypeInvIs
<1>2. TypeInv => TypeOK
  BY DEF TypeInv
<1> QED BY <1>1, <1>2, NextType, PTL DEF Spec

-----------------------------------------------------------------------------
(* Scripts *)

LEMMA ShapeTail ==
    ASSUME NEW s \in Seq(Ops), s # <<>>, Shape(s)
    PROVE  Shape(Tail(s))
<1> DEFINE t == Tail(s)
           n == Len(s)
<1>1. /\ n \in Nat \ {0} /\ Len(t) = n - 1 /\ t \in Seq(Ops)
      /\ \A i \in 1 .. n - 1 : t[i] = s[i + 1]
      /\ DOMAIN s = 1 .. n /\ DOMAIN t = 1 .. n - 1
  BY TailRange
<1>2. OnceIn(t, {"log", "done"})
  BY OnceTail DEF Shape
<1>3. t # <<>> => t[Len(t)] = "wake"
  <2>1. t # <<>> => Len(t) # 0
    BY <1>1, EmptySeq
  <2> QED BY <1>1, <2>1 DEF Shape
<1>4. \A i \in DOMAIN t : t[i] = "write" => t[i + 1] = "wake"
  <2>1. ASSUME NEW i \in 1 .. n - 1, t[i] = "write" PROVE t[i + 1] = "wake"
    <3>1. PICK k \in 1 .. n : k = i + 1 /\ s[k] = "write"
      BY <1>1, <2>1
    <3>2. s[k + 1] = "wake" /\ s[n] = "wake"
      BY <1>1, <3>1 DEF Shape
    <3>3. k \in 1 .. n - 1
      BY <1>1, <3>1, <3>2
    <3>4. t[k] = s[k + 1]
      BY <1>1, <3>3
    <3> QED BY <3>1, <3>2, <3>4
  <2> QED BY <1>1, <2>1
<1>5. \A i, j \in DOMAIN t :
          /\ i < j /\ j < Len(t) /\ t[i] \in {"pipe", "log", "done", "close"}
          => t[j] \in {"log", "done", "close"}
  <2>1. ASSUME NEW i \in 1 .. n - 1, NEW j \in 1 .. n - 1, i < j, j < n - 1,
               t[i] \in {"pipe", "log", "done", "close"}
        PROVE  t[j] \in {"log", "done", "close"}
    <3>1. /\ i + 1 \in 1 .. n /\ j + 1 \in 1 .. n /\ i + 1 < j + 1 /\ j + 1 < n
          /\ t[i] = s[i + 1] /\ t[j] = s[j + 1]
      BY <1>1, <2>1
    <3> QED BY <1>1, <2>1, <3>1 DEF Shape
  <2> QED BY <1>1, <2>1
<1>6. \A i \in DOMAIN t : t[i] \in {"write", "pipe", "log"} =>
          \E j \in DOMAIN t : i < j /\ t[j] = "done"
  <2>1. ASSUME NEW i \in 1 .. n - 1, t[i] \in {"write", "pipe", "log"}
        PROVE  \E j \in 1 .. n - 1 : i < j /\ t[j] = "done"
    <3>1. i + 1 \in 1 .. n /\ t[i] = s[i + 1]
      BY <1>1, <2>1
    <3>2. PICK j \in 1 .. n : i + 1 < j /\ s[j] = "done"
      BY <1>1, <2>1, <3>1 DEF Shape
    <3>3. j - 1 \in 1 .. n - 1 /\ i < j - 1 /\ t[j - 1] = "done"
      BY <1>1, <3>2
    <3> QED BY <3>3
  <2> QED BY <1>1, <2>1
<1> HIDE DEF t
<1>7. Shape(t)
  BY <1>2, <1>3, <1>4, <1>5, <1>6 DEF Shape
<1> QED BY <1>7 DEF t

LEMMA ShapeWake == Shape(<<"wake">>) /\ Shape(<<>>) /\ Range(<<"wake">>) = {"wake"}
<1>1. /\ DOMAIN <<"wake">> = {1} /\ Len(<<"wake">>) = 1 /\ <<"wake">>[1] = "wake"
      /\ Len(<<>>) = 0
  OBVIOUS
<1>2. DOMAIN <<>> = {}
  OBVIOUS
<1> QED BY <1>1, <1>2 DEF Shape, OnceIn, Range

LEMMA ShapeStart ==
    ASSUME NEW n \in Nat \ {0}, NEW last \in BOOLEAN
    PROVE  /\ Shape(Writes(n) \o ClosingCalls(last))
           /\ {"write", "done"} \subseteq Range(Writes(n) \o ClosingCalls(last))
<1> DEFINE a == Writes(n)
           b == ClosingCalls(last)
           k == Len(b)
           s == a \o b
<1>1. a \in Seq(Ops) /\ b \in Seq(Ops) /\ Len(a) = 2 * n /\ 2 * n \in Nat
  BY ScriptStart
<1>2. \A i \in 1 .. 2 * n : a[i] = IF i % 2 = 1 THEN "write" ELSE "wake"
  BY DEF Writes
<1>3. /\ k \in {4, 5}
      /\ b[1] = "pipe" /\ b[2] = "log" /\ b[3] = "done" /\ b[k] = "wake"
      /\ k = 5 => b[4] = "close"
  BY DEF ClosingCalls
<1> HIDE DEF a, b, k
<1>4. /\ s \in Seq(Ops) /\ Len(s) = 2 * n + k
      /\ \A i \in 1 .. 2 * n : s[i] = a[i]
      /\ \A i \in 1 .. k : s[2 * n + i] = b[i]
  <2>1. /\ s \in Seq(Ops) /\ Len(s) = Len(a) + Len(b)
        /\ \A i \in 1 .. Len(a) + Len(b) :
              s[i] = IF i <= Len(a) THEN a[i] ELSE b[i - Len(a)]
    BY <1>1, ConcatProperties
  <2>2. \A i \in 1 .. k : 2 * n + i \in 1 .. 2 * n + k /\ ~(2 * n + i <= 2 * n)
                        /\ 2 * n + i - 2 * n = i
    BY <1>1, <1>3
  <2> QED BY <1>1, <1>3, <2>1, <2>2 DEF k
<1>5. DOMAIN s = 1 .. 2 * n + k
  BY <1>4
<1> HIDE DEF s
<1> DEFINE m == 2 * n
<1>6. m \in Nat /\ m % 2 = 0
  <2>1. \A q \in Nat : (2 * q) % 2 = 0
    OBVIOUS
  <2> QED BY <1>1, <2>1
<1>7. /\ \A i \in 1 .. m : s[i] = IF i % 2 = 1 THEN "write" ELSE "wake"
      /\ s[m + 1] = "pipe" /\ s[m + 2] = "log" /\ s[m + 3] = "done" /\ s[m + k] = "wake"
      /\ k = 5 => s[m + 4] = "close"
      /\ Len(s) = m + k /\ DOMAIN s = 1 .. m + k /\ s \in Seq(Ops)
  BY <1>2, <1>3, <1>4, <1>5
<1> HIDE DEF m
<1>8. \A i \in 1 .. m + k : i \in 1 .. m \/ i = m + 1 \/ i = m + 2 \/ i = m + 3
                          \/ i = m + k \/ (k = 5 /\ i = m + 4)
  <2>1. k = 4 \/ k = 5
    BY <1>3
  <2>2. m \in Nat
    BY <1>6
  <2>3. CASE k = 4
    BY <2>2, <2>3
  <2>4. CASE k = 5
    BY <2>2, <2>4
  <2> QED BY <2>1, <2>3, <2>4
<1>9. s # <<>> => s[Len(s)] = "wake"
  BY <1>7
<1>10. ASSUME NEW i \in 1 .. m + k, s[i] = "write" PROVE s[i + 1] = "wake"
  <2>1. i \in 1 .. m /\ i % 2 = 1
    BY <1>3, <1>7, <1>8, <1>10
  <2>2. i # m /\ (i + 1) % 2 = 0
    BY <2>1, <1>6
  <2> QED BY <2>1, <2>2, <1>6, <1>7
<1>11. ASSUME NEW i \in 1 .. m + k, NEW j \in 1 .. m + k, i < j, j < m + k,
              s[i] \in {"pipe", "log", "done", "close"}
       PROVE  s[j] \in {"log", "done", "close"}
  <2>1. i \notin 1 .. m
    BY <1>7, <1>11
  <2>2. j = m + 2 \/ j = m + 3 \/ (k = 5 /\ j = m + 4)
    BY <2>1, <1>3, <1>6, <1>8, <1>11
  <2> QED BY <2>2, <1>7
<1>12. OnceIn(s, {"log", "done"})
  <2>1. ASSUME NEW i \in 1 .. m + k, s[i] \in {"log", "done"}
        PROVE  (i = m + 2 /\ s[i] = "log") \/ (i = m + 3 /\ s[i] = "done")
    BY <2>1, <1>3, <1>7, <1>8
  <2> QED BY <2>1, <1>7 DEF OnceIn
<1>13. ASSUME NEW i \in 1 .. m + k, s[i] \in {"write", "pipe", "log"}
       PROVE  \E j \in 1 .. m + k : i < j /\ s[j] = "done"
  <2>1. i < m + 3 /\ m + 3 \in 1 .. m + k
    BY <1>3, <1>6, <1>7, <1>8, <1>13
  <2> QED BY <2>1, <1>7
<1>14. Shape(s)
  BY <1>7, <1>9, <1>10, <1>11, <1>12, <1>13 DEF Shape
<1>15. m + 3 \in DOMAIN s
  BY <1>3, <1>6, <1>7
<1>16. 1 \in 1 .. m /\ 1 \in DOMAIN s
  <2>1. m >= 1
    BY DEF m
  <2> QED BY <2>1, <1>3, <1>6, <1>7
<1>17. {"write", "done"} \subseteq Range(s)
  BY <1>7, <1>15, <1>16 DEF Range
<1> QED BY <1>14, <1>17 DEF s, a, b

\* What a step does to the scripts: a worker that takes a request starts one, every
\* other step of a worker drops its head or leaves it, except that the test of a
\* closed pipe leaves only the wake.
LEMMA ScriptSteps ==
    ASSUME TypeFacts, NEW w \in Workers, Working(w)
    PROVE  /\ \A v \in Workers : v # w => script'[v] = script[v] /\ serving'[v] = serving[v]
           /\ \/ \E n \in Nat \ {0} : \E last \in BOOLEAN :
                    script'[w] = Writes(n) \o ClosingCalls(last)
              \/ script'[w] = script[w]
              \/ script[w] # <<>> /\ script'[w] = Tail(script[w])
              \/ script'[w] = <<"wake">>
<1>1. ASSUME TakeRequest(w) PROVE \E n \in Nat \ {0} : \E last \in BOOLEAN :
           script'[w] = Writes(n) \o ClosingCalls(last)
  <2>1. PICK n \in 1 .. MaxWrites :
           script' = [script EXCEPT ![w] =
                          Writes(n) \o ClosingCalls(Kind[Head(queue)] = "last")]
    BY <1>1 DEF TakeRequest
  <2>2. n \in Nat \ {0} /\ (Kind[Head(queue)] = "last") \in BOOLEAN
    BY MaxWritesAssumption
  <2>3. script'[w] = Writes(n) \o ClosingCalls(Kind[Head(queue)] = "last")
    BY <2>1 DEF TypeFacts
  <2> QED BY <2>2, <2>3
<1>2. \A v \in Workers : v # w => script'[v] = script[v] /\ serving'[v] = serving[v]
  BY DEF Working, TakeRequest, LookAtClosed, Push, ClosePipe, Wakeup, Finished, Advance,
         Pool!Take, Pool!Finish, pool, pipe, TypeFacts
<1>3. ASSUME Advance(w) PROVE script'[w] = Tail(script[w])
  BY <1>3 DEF Advance, TypeFacts
<1>4. ASSUME LookAtClosed(w) \/ Push(w) \/ Wakeup(w)
      PROVE  script'[w] = script[w] \/ (script[w] # <<>> /\ Advance(w))
  <2>1. CASE LookAtClosed(w)
    BY <2>1 DEF LookAtClosed, Next1
  <2>2. CASE Push(w)
    BY <2>2 DEF Push, TypeFacts
  <2>3. CASE Wakeup(w)
    BY <2>3 DEF Wakeup, Next1
  <2> QED BY <1>4, <2>1, <2>2, <2>3
<1>5. ASSUME ClosePipe(w)
      PROVE  script'[w] = <<"wake">> \/ (script[w] # <<>> /\ Advance(w))
  <2>1. CASE closed[ServedOn(w)]
    <3>1. script' = [script EXCEPT ![w] = <<"wake">>]
      BY <1>5, <2>1 DEF ClosePipe
    <3> QED BY <3>1 DEF TypeFacts
  <2>2. CASE ~closed[ServedOn(w)]
    BY <1>5, <2>2 DEF ClosePipe, Next1
  <2> QED BY <2>1, <2>2
<1>6. ASSUME Finished(w) PROVE script'[w] = script[w]
  BY <1>6 DEF Finished, pipe
<1> QED BY <1>1, <1>2, <1>3, <1>4, <1>5, <1>6 DEF Working

LEMMA MainKeeps ==
    Poll \/ Accepting \/ Events => UNCHANGED <<pipe, serving>>
BY DEF Poll, Accepting, AcceptConnection, Events, HandleTrigger, EndRead, Reading,
       HandleWrite, Sending, ReceiveGet, ReceivePost, ReceiveBody, ReceiveError,
       ReceiveBlank, ReadFails, SendPiece, SendBlocks, SendLog, SendDone, SendClose,
       SendEmpty, Work, Done, Pool!Submit, pool

LEMMA NextShape == TypeInv /\ ShapeInv /\ [Next]_vars => ShapeInv'
<1> SUFFICES ASSUME TypeFacts, ShapeInv, [Next]_vars PROVE ShapeInv'
  BY TypeInvIs
<1>1. ASSUME UNCHANGED script PROVE ShapeInv'
  BY <1>1 DEF ShapeInv
<1>2. ASSUME NEW w \in Workers, Working(w) PROVE ShapeInv'
  <2>1. \A v \in Workers : script[v] \in Seq(Ops)
    BY DEF TypeFacts
  <2> QED BY <1>2, <2>1, ScriptSteps, ShapeStart, ShapeTail, ShapeWake DEF ShapeInv
<1> QED BY <1>1, <1>2, MainKeeps DEF Next, vars, pipe

-----------------------------------------------------------------------------
(* Wakeups *)

\* AboutToWake of a worker with script s.
Waking(s) ==
    \E i \in DOMAIN s : /\ s[i] = "wake"
                        /\ \A j \in 1 .. i - 1 : s[j] \in {"log", "done", "close"}

LEMMA WakingTail ==
    ASSUME NEW s \in Seq(Ops), s # <<>>, Shape(s)
    PROVE  /\ Head(s) \in {"write", "log", "done", "close"} => Waking(Tail(s))
           /\ Waking(s) => Head(s) \in {"wake", "log", "done", "close"}
<1> DEFINE t == Tail(s)
           n == Len(s)
<1>1. /\ n \in Nat \ {0} /\ Len(t) = n - 1 /\ t \in Seq(Ops) /\ Head(s) = s[1]
      /\ \A i \in 1 .. n - 1 : t[i] = s[i + 1]
      /\ DOMAIN s = 1 .. n /\ DOMAIN t = 1 .. n - 1
  BY TailRange
<1>2. s[n] = "wake"
  BY DEF Shape
<1> HIDE DEF t, n
<1>3. ASSUME Head(s) = "write" PROVE Waking(t)
  <2>1. 1 \in DOMAIN t /\ t[1] = s[2] /\ 1 \in DOMAIN s
    BY <1>1, <1>2, <1>3
  <2>2. s[1 + 1] = "wake"
    BY <1>1, <1>3, <2>1 DEF Shape
  <2> QED BY <2>1, <2>2 DEF Waking
<1>4. ASSUME Head(s) \in {"log", "done", "close"} PROVE Waking(t)
  <2>1. n - 1 \in DOMAIN t /\ t[n - 1] = "wake"
    BY <1>1, <1>2, <1>4
  <2>2. ASSUME NEW j \in 1 .. (n - 1) - 1 PROVE t[j] \in {"log", "done", "close"}
    <3>1. /\ 1 \in DOMAIN s /\ j + 1 \in DOMAIN s /\ 1 < j + 1 /\ j + 1 < n
          /\ t[j] = s[j + 1]
      BY <1>1
    <3> QED BY <1>1, <1>4, <3>1 DEF Shape, n
  <2> QED BY <2>1, <2>2 DEF Waking
<1>5. ASSUME Waking(s) PROVE Head(s) \in {"wake", "log", "done", "close"}
  <2>1. PICK i \in 1 .. n : /\ s[i] = "wake"
                           /\ \A j \in 1 .. i - 1 : s[j] \in {"log", "done", "close"}
    BY <1>1, <1>5 DEF Waking
  <2>2. CASE i = 1
    BY <1>1, <2>1, <2>2
  <2>3. CASE i # 1
    BY <1>1, <2>1, <2>3
  <2> QED BY <2>2, <2>3
<1> QED BY <1>3, <1>4, <1>5 DEF t

LEMMA NextWake == TypeInv /\ ShapeInv /\ WakeInv /\ [Next]_vars => WakeInv'
<1> SUFFICES ASSUME TypeFacts, ShapeInv, WakeInv, [Next]_vars PROVE WakeInv'
  BY TypeInvIs
<1>1. ASSUME UNCHANGED vars PROVE WakeInv'
  <2>1. UNCHANGED <<main, reading, sending, watched, triggered, open, fifo, serving, script>>
    BY <1>1 DEF vars, loop, pool, pipe
  <2> QED BY <2>1 DEF WakeInv, NoLostWakeup, AboutToWake, ServedOn
<1>2. ASSUME Poll PROVE WakeInv'
  BY <1>2 DEF Poll, WakeInv, NoLostWakeup
<1>3. ASSUME Accepting \/ Events PROVE WakeInv'
  <2>1. main' # "select"
    <3>1. ASSUME EndRead PROVE main' # "select"
      BY <3>1 DEF EndRead, WakeInv
    <3>2. ASSUME NEW c \in Channels, Sending(c) PROVE main' # "select"
      <4>1. sending = c /\ main' = main
        BY <3>2 DEF Sending, SendPiece, SendBlocks, SendLog, SendDone, SendClose, SendEmpty, loop
      <4> QED BY <4>1, NamesAssumption DEF WakeInv
    <3>3. ASSUME NEW c \in Channels, Reading(c) \/ HandleWrite(c) PROVE main' = "events"
      BY <3>3 DEF Reading, ReceiveGet, ReceivePost, ReceiveBody, ReceiveError,
                  ReceiveBlank, ReadFails, HeaderOf, HandleWrite
    <3> QED BY <1>3, <3>1, <3>2, <3>3
            DEF Accepting, AcceptConnection, Events, HandleTrigger
  <2> QED BY <2>1 DEF WakeInv, NoLostWakeup
<1>4. ASSUME NEW w \in Workers, Working(w) PROVE WakeInv'
  <2>1. UNCHANGED <<main, reading, sending, watched, open>>
    BY <1>4 DEF Working, TakeRequest, LookAtClosed, Push, ClosePipe, Wakeup, Finished, loop
  <2>2. \A v \in Workers : v # w => script'[v] = script[v] /\ serving'[v] = serving[v]
    BY <1>4, ScriptSteps
  <2>3. ASSUME main = "select", NEW c \in open \ watched, fifo'[c] # <<>>
        PROVE  \/ triggered'
               \/ \E v \in Workers : /\ serving'[v] # NoRequest /\ ChannelOf(serving'[v]) = c
                                     /\ Waking(script'[v])
    <3>1. ASSUME fifo[c] # <<>>
          PROVE  \/ triggered
                 \/ \E v \in Workers : /\ serving[v] # NoRequest /\ ChannelOf(serving[v]) = c
                                       /\ Waking(script[v])
      BY <2>3, <3>1 DEF WakeInv, NoLostWakeup, AboutToWake, Waking, ServedOn
    <3>2. script[w] \in Seq(Ops) /\ Shape(script[w])
      BY DEF TypeFacts, ShapeInv
    <3>3. ~Waking(<<>>)
      BY DEF Waking
    <3>4. ASSUME TakeRequest(w) \/ Finished(w)
          PROVE  script[w] = <<>> /\ triggered' = triggered /\ fifo' = fifo
      BY <3>4 DEF TakeRequest, Finished, Pool!Take, TypeFacts, loop
    <3>5. CASE TakeRequest(w) \/ Finished(w)
      BY <2>2, <2>3, <3>1, <3>3, <3>4, <3>5
    <3>6. ASSUME Advance(w), serving' = serving, triggered' = triggered, fifo' = fifo,
                 script[w] # <<>>, Head(script[w]) # "wake"
          PROVE  \/ triggered'
                 \/ \E v \in Workers : /\ serving'[v] # NoRequest
                                       /\ ChannelOf(serving'[v]) = c /\ Waking(script'[v])
      <4>1. script'[w] = Tail(script[w])
        BY <3>6 DEF Advance, TypeFacts
      <4>2. Waking(script[w]) => Waking(script'[w])
        BY <3>2, <3>6, <4>1, WakingTail
      <4> QED BY <2>2, <2>3, <3>1, <3>6, <4>2
    <3>7. CASE LookAtClosed(w)
      <4>1. /\ serving' = serving /\ triggered' = triggered /\ fifo' = fifo
            /\ script[w] # <<>> /\ Head(script[w]) # "wake"
            /\ Advance(w) \/ script' = script
        BY <3>7 DEF LookAtClosed, Next1, pool, loop
      <4>2. CASE Advance(w)
        BY <3>6, <4>1, <4>2
      <4>3. CASE script' = script
        BY <2>3, <3>1, <4>1, <4>3
      <4> QED BY <4>1, <4>2, <4>3
    <3>8. CASE ClosePipe(w)
      <4>1. /\ serving' = serving /\ triggered' = triggered /\ fifo' = fifo
            /\ script[w] # <<>> /\ Head(script[w]) = "pipe"
        BY <3>8 DEF ClosePipe, Next1, pool, loop
      <4>2. ~Waking(script[w])
        BY <3>2, <4>1, WakingTail
      <4> QED BY <2>2, <2>3, <3>1, <4>1, <4>2
    <3>9. CASE Push(w)
      <4>1. /\ script[w] # <<>> /\ Head(script[w]) \in {"write", "log", "done", "close"}
            /\ serving[w] # NoRequest /\ serving' = serving /\ triggered' = triggered
            /\ Advance(w)
        BY <3>9 DEF Push, TypeFacts, pool, loop
      <4>2. script'[w] = Tail(script[w])
        BY <4>1 DEF Advance, TypeFacts
      <4>3. Waking(script'[w])
        BY <3>2, <4>1, <4>2, WakingTail
      <4>4. CASE c = ServedOn(w)
        BY <4>1, <4>3, <4>4 DEF ServedOn
      <4>5. CASE c # ServedOn(w)
        <5>1. fifo'[c] = fifo[c]
          BY <3>9, <4>5 DEF Push, TypeFacts
        <5> QED BY <2>2, <2>3, <3>1, <4>1, <4>5, <5>1 DEF ServedOn
      <4> QED BY <4>4, <4>5
    <3>10. CASE Wakeup(w)
      BY <3>10 DEF Wakeup, PullTrigger
    <3> QED BY <1>4, <3>5, <3>7, <3>8, <3>9, <3>10 DEF Working
  <2> QED BY <2>1, <2>3 DEF WakeInv, NoLostWakeup, AboutToWake, Waking, ServedOn
<1> QED BY <1>1, <1>2, <1>3, <1>4 DEF Next

LEMMA InitWake == Init => WakeInv
BY DEF Init, WakeInv, NoLostWakeup

-----------------------------------------------------------------------------
(* Where the requests are.  First what the steps have in common. *)

\* Nothing that only looks at the output queues and the scripts is disturbed.
LEMMA MarksKept ==
    ASSUME TypeFacts, TypeFacts', MarkInv, LogInv, UNCHANGED <<fifo, script, serving, logged>>,
           \A r \in Requests : Read(r) => Read(r)', Handed \subseteq Handed'
    PROVE  MarkInv' /\ LogInv'
<1>1. \A c \in Channels : \A e \in Range(fifo[c]) : e # CloseMark => e[2] \in Requests
  BY ListRange, ElementsAre DEF TypeFacts
<1>2. MarkInv'
  BY <1>1 DEF MarkInv, ServedOn
<1>3. \A r \in Requests : Marked(r)' = Marked(r)
  BY DEF Marked
<1>4. \A w \in Workers : {"pipe", "log"} \cap Range(script[w]) # {} => serving[w] \in Requests
  BY EmptyList DEF TypeFacts
<1>5. LogInv'
  BY <1>3, <1>4 DEF LogInv
<1> QED BY <1>2, <1>5

LEMMA ReadGrows ==
    ASSUME TypeFacts, NEW c \in Channels,
           arrived' = arrived \/ arrived' = [arrived EXCEPT ![c] = @ + 1]
    PROVE  \A r \in Requests : Read(r) => Read(r)'
<1>1. \A d \in Channels : arrived[d] \in Nat /\ arrived'[d] \in Nat /\ arrived[d] <= arrived'[d]
  <2>1. arrived \in [Channels -> Nat]
    BY DEF TypeFacts
  <2>2. CASE arrived' = arrived
    BY <2>1, <2>2
  <2>3. CASE arrived' = [arrived EXCEPT ![c] = @ + 1]
    BY <2>1, <2>3
  <2> QED BY <2>2, <2>3
<1> QED BY <1>1, PlaceOf DEF Read

\* A request that has not been read is nowhere yet.
LEMMA Unread ==
    ASSUME TypeFacts, PoolInv, NEW r \in Requests, ~Read(r)
    PROVE  /\ r \notin accepted /\ logged[r] = 0
           /\ \A c \in Channels : r \notin Range(backlog[c]) /\ r # current[c]
           /\ \A c \in Channels : \A e \in Range(fifo[c]) : e[2] # r
           /\ \A w \in Workers : serving[w] # r
<1>1. \A c \in Channels : \A e \in Range(fifo[c]) : e[2] # r
  <2>1. \A c \in Channels : \A e \in Range(fifo[c]) : e = CloseMark \/ Read(e[2])
    BY DEF PoolInv, MarkInv
  <2> QED BY <2>1, ElementsAre, NamesAssumption
<1>2. logged[r] \in {0, 1} /\ (logged[r] = 1 => Read(r))
  BY DEF PoolInv, LogInv
<1>3. r \notin accepted
  BY DEF PoolInv, PlaceInv
<1>4. \A w \in Workers : serving[w] # r
  BY <1>3, NamesAssumption DEF PoolInv, PlaceInv, Handed
<1>5. \A c \in Channels : r \notin Range(backlog[c]) /\ r # current[c]
  BY NamesAssumption DEF PoolInv, PlaceInv
<1> QED BY <1>1, <1>2, <1>3, <1>4, <1>5

\* The header of the next request has been read.
LEMMA HeaderRead ==
    ASSUME TypeFacts, PoolInv, NEW c \in Channels, NEW kinds, HeaderOf(c, kinds)
    PROVE  /\ \E r \in Requests :
                 /\ r = NextRequest(c) /\ Kind[r] \in kinds
                 /\ ChannelOf(r) = c /\ ~Read(r) /\ Read(r)'
           /\ \A q \in Requests : Read(q) => Read(q)'
<1>1. /\ arrived[c] \in Nat /\ arrived[c] < Len(Pipeline[c])
      /\ Kind[NextRequest(c)] \in kinds
      /\ arrived' = [arrived EXCEPT ![c] = @ + 1]
  BY DEF HeaderOf, TypeFacts
<1>2. PICK r \in Requests :
         r = NextRequest(c) /\ ChannelOf(r) = c /\ Place(r) = arrived[c] + 1
  BY <1>1, NextIsNew
<1>3. arrived'[c] = arrived[c] + 1
  BY <1>1 DEF TypeFacts
<1>4. ~Read(r) /\ Read(r)'
  BY <1>1, <1>2, <1>3 DEF Read
<1>5. \A q \in Requests : Read(q) => Read(q)'
  BY <1>1, ReadGrows
<1> QED BY <1>1, <1>2, <1>4, <1>5

\* work(): the channel's list is b, and its head may go to the pool.
LEMMA WorkPlaces ==
    ASSUME TypeFacts, PlaceInv, NEW c \in Channels, NEW busy \in BOOLEAN,
           NEW b \in Seq(Requests), Work(c, busy, b), OnceIn(b, Requests),
           \A r \in Range(b) :
              /\ ChannelOf(r) = c /\ Read(r)' /\ Kind[r] \in Good
              /\ r \notin accepted /\ r # current'[c],
           current' \in [Channels -> Requests \cup {NoRequest}],
           \A d \in Channels : current'[d] = NoRequest \/ current'[d] = current[d],
           \A r \in Requests : Read(r) => Read(r)'
    PROVE  /\ PlaceInv' /\ Handed' = Handed
           /\ \/ UNCHANGED pool /\ working' = [working EXCEPT ![c] = busy]
              \/ /\ ~busy /\ working' = [working EXCEPT ![c] = TRUE] /\ serving' = serving
                 /\ b # <<>> /\ Range(queue') = Range(queue) \cup {Head(b)}
                 /\ ChannelOf(Head(b)) = c
<1>0. /\ \A d \in Channels : backlog[d] \in Seq(Requests) /\ Range(backlog[d]) \subseteq Requests
      /\ queue \in Seq(Requests) /\ Range(queue) \subseteq Requests
      /\ accepted \subseteq Requests /\ working \in [Channels -> BOOLEAN]
      /\ Range(b) \subseteq Requests
  BY ListRange DEF TypeFacts
<1> DEFINE go == ~busy /\ b # <<>> /\ ~noMore[c]
<1>1. /\ working' = [working EXCEPT ![c] = busy \/ go]
      /\ backlog' = [backlog EXCEPT ![c] = IF go THEN Tail(b) ELSE b]
      /\ IF go THEN Pool!Submit(Head(b)) ELSE UNCHANGED pool
  BY DEF Work
<1>2. serving' = serving
  BY <1>1 DEF Pool!Submit, pool
<1>3. \A d \in Channels : d # c => backlog'[d] = backlog[d]
  BY <1>1 DEF TypeFacts
<1>4. CASE ~go
  <2>1. UNCHANGED pool /\ backlog'[c] = b /\ working' = [working EXCEPT ![c] = busy]
    BY <1>1, <1>4 DEF TypeFacts
  <2>2. queue' = queue /\ accepted' = accepted /\ Handed' = Handed
    BY <2>1 DEF pool, Handed
  <2>3. \A d \in Channels : \A r \in Range(backlog'[d]) :
          /\ ChannelOf(r) = d /\ Read(r)' /\ Kind[r] \in Good
          /\ r \notin accepted' /\ r # current'[d]
    <3>1. ASSUME NEW d \in Channels, d # c, NEW r \in Range(backlog[d])
          PROVE  /\ ChannelOf(r) = d /\ Read(r)' /\ Kind[r] \in Good
                 /\ r \notin accepted' /\ r # current'[d]
      <4>1. /\ ChannelOf(r) = d /\ Read(r) /\ Kind[r] \in Good
            /\ r \notin accepted /\ r # current[d] /\ r \in Requests
        BY <1>0, <3>1 DEF PlaceInv
      <4> QED BY <2>2, <3>1, <4>1, NamesAssumption
    <3> QED BY <1>3, <2>1, <2>2, <3>1
  <2>4. \A d \in Channels : OnceIn(backlog'[d], Requests)
    BY <1>3, <2>1 DEF PlaceInv
  <2>5. \A d \in Channels : \A q \in Requests : q = current'[d] =>
          ChannelOf(q) = d /\ Read(q)' /\ Kind[q] \in Good /\ q \notin accepted'
    BY <2>2, NamesAssumption DEF PlaceInv
  <2>6. \A r \in accepted' : Read(r)' /\ Kind[r] \in Good
    BY <1>0, <2>2 DEF PlaceInv
  <2>7. PlaceInv'
    BY <1>2, <2>2, <2>3, <2>4, <2>5, <2>6 DEF PlaceInv
  <2> QED BY <2>1, <2>2, <2>7
<1>5. CASE go
  <2> DEFINE h == Head(b)
  <2>1. /\ h \in Requests /\ Tail(b) \in Seq(Requests)
        /\ Range(b) = Range(Tail(b)) \cup {h}
        /\ OnceIn(Tail(b), Requests) /\ h \notin Range(Tail(b))
    BY <1>5, TailRange, OnceTail
  <2>2. /\ accepted' = accepted \cup {h} /\ queue' = Append(queue, h)
        /\ backlog'[c] = Tail(b) /\ working' = [working EXCEPT ![c] = TRUE] /\ ~busy
    BY <1>1, <1>5 DEF Pool!Submit, TypeFacts
  <2>3. h \notin accepted /\ Kind[h] \in Good /\ Read(h)' /\ ChannelOf(h) = c /\ h # current'[c]
    BY <2>1
  <2> HIDE DEF h
  <2>4. Range(queue) \subseteq accepted /\ OnceIn(queue, Requests)
    BY DEF PlaceInv
  <2>5. Range(queue') = Range(queue) \cup {h} /\ OnceIn(queue', Requests)
    BY <1>0, <2>1, <2>2, <2>3, <2>4, AppendRange, OnceAppend
  <2>6. Handed' = Handed
    BY <2>2, <2>3, <2>5 DEF Handed
  <2>7. \A d \in Channels : \A r \in Range(backlog'[d]) :
          /\ ChannelOf(r) = d /\ Read(r)' /\ Kind[r] \in Good
          /\ r \notin accepted' /\ r # current'[d]
    <3>1. ASSUME NEW r \in Range(backlog'[c])
          PROVE  /\ ChannelOf(r) = c /\ Read(r)' /\ Kind[r] \in Good
                 /\ r \notin accepted' /\ r # current'[c]
      BY <2>1, <2>2, <3>1
    <3>2. ASSUME NEW d \in Channels, d # c, NEW r \in Range(backlog[d])
          PROVE  /\ ChannelOf(r) = d /\ Read(r)' /\ Kind[r] \in Good
                 /\ r \notin accepted' /\ r # current'[d]
      <4>1. /\ ChannelOf(r) = d /\ Read(r) /\ Kind[r] \in Good
            /\ r \notin accepted /\ r # current[d] /\ r \in Requests
        BY <1>0, <3>2 DEF PlaceInv
      <4> QED BY <2>2, <2>3, <3>2, <4>1, NamesAssumption
    <3> QED BY <1>3, <3>1, <3>2
  <2>8. \A d \in Channels : OnceIn(backlog'[d], Requests)
    BY <1>3, <2>1, <2>2 DEF PlaceInv
  <2>9. \A d \in Channels : \A q \in Requests : q = current'[d] =>
          ChannelOf(q) = d /\ Read(q)' /\ Kind[q] \in Good /\ q \notin accepted'
    <3>1. ASSUME NEW d \in Channels, NEW q \in Requests, q = current'[d]
          PROVE  ChannelOf(q) = d /\ Read(q)' /\ Kind[q] \in Good /\ q \notin accepted /\ q # h
      <4>1. q = current[d] /\ q # NoRequest
        BY <3>1, NamesAssumption
      <4>2. ChannelOf(q) = d /\ Read(q) /\ Kind[q] \in Good /\ q \notin accepted
        BY <4>1 DEF PlaceInv
      <4> QED BY <2>3, <3>1, <4>2
    <3> QED BY <2>2, <3>1
  <2>10. \A r \in accepted' : Read(r)' /\ Kind[r] \in Good
    BY <1>0, <2>2, <2>3 DEF PlaceInv
  <2>11. PlaceInv'
    BY <1>2, <2>2, <2>4, <2>5, <2>6, <2>7, <2>8, <2>9, <2>10 DEF PlaceInv
  <2> QED BY <1>5, <1>2, <2>2, <2>3, <2>5, <2>6, <2>11 DEF h
<1> QED BY <1>4, <1>5

\* channel.working after work(), when busy says whether one of the requests L, which
\* the pool has and whose done() has not run, is of the channel.
LEMMA WorkBusy ==
    ASSUME TypeFacts, PoolInv, NEW c \in Channels, NEW busy \in BOOLEAN, NEW b,
           NEW L \in SUBSET Requests,
           open' = open, closed' = closed, Range(queue) \subseteq L,
           \A r \in Requests : Undone(r)' <=> r \in L \/ r \in Range(queue'),
           \A r \in Requests : ChannelOf(r) # c => (r \in L <=> Undone(r)),
           ~closed[c] => /\ busy <=> \E r \in L : ChannelOf(r) = c
                         /\ \A r, q \in L : ChannelOf(r) = c /\ ChannelOf(q) = c => r = q,
           \/ UNCHANGED pool /\ working' = [working EXCEPT ![c] = busy]
           \/ /\ ~busy /\ working' = [working EXCEPT ![c] = TRUE]
              /\ Range(queue') = Range(queue) \cup {b} /\ ChannelOf(b) = c /\ b \in Requests
    PROVE  BusyInv'
<1>1. /\ \A d \in Channels : d # c => working'[d] = working[d]
      /\ working' = [working EXCEPT ![c] = busy] => working'[c] = busy
      /\ working' = [working EXCEPT ![c] = TRUE] => working'[c] = TRUE
  BY DEF TypeFacts
<1>2. CASE UNCHANGED pool /\ working' = [working EXCEPT ![c] = busy]
  <2>1. \A r \in Requests : Undone(r)' <=> r \in L
    BY <1>2 DEF pool
  <2>2. ASSUME NEW d \in Channels, ~closed[d]
        PROVE  /\ working'[d] <=> \E r \in Requests : ChannelOf(r) = d /\ Undone(r)'
               /\ \A r, q \in Requests :
                     ChannelOf(r) = d /\ ChannelOf(q) = d /\ Undone(r)' /\ Undone(q)' => r = q
    <3>1. CASE d = c
      BY <1>1, <1>2, <2>1, <2>2, <3>1
    <3>2. CASE d # c
      BY <1>1, <2>1, <2>2, <3>2 DEF PoolInv, BusyInv
    <3> QED BY <3>1, <3>2
  <2> QED BY <2>2 DEF PoolInv, BusyInv
<1>3. CASE /\ ~busy /\ working' = [working EXCEPT ![c] = TRUE]
           /\ Range(queue') = Range(queue) \cup {b} /\ ChannelOf(b) = c /\ b \in Requests
  <2>1. \A r \in Requests : Undone(r)' <=> r \in L \/ r = b
    BY <1>3
  <2>2. ASSUME NEW d \in Channels, ~closed[d]
        PROVE  /\ working'[d] <=> \E r \in Requests : ChannelOf(r) = d /\ Undone(r)'
               /\ \A r, q \in Requests :
                     ChannelOf(r) = d /\ ChannelOf(q) = d /\ Undone(r)' /\ Undone(q)' => r = q
    <3>1. CASE d = c
      BY <1>1, <1>3, <2>1, <2>2, <3>1
    <3>2. CASE d # c
      BY <1>1, <1>3, <2>1, <2>2, <3>2 DEF PoolInv, BusyInv
    <3> QED BY <3>1, <3>2
  <2> QED BY <2>2 DEF PoolInv, BusyInv
<1> QED BY <1>2, <1>3

\* A step that leaves channel.working, the pool and the done() still to come.
LEMMA BusyKept ==
    ASSUME TypeFacts, PoolInv, UNCHANGED <<open, closed, working, queue>>,
           \A r \in Requests :
              (\E w \in Workers : serving[w] = r /\ "done" \in Range(script[w]))'
                 <=> \E w \in Workers : serving[w] = r /\ "done" \in Range(script[w]),
           \A r \in Requests :
              (<<"done", r>> \in Range(fifo[ChannelOf(r)]))'
                 <=> <<"done", r>> \in Range(fifo[ChannelOf(r)])
    PROVE  BusyInv'
<1>1. \A r \in Requests : Undone(r)' <=> Undone(r)
  BY DEF Undone
<1> QED BY <1>1 DEF PoolInv, BusyInv

\* continue_request: the channel's list with its new last element.
LEMMA Continue ==
    ASSUME TypeFacts, TypeFacts', PoolInv, NEW c \in Channels, NEW r \in Requests,
           Work(c, working[c], Append(backlog[c], r)),
           UNCHANGED <<open, closed, fifo, script, logged>>,
           ChannelOf(r) = c, Read(r)', Kind[r] \in Good, r \notin accepted,
           r # current'[c], r \notin Range(backlog[c]),
           \A d \in Channels : current'[d] = NoRequest \/ current'[d] = current[d],
           \A q \in Requests : Read(q) => Read(q)'
    PROVE  PoolInv'
<1> DEFINE b == Append(backlog[c], r)
<1>1. /\ backlog[c] \in Seq(Requests) /\ Range(backlog[c]) \subseteq Requests
      /\ working[c] \in BOOLEAN
  BY ListRange DEF TypeFacts
<1>2. OnceIn(backlog[c], Requests)
  BY DEF PoolInv, PlaceInv
<1>3. /\ b \in Seq(Requests) /\ b # <<>> /\ Range(b) = Range(backlog[c]) \cup {r}
      /\ OnceIn(b, Requests)
  BY <1>1, <1>2, AppendRange, OnceAppend
<1> HIDE DEF b
<1>4. \A q \in Range(b) : /\ ChannelOf(q) = c /\ Read(q)' /\ Kind[q] \in Good
                          /\ q \notin accepted /\ q # current'[c]
  <2>1. ASSUME NEW q \in Range(backlog[c])
        PROVE  /\ ChannelOf(q) = c /\ Read(q)' /\ Kind[q] \in Good
               /\ q \notin accepted /\ q # current'[c]
    <3>1. /\ ChannelOf(q) = c /\ Read(q) /\ Kind[q] \in Good
          /\ q \notin accepted /\ q # current[c] /\ q \in Requests
      BY <1>1, <2>1 DEF PoolInv, PlaceInv
    <3> QED BY <3>1, NamesAssumption
  <2> QED BY <1>3, <2>1
<1>5. current' \in [Channels -> Requests \cup {NoRequest}]
  BY DEF TypeFacts
<1>6. Work(c, working[c], b)
  BY DEF b
<1>7. /\ PlaceInv' /\ Handed' = Handed
      /\ \/ UNCHANGED pool /\ working' = [working EXCEPT ![c] = working[c]]
         \/ /\ ~working[c] /\ working' = [working EXCEPT ![c] = TRUE] /\ serving' = serving
            /\ b # <<>> /\ Range(queue') = Range(queue) \cup {Head(b)}
            /\ ChannelOf(Head(b)) = c
  BY <1>1, <1>3, <1>4, <1>5, <1>6, WorkPlaces DEF PoolInv
<1>8. serving' = serving
  BY <1>7 DEF pool
<1>9. MarkInv' /\ LogInv'
  BY <1>7, <1>8, MarksKept DEF PoolInv
<1>10. BusyInv'
  <2> DEFINE L == {q \in Requests : Undone(q)}
  <2>1. Range(queue) \subseteq L
    BY ListRange DEF TypeFacts, Undone
  <2>2. \A q \in Requests : Undone(q)' <=> q \in L \/ q \in Range(queue')
    BY <1>7, <1>8 DEF Undone, pool
  <2>3. ~closed[c] => /\ working[c] <=> \E q \in L : ChannelOf(q) = c
                      /\ \A p, q \in L : ChannelOf(p) = c /\ ChannelOf(q) = c => p = q
    BY DEF PoolInv, BusyInv
  <2>4. \A q \in Requests : ChannelOf(q) # c => (q \in L <=> Undone(q))
    OBVIOUS
  <2>5. Head(b) \in Requests
    BY <1>3, TailRange
  <2>6. \/ UNCHANGED pool /\ working' = [working EXCEPT ![c] = working[c]]
        \/ /\ ~working[c] /\ working' = [working EXCEPT ![c] = TRUE]
           /\ Range(queue') = Range(queue) \cup {Head(b)} /\ ChannelOf(Head(b)) = c
           /\ Head(b) \in Requests
    BY <1>7, <2>5
  <2>7. L \in SUBSET Requests /\ open' = open /\ closed' = closed
    OBVIOUS
  <2> HIDE DEF L
  <2> DEFINE busy == working[c]
             h == Head(b)
  <2>8. busy \in BOOLEAN
    BY <1>1
  <2> HIDE DEF busy, h
  <2>9. /\ ~closed[c] => /\ busy <=> \E q \in L : ChannelOf(q) = c
                         /\ \A p, q \in L : ChannelOf(p) = c /\ ChannelOf(q) = c => p = q
        /\ \/ UNCHANGED pool /\ working' = [working EXCEPT ![c] = busy]
           \/ /\ ~busy /\ working' = [working EXCEPT ![c] = TRUE]
              /\ Range(queue') = Range(queue) \cup {h} /\ ChannelOf(h) = c
              /\ h \in Requests
    BY <2>3, <2>6 DEF busy, h
  <2> QED BY <2>1, <2>2, <2>4, <2>7, <2>8, <2>9, WorkBusy
<1> QED BY <1>7, <1>9, <1>10 DEF PoolInv

LEMMA GetPool ==
    ASSUME TypeFacts, TypeFacts', PoolInv, NEW c \in Channels, ReceiveGet(c)
    PROVE  PoolInv'
<1>1. HeaderOf(c, {"get", "last"})
  BY DEF ReceiveGet
<1>2. PICK r \in Requests : /\ r = NextRequest(c) /\ Kind[r] \in {"get", "last"}
                           /\ ChannelOf(r) = c /\ ~Read(r) /\ Read(r)'
  BY <1>1, HeaderRead
<1>3. \A q \in Requests : Read(q) => Read(q)'
  BY <1>1, HeaderRead
<1>4. r \notin accepted /\ r # current[c] /\ r \notin Range(backlog[c]) /\ Kind[r] \in Good
  BY <1>2, Unread DEF Good
<1>5. /\ Work(c, working[c], Append(backlog[c], r)) /\ current' = current
      /\ UNCHANGED <<open, closed, fifo, script, logged>>
  BY <1>2 DEF ReceiveGet, pipe
<1> QED BY <1>2, <1>3, <1>4, <1>5, Continue

LEMMA BodyPool ==
    ASSUME TypeFacts, TypeFacts', PoolInv, NEW c \in Channels, ReceiveBody(c)
    PROVE  PoolInv'
<1>1. PICK r \in Requests : r = current[c]
  BY DEF ReceiveBody, TypeFacts
<1>2. /\ Work(c, working[c], Append(backlog[c], r))
      /\ current' = [current EXCEPT ![c] = NoRequest] /\ arrived' = arrived
      /\ UNCHANGED <<open, closed, fifo, script, logged>>
  BY <1>1 DEF ReceiveBody, CollectedRequest, pipe
<1>3. \A q \in Requests : Read(q) => Read(q)'
  BY <1>2, ReadGrows
<1>4. ChannelOf(r) = c /\ Read(r)' /\ Kind[r] \in Good /\ r \notin accepted
  BY <1>1, <1>3, NamesAssumption DEF PoolInv, PlaceInv
<1>5. r \notin Range(backlog[c])
  BY <1>1 DEF PoolInv, PlaceInv
<1>6. /\ \A d \in Channels : current'[d] = NoRequest \/ current'[d] = current[d]
      /\ r # current'[c]
  BY <1>2, NamesAssumption DEF TypeFacts
<1> QED BY <1>2, <1>3, <1>4, <1>5, <1>6, Continue

LEMMA PostPool ==
    ASSUME TypeFacts, TypeFacts', PoolInv, NEW c \in Channels, ReceivePost(c)
    PROVE  PoolInv'
<1>1. HeaderOf(c, {"post"})
  BY DEF ReceivePost
<1>2. PICK r \in Requests : /\ r = NextRequest(c) /\ Kind[r] = "post"
                           /\ ChannelOf(r) = c /\ ~Read(r) /\ Read(r)'
  BY <1>1, HeaderRead
<1>3. \A q \in Requests : Read(q) => Read(q)'
  BY <1>1, HeaderRead
<1>4. /\ current' = [current EXCEPT ![c] = r]
      /\ UNCHANGED <<open, closed, backlog, working, fifo, queue, serving, accepted,
                     script, logged>>
  BY <1>2 DEF ReceivePost, pool, pipe
<1>5. Handed' = Handed
  BY <1>4 DEF Handed
<1>6. /\ r \notin accepted /\ Kind[r] \in Good
      /\ \A d \in Channels : r \notin Range(backlog[d])
  BY <1>2, Unread DEF Good
<1>7. /\ \A d \in Channels : Range(backlog[d]) \subseteq Requests
      /\ accepted \subseteq Requests
      /\ \A d \in Channels : current'[d] = IF d = c THEN r ELSE current[d]
  BY <1>4, ListRange DEF TypeFacts
<1>8. PlaceInv'
  <2>1. \A d \in Channels : \A q \in Requests : q = current'[d] =>
          ChannelOf(q) = d /\ Read(q)' /\ Kind[q] \in Good /\ q \notin accepted'
    BY <1>2, <1>3, <1>4, <1>6, <1>7, NamesAssumption DEF PoolInv, PlaceInv
  <2>2. \A d \in Channels : \A q \in Range(backlog'[d]) :
          /\ ChannelOf(q) = d /\ Read(q)' /\ Kind[q] \in Good
          /\ q \notin accepted' /\ q # current'[d]
    BY <1>3, <1>4, <1>6, <1>7 DEF PoolInv, PlaceInv
  <2>3. \A q \in accepted' : Read(q)' /\ Kind[q] \in Good
    BY <1>3, <1>4, <1>7 DEF PoolInv, PlaceInv
  <2>4. current' \in [Channels -> Requests \cup {NoRequest}]
    BY DEF TypeFacts
  <2> QED BY <1>4, <1>5, <2>1, <2>2, <2>3, <2>4 DEF PoolInv, PlaceInv
<1>9. MarkInv' /\ LogInv'
  BY <1>3, <1>4, <1>5, MarksKept DEF PoolInv
<1>10. BusyInv'
  BY <1>4, BusyKept
<1> QED BY <1>8, <1>9, <1>10 DEF PoolInv

\* PlaceInv when only more requests may have been read.
LEMMA PlacesKept ==
    ASSUME TypeFacts, PlaceInv, UNCHANGED <<backlog, current, pool>>,
           \A r \in Requests : Read(r) => Read(r)'
    PROVE  PlaceInv' /\ Handed' = Handed
<1>1. /\ \A d \in Channels : Range(backlog[d]) \subseteq Requests
      /\ \A d \in Channels : current[d] \in Requests \cup {NoRequest}
      /\ accepted \subseteq Requests
  BY ListRange DEF TypeFacts
<1>2. queue' = queue /\ accepted' = accepted /\ serving' = serving /\ Handed' = Handed
  BY DEF pool, Handed
<1> QED BY <1>1, <1>2 DEF PlaceInv

\* A step that at most appends the mark that closes a channel, or a piece of a
\* response, and drops calls from scripts; it drops a done() only when the channel is
\* closed.
LEMMA Harmless ==
    ASSUME TypeFacts, TypeFacts', PoolInv, NEW c \in Channels, NEW e \in Elements,
           e # CloseMark =>
              e[1] = "write" /\ ChannelOf(e[2]) = c /\ Read(e[2]) /\ e[2] \in Handed,
           fifo' = fifo \/ fifo' = [fifo EXCEPT ![c] = Append(@, e)],
           UNCHANGED <<open, closed, current, backlog, working, pool, logged>>,
           \A r \in Requests : Read(r) => Read(r)',
           \A w \in Workers : \A op \in {"pipe", "log", "done"} :
              op \in Range(script'[w]) => op \in Range(script[w]),
           \A w \in Workers :
              "done" \in Range(script[w]) \ Range(script'[w]) => closed[ServedOn(w)]
    PROVE  PoolInv'
<1>1. PlaceInv' /\ Handed' = Handed /\ serving' = serving /\ queue' = queue
  BY PlacesKept DEF PoolInv, pool
<1>2. \A d \in Channels : fifo[d] \in Seq(Elements) /\ Range(fifo[d]) \subseteq Elements
  BY ListRange DEF TypeFacts
<1>3. e \notin OnceMarks
  BY ElementsAre DEF OnceMarks
<1>4. /\ \A d \in Channels : Range(fifo'[d]) = Range(fifo[d])
                            \/ (d = c /\ Range(fifo'[d]) = Range(fifo[d]) \cup {e})
      /\ \A d \in Channels : OnceIn(fifo'[d], OnceMarks)
  <2>1. ASSUME NEW d \in Channels PROVE OnceIn(fifo[d], OnceMarks)
    BY DEF PoolInv, MarkInv
  <2>2. CASE fifo' = fifo
    BY <2>1, <2>2
  <2>3. CASE fifo' = [fifo EXCEPT ![c] = Append(@, e)]
    <3>1. \A d \in Channels : fifo'[d] = IF d = c THEN Append(fifo[c], e) ELSE fifo[d]
      BY <2>3 DEF TypeFacts
    <3>2. Range(Append(fifo[c], e)) = Range(fifo[c]) \cup {e}
      BY <1>2, AppendRange
    <3>3. OnceIn(Append(fifo[c], e), OnceMarks)
      BY <1>2, <1>3, <2>1, OnceAppend
    <3> QED BY <2>1, <3>1, <3>2, <3>3
  <2> QED BY <2>2, <2>3
<1>5. \A m \in {"log", "reply", "done"} : \A r \in Requests : \A d \in Channels :
         <<m, r>> \in Range(fifo'[d]) <=> <<m, r>> \in Range(fifo[d])
  <2>1. \A m \in {"log", "reply", "done"} : \A r \in Requests : <<m, r>> # e
    BY ElementsAre
  <2> QED BY <1>4, <2>1
<1>6. \A w \in Workers : Range(script[w]) # {} => serving[w] \in Requests
  BY EmptyList DEF TypeFacts
<1>7. MarkInv'
  <2>1. ASSUME NEW d \in Channels, NEW x \in Range(fifo'[d]), x # CloseMark
        PROVE  /\ ChannelOf(x[2]) = d /\ Read(x[2])'
               /\ x[1] = "reply" => Kind[x[2]] \notin Good
               /\ x[1] # "reply" => x[2] \in Handed
    <3>1. CASE x \in Range(fifo[d])
      BY <1>2, <2>1, <3>1, ElementsAre DEF PoolInv, MarkInv
    <3>2. CASE x = e /\ d = c
      BY <2>1, <3>2, ElementsAre
    <3> QED BY <1>4, <2>1, <3>1, <3>2
  <2>2. \A w \in Workers : "done" \in Range(script'[w]) =>
          <<"done", serving[w]>> \notin Range(fifo'[ServedOn(w)])
    BY <1>5, <1>6, PlaceOf DEF PoolInv, MarkInv, ServedOn
  <2>3. \A w \in Workers : ServedOn(w)' = ServedOn(w)
    BY <1>1 DEF ServedOn
  <2> QED BY <1>1, <1>4, <2>1, <2>2, <2>3 DEF MarkInv
<1>8. \A r \in Requests : Marked(r)' <=> Marked(r)
  BY <1>5, PlaceOf DEF Marked
<1>9. LogInv'
  <2>1. \A w \in Workers : {"pipe", "log"} \cap Range(script'[w]) # {} =>
          {"pipe", "log"} \cap Range(script[w]) # {} /\ serving[w] \in Requests
    BY <1>6
  <2> QED BY <1>1, <1>8, <2>1 DEF PoolInv, LogInv
<1>10. BusyInv'
  <2>1. ASSUME NEW r \in Requests, ~closed[ChannelOf(r)] PROVE Undone(r)' <=> Undone(r)
    <3>1. \A w \in Workers : serving[w] = r =>
             ("done" \in Range(script'[w]) <=> "done" \in Range(script[w]))
      BY <2>1 DEF ServedOn
    <3>2. <<"done", r>> \in Range(fifo'[ChannelOf(r)])
             <=> <<"done", r>> \in Range(fifo[ChannelOf(r)])
      BY <1>5, PlaceOf
    <3> QED BY <1>1, <3>1, <3>2 DEF Undone
  <2> QED BY <2>1 DEF PoolInv, BusyInv
<1> QED BY <1>1, <1>7, <1>9, <1>10 DEF PoolInv

\* The reply to a request that cannot be served.
LEMMA ReplyPool ==
    ASSUME TypeFacts, TypeFacts', PoolInv, NEW c \in Channels, NEW r \in Requests,
           ChannelOf(r) = c, ~Read(r), Read(r)', Kind[r] \notin Good,
           \A q \in Requests : Read(q) => Read(q)',
           fifo' = [fifo EXCEPT ![c] = Append(@, <<"reply", r>>)],
           UNCHANGED <<open, closed, current, backlog, working, pool, script, logged>>
    PROVE  PoolInv'
<1> DEFINE e == <<"reply", r>>
<1>1. PlaceInv' /\ Handed' = Handed /\ serving' = serving /\ queue' = queue
  BY PlacesKept DEF PoolInv, pool
<1>2. \A d \in Channels : fifo[d] \in Seq(Elements) /\ Range(fifo[d]) \subseteq Elements
  BY ListRange DEF TypeFacts
<1>3. /\ logged[r] = 0 /\ \A d \in Channels : \A x \in Range(fifo[d]) : x[2] # r
      /\ \A w \in Workers : serving[w] # r
  BY Unread
<1>4. e \in Elements /\ e # CloseMark /\ e[1] = "reply" /\ e[2] = r /\ e \notin Range(fifo[c])
  <2>1. "reply" \in {"write", "log", "done", "reply"}
    OBVIOUS
  <2>2. e \in Elements /\ e # CloseMark /\ e[1] = "reply" /\ e[2] = r
    BY <2>1, ElementsAre
  <2> QED BY <1>3, <2>2
<1>5. \A d \in Channels : fifo'[d] = IF d = c THEN Append(fifo[c], e) ELSE fifo[d]
  BY DEF TypeFacts
<1> HIDE DEF e
<1>6. /\ \A d \in Channels : Range(fifo'[d]) = IF d = c THEN Range(fifo[c]) \cup {e} ELSE Range(fifo[d])
      /\ \A d \in Channels : OnceIn(fifo'[d], OnceMarks)
  <2>1. \A d \in Channels : OnceIn(fifo[d], OnceMarks)
    BY DEF PoolInv, MarkInv
  <2>2. Range(Append(fifo[c], e)) = Range(fifo[c]) \cup {e}
    BY <1>2, <1>4, AppendRange
  <2>3. OnceIn(Append(fifo[c], e), OnceMarks)
    BY <1>2, <1>4, <2>1, OnceAppend
  <2>4. fifo'[c] = Append(fifo[c], e) /\ \A d \in Channels : d # c => fifo'[d] = fifo[d]
    BY <1>5
  <2>5. ASSUME NEW d \in Channels
        PROVE  /\ Range(fifo'[d]) = IF d = c THEN Range(fifo[c]) \cup {e} ELSE Range(fifo[d])
               /\ OnceIn(fifo'[d], OnceMarks)
    <3>1. CASE d = c
      BY <2>2, <2>3, <2>4, <3>1
    <3>2. CASE d # c
      BY <2>1, <2>4, <3>2
    <3> QED BY <3>1, <3>2
  <2> QED BY <2>5
<1>7. \A m \in {"log", "reply", "done"} : \A q \in Requests : \A d \in Channels :
         <<m, q>> \in Range(fifo'[d]) <=> <<m, q>> \in Range(fifo[d]) \/ (<<m, q>> = e /\ d = c)
  BY <1>6
<1>8. \A w \in Workers : Range(script[w]) # {} => serving[w] \in Requests
  BY EmptyList DEF TypeFacts
<1>9. MarkInv'
  <2>1. ASSUME NEW d \in Channels, NEW x \in Range(fifo'[d]), x # CloseMark
        PROVE  /\ ChannelOf(x[2]) = d /\ Read(x[2])'
               /\ x[1] = "reply" => Kind[x[2]] \notin Good
               /\ x[1] # "reply" => x[2] \in Handed
    <3>1. CASE x \in Range(fifo[d])
      BY <1>2, <2>1, <3>1, ElementsAre DEF PoolInv, MarkInv
    <3>2. CASE x = e /\ d = c
      BY <2>1, <3>2, <1>4
    <3> QED BY <1>6, <2>1, <3>1, <3>2
  <2>2. \A w \in Workers : "done" \in Range(script[w]) =>
          <<"done", serving[w]>> \notin Range(fifo'[ServedOn(w)])
    <3>1. \A q \in Requests : <<"done", q>> # e
      BY <1>4, ElementsAre
    <3> QED BY <1>7, <1>8, <3>1, PlaceOf DEF PoolInv, MarkInv, ServedOn
  <2>3. \A w \in Workers : ServedOn(w)' = ServedOn(w)
    BY <1>1 DEF ServedOn
  <2> QED BY <1>1, <1>6, <2>1, <2>2, <2>3 DEF MarkInv
<1>10. \A q \in Requests : Marked(q)' <=> Marked(q) \/ q = r
  <2>1. \A m \in {"log", "reply"} : \A q \in Requests :
           <<m, q>> = e <=> m = "reply" /\ q = r
    BY <1>4, ElementsAre DEF e
  <2> QED BY <1>7, <2>1, PlaceOf DEF Marked
<1>11. LogInv'
  <2>1. \A w \in Workers : {"pipe", "log"} \cap Range(script[w]) # {} => serving[w] \in Requests
    BY <1>8
  <2> QED BY <1>1, <1>3, <1>10, <2>1 DEF PoolInv, LogInv
<1>12. BusyInv'
  <2>1. \A q \in Requests : <<"done", q>> # e
    BY <1>4, ElementsAre
  <2>2. \A q \in Requests : Undone(q)' <=> Undone(q)
    BY <1>1, <1>7, <2>1, PlaceOf DEF Undone
  <2> QED BY <2>2 DEF PoolInv, BusyInv
<1> QED BY <1>1, <1>9, <1>11, <1>12 DEF PoolInv

LEMMA ErrorPool ==
    ASSUME TypeFacts, TypeFacts', PoolInv, NEW c \in Channels, ReceiveError(c)
    PROVE  PoolInv'
<1>1. HeaderOf(c, {"fault", "bad"})
  BY DEF ReceiveError
<1>2. PICK r \in Requests : /\ r = NextRequest(c) /\ Kind[r] \in {"fault", "bad"}
                           /\ ChannelOf(r) = c /\ ~Read(r) /\ Read(r)'
  BY <1>1, HeaderRead
<1>3. \A q \in Requests : Read(q) => Read(q)'
  BY <1>1, HeaderRead
<1>4. UNCHANGED <<open, closed, current, backlog, working, pool, script, logged>>
  BY DEF ReceiveError, pipe
<1>5. CASE closed[c]
  <2>1. fifo' = fifo \/ fifo' = [fifo EXCEPT ![c] = Append(@, CloseMark)]
    BY <1>5 DEF ReceiveError, TypeFacts
  <2>2. CloseMark \in Elements
    BY ElementsAre
  <2> QED BY <1>3, <1>4, <2>1, <2>2, Harmless
<1>6. CASE ~closed[c]
  <2>1. fifo' = [fifo EXCEPT ![c] = Append(@, <<"reply", r>>)]
    BY <1>2, <1>6 DEF ReceiveError
  <2>2. Kind[r] \notin Good
    BY <1>2 DEF Good
  <2> QED BY <1>2, <1>3, <1>4, <2>1, <2>2, ReplyPool
<1> QED BY <1>5, <1>6

LEMMA BlankPool ==
    ASSUME TypeFacts, TypeFacts', PoolInv, NEW c \in Channels, ReceiveBlank(c)
    PROVE  PoolInv'
<1>1. HeaderOf(c, {"blank"}) /\ CloseMark \in Elements
  BY ElementsAre DEF ReceiveBlank
<1>2. \A q \in Requests : Read(q) => Read(q)'
  BY <1>1, HeaderRead
<1>3. /\ UNCHANGED <<open, closed, current, backlog, working, pool, script, logged>>
      /\ fifo' = [fifo EXCEPT ![c] = Append(@, CloseMark)]
  BY DEF ReceiveBlank, pipe
<1> QED BY <1>1, <1>2, <1>3, Harmless

\* The head of an output queue leaves it; close_when_done may append its mark.
LEMMA HeadLeaves ==
    ASSUME TypeFacts, MarkInv, NEW c \in Channels, fifo[c] # <<>>,
           \/ fifo' = [fifo EXCEPT ![c] = Tail(fifo[c])]
           \/ fifo' = [fifo EXCEPT ![c] = Append(Tail(fifo[c]), CloseMark)]
    PROVE  /\ Head(fifo[c]) \in Elements /\ Head(fifo[c]) \in Range(fifo[c])
           /\ \A d \in Channels : Range(fifo[d]) \subseteq Elements
           /\ \A d \in Channels : OnceIn(fifo'[d], OnceMarks)
           /\ \A d \in Channels : Range(fifo'[d]) \subseteq Range(fifo[d]) \cup {CloseMark}
           /\ \A d \in Channels : \A x \in Range(fifo[d]) :
                 x \in Range(fifo'[d]) \/ (d = c /\ x = Head(fifo[c]))
           /\ Head(fifo[c]) \in OnceMarks => Head(fifo[c]) \notin Range(fifo'[c])
<1> DEFINE h == Head(fifo[c])
           t == Tail(fifo[c])
<1>1. \A d \in Channels : /\ fifo[d] \in Seq(Elements) /\ Range(fifo[d]) \subseteq Elements
                         /\ OnceIn(fifo[d], OnceMarks)
  BY ListRange DEF TypeFacts, MarkInv
<1>2. /\ h \in Elements /\ t \in Seq(Elements) /\ Range(fifo[c]) = Range(t) \cup {h}
      /\ OnceIn(t, OnceMarks) /\ (h \in OnceMarks => h \notin Range(t))
  BY <1>1, TailRange, OnceTail
<1>3. CloseMark \in Elements /\ CloseMark \notin OnceMarks
  BY ElementsAre
<1>4. \A d \in Channels : d # c => fifo'[d] = fifo[d]
  BY DEF TypeFacts
<1> HIDE DEF h, t
<1>5. /\ OnceIn(fifo'[c], OnceMarks)
      /\ Range(fifo'[c]) = Range(t) \/ Range(fifo'[c]) = Range(t) \cup {CloseMark}
  <2>1. CASE fifo' = [fifo EXCEPT ![c] = t]
    <3>1. fifo'[c] = t
      BY <2>1 DEF TypeFacts
    <3> QED BY <1>2, <3>1
  <2>2. CASE fifo' = [fifo EXCEPT ![c] = Append(t, CloseMark)]
    <3>1. fifo'[c] = Append(t, CloseMark)
      BY <2>2 DEF TypeFacts
    <3> QED BY <1>2, <1>3, <3>1, AppendRange, OnceAppend
  <2> QED BY <2>1, <2>2 DEF t
<1>6. \A d \in Channels : OnceIn(fifo'[d], OnceMarks)
  BY <1>1, <1>4, <1>5
<1>7. \A d \in Channels : Range(fifo'[d]) \subseteq Range(fifo[d]) \cup {CloseMark}
  BY <1>2, <1>4, <1>5
<1>8. \A d \in Channels : \A x \in Range(fifo[d]) :
         x \in Range(fifo'[d]) \/ (d = c /\ x = h)
  BY <1>2, <1>4, <1>5
<1>9. h \in OnceMarks => h \notin Range(fifo'[c])
  BY <1>2, <1>3, <1>5
<1> QED BY <1>1, <1>2, <1>6, <1>7, <1>8, <1>9 DEF h

\* MarkInv when a head leaves.
LEMMA FewerMarks ==
    ASSUME TypeFacts, TypeFacts', MarkInv, NEW c \in Channels, fifo[c] # <<>>,
           \/ fifo' = [fifo EXCEPT ![c] = Tail(fifo[c])]
           \/ fifo' = [fifo EXCEPT ![c] = Append(Tail(fifo[c]), CloseMark)],
           UNCHANGED <<arrived, serving, script>>, Handed' = Handed
    PROVE  MarkInv'
<1>1. /\ \A d \in Channels : OnceIn(fifo'[d], OnceMarks)
      /\ \A d \in Channels : Range(fifo'[d]) \subseteq Range(fifo[d]) \cup {CloseMark}
  BY HeadLeaves
<1>2. \A w \in Workers : "done" \in Range(script[w]) =>
          /\ ServedOn(w) \in Channels /\ <<"done", serving[w]>> # CloseMark
  <2>1. \A w \in Workers : "done" \in Range(script[w]) => serving[w] \in Requests
    BY EmptyList DEF TypeFacts
  <2> QED BY <2>1, PlaceOf, ElementsAre DEF ServedOn
<1>3. \A r : Read(r)' <=> Read(r)
  BY DEF Read
<1>4. \A w \in Workers : ServedOn(w)' = ServedOn(w)
  BY DEF ServedOn
<1> QED BY <1>1, <1>2, <1>3, <1>4 DEF MarkInv

\* A piece of a response, a reply or the log entry leaves the output queue.
LEMMA SentPool ==
    ASSUME TypeFacts, TypeFacts', PoolInv, NEW c \in Channels, fifo[c] # <<>>,
           \/ fifo' = [fifo EXCEPT ![c] = Tail(fifo[c])]
           \/ fifo' = [fifo EXCEPT ![c] = Append(Tail(fifo[c]), CloseMark)],
           Head1(c) \in {"write", "reply", "log"},
           logged' = IF Head1(c) = "write" THEN logged
                     ELSE [logged EXCEPT ![Head(fifo[c])[2]] = @ + 1],
           UNCHANGED <<open, closed, input, backlog, working, pool, script>>
    PROVE  PoolInv'
<1> DEFINE h == Head(fifo[c])
<1>1. PlaceInv' /\ Handed' = Handed /\ serving' = serving /\ queue' = queue
  <2>1. \A q \in Requests : Read(q) => Read(q)'
    BY ReadGrows DEF input
  <2> QED BY <2>1, PlacesKept DEF PoolInv, pool, input
<1>2. MarkInv'
  BY <1>1, FewerMarks DEF PoolInv, input
<1>3. /\ h \in Range(fifo[c]) /\ h \in Elements
      /\ \A d \in Channels : Range(fifo[d]) \subseteq Elements
      /\ \A d \in Channels : Range(fifo'[d]) \subseteq Range(fifo[d]) \cup {CloseMark}
      /\ \A d \in Channels : \A x \in Range(fifo[d]) :
            x \in Range(fifo'[d]) \/ (d = c /\ x = h)
      /\ h \in OnceMarks => h \notin Range(fifo'[c])
  BY HeadLeaves DEF PoolInv
<1>4. PICK r \in Requests :
         /\ h # CloseMark /\ r = h[2] /\ h = <<h[1], r>> /\ h[1] = Head1(c)
         /\ h[1] \in {"write", "reply", "log"}
  BY <1>3, ElementsAre DEF Head1
<1>5. /\ ChannelOf(r) = c /\ Read(r)
      /\ h[1] = "reply" => Kind[r] \notin Good
      /\ h[1] # "reply" => r \in Handed /\ Kind[r] \in Good
  <2>1. Handed \subseteq accepted /\ \A q \in accepted : Kind[q] \in Good
    BY DEF PoolInv, PlaceInv, Handed
  <2> QED BY <1>3, <1>4, <2>1 DEF PoolInv, MarkInv
<1> HIDE DEF h
<1>6. \A m \in {"log", "reply", "done"} : \A q \in Requests : \A d \in Channels :
         /\ <<m, q>> \in Range(fifo'[d]) => <<m, q>> \in Range(fifo[d])
         /\ <<m, q>> # h => (<<m, q>> \in Range(fifo'[d]) <=> <<m, q>> \in Range(fifo[d]))
  <2>1. \A m \in {"log", "reply", "done"} : \A q \in Requests : <<m, q>> # CloseMark
    BY ElementsAre
  <2> QED BY <1>3, <2>1
<1>7. \A q \in Requests : Marked(q)' => Marked(q)
  BY <1>6, PlaceOf DEF Marked
<1>8. \A w \in Workers : {"pipe", "log"} \cap Range(script[w]) # {} => serving[w] \in Requests
  BY EmptyList DEF TypeFacts
<1>9. LogInv'
  <2>1. \A q \in Requests : Read(q)' <=> Read(q)
    BY DEF Read, input
  <2>2. CASE h[1] = "write"
    <3>1. logged' = logged
      BY <1>4, <2>2
    <3> QED BY <1>1, <1>7, <1>8, <2>1, <3>1 DEF PoolInv, LogInv
  <2>3. CASE h[1] # "write"
    <3>1. logged' = [logged EXCEPT ![r] = logged[r] + 1]
      BY <1>4, <2>3 DEF h
    <3>2. Marked(r)
      BY <1>3, <1>4, <1>5, <2>3 DEF Marked
    <3>3. logged[r] = 0
      BY <1>4, <3>2 DEF PoolInv, LogInv
    <3>4. logged'[r] = 1 /\ \A q \in Requests : q # r => logged'[q] = logged[q]
      BY <1>4, <3>1, <3>3 DEF TypeFacts
    <3>5. ~Marked(r)'
      <4>1. h \in OnceMarks
        BY <1>4, <2>3 DEF OnceMarks
      <4>2. \A m \in {"log", "reply"} : <<m, r>> \in Range(fifo[c]) => <<m, r>> = h
        <5>1. ASSUME NEW m \in {"log", "reply"}, <<m, r>> \in Range(fifo[c]) PROVE m = h[1]
          <6>1. <<m, r>> # CloseMark /\ <<m, r>>[1] = m /\ <<m, r>>[2] = r
            BY <1>4, ElementsAre
          <6>2. /\ m = "reply" => Kind[r] \notin Good
                /\ m # "reply" => r \in Handed
            BY <5>1, <6>1 DEF PoolInv, MarkInv
          <6>3. r \in Handed => Kind[r] \in Good
            BY DEF PoolInv, PlaceInv, Handed
          <6> QED BY <1>4, <1>5, <2>3, <6>2, <6>3
        <5> QED BY <1>4, <5>1
      <4> QED BY <1>3, <1>4, <1>5, <1>6, <4>1, <4>2 DEF Marked
    <3>6. \A w \in Workers : {"pipe", "log"} \cap Range(script[w]) # {} => serving[w] # r
      BY <3>2 DEF PoolInv, LogInv
    <3> QED BY <1>1, <1>4, <1>5, <1>7, <1>8, <2>1, <3>4, <3>5, <3>6 DEF PoolInv, LogInv
  <2> QED BY <2>2, <2>3
<1>10. BusyInv'
  <2>1. \A q \in Requests : <<"done", q>> # h
    BY <1>4, ElementsAre
  <2>2. \A q \in Requests : (<<"done", q>> \in Range(fifo[ChannelOf(q)]))'
                               <=> <<"done", q>> \in Range(fifo[ChannelOf(q)])
    BY <1>6, <2>1, PlaceOf
  <2> QED BY <1>1, <2>2, BusyKept
<1> QED BY <1>1, <1>2, <1>9, <1>10 DEF PoolInv

\* channel.done(), and the next request.
LEMMA DonePool ==
    ASSUME TypeFacts, TypeFacts', PoolInv, NEW c \in Channels, SendDone(c)
    PROVE  PoolInv'
<1> DEFINE h == Head(fifo[c])
           b == backlog[c]
<1>1. /\ fifo[c] # <<>> /\ Head1(c) = "done" /\ Work(c, FALSE, b)
      /\ fifo' = [fifo EXCEPT ![c] = Tail(fifo[c])]
      /\ UNCHANGED <<open, closed, arrived, current, script, logged>>
  BY DEF SendDone, Done, input, pipe
<1>2. /\ h \in Range(fifo[c]) /\ h \in Elements
      /\ \A d \in Channels : Range(fifo'[d]) \subseteq Range(fifo[d]) \cup {CloseMark}
      /\ \A d \in Channels : \A x \in Range(fifo[d]) :
            x \in Range(fifo'[d]) \/ (d = c /\ x = h)
      /\ h \in OnceMarks => h \notin Range(fifo'[c])
  BY <1>1, HeadLeaves DEF PoolInv
<1>3. PICK r \in Requests : h # CloseMark /\ r = h[2] /\ h = <<"done", r>>
  BY <1>1, <1>2, ElementsAre DEF Head1
<1>4. ChannelOf(r) = c /\ r \in Handed
  BY <1>2, <1>3 DEF PoolInv, MarkInv
<1>5. b \in Seq(Requests) /\ OnceIn(b, Requests)
  BY DEF TypeFacts, PoolInv, PlaceInv
<1>6. \A q \in Requests : Read(q)' <=> Read(q)
  BY <1>1 DEF Read
<1>7. \A q \in Range(b) : /\ ChannelOf(q) = c /\ Read(q)' /\ Kind[q] \in Good
                          /\ q \notin accepted /\ q # current'[c]
  BY <1>1, <1>5, <1>6, ListRange DEF PoolInv, PlaceInv
<1>8. current' \in [Channels -> Requests \cup {NoRequest}]
  BY DEF TypeFacts
<1> HIDE DEF h
<1>9. /\ PlaceInv' /\ Handed' = Handed
      /\ \/ UNCHANGED pool /\ working' = [working EXCEPT ![c] = FALSE]
         \/ /\ working' = [working EXCEPT ![c] = TRUE] /\ serving' = serving
            /\ b # <<>> /\ Range(queue') = Range(queue) \cup {Head(b)}
            /\ ChannelOf(Head(b)) = c
  BY <1>1, <1>5, <1>6, <1>7, <1>8, WorkPlaces DEF PoolInv
<1>10. serving' = serving
  BY <1>9 DEF pool
<1>11. MarkInv'
  BY <1>1, <1>9, <1>10, FewerMarks DEF PoolInv
<1>12. \A m \in {"log", "reply", "done"} : \A q \in Requests : \A d \in Channels :
         <<m, q>> # h => (<<m, q>> \in Range(fifo'[d]) <=> <<m, q>> \in Range(fifo[d]))
  <2>1. \A m \in {"log", "reply", "done"} : \A q \in Requests : <<m, q>> # CloseMark
    BY ElementsAre
  <2> QED BY <1>2, <2>1
<1>13. LogInv'
  <2>1. \A m \in {"log", "reply"} : \A q \in Requests : <<m, q>> # h
    BY <1>3, ElementsAre
  <2>2. \A q \in Requests : Marked(q)' <=> Marked(q)
    BY <1>12, <2>1, PlaceOf DEF Marked
  <2>3. \A w \in Workers : {"pipe", "log"} \cap Range(script[w]) # {} => serving[w] \in Requests
    BY EmptyList DEF TypeFacts
  <2> QED BY <1>1, <1>6, <1>9, <1>10, <2>2, <2>3 DEF PoolInv, LogInv
<1>14. BusyInv'
  <2> DEFINE L == {q \in Requests : Undone(q) /\ q # r}
  <2>1. \A w \in Workers : serving[w] = r => "done" \notin Range(script[w])
    BY <1>2, <1>3, <1>4 DEF PoolInv, MarkInv, ServedOn
  <2>2. r \notin Range(queue) /\ r \notin Range(queue')
    BY <1>4, <1>9 DEF Handed
  <2>3. h \in OnceMarks
    BY <1>3 DEF OnceMarks
  <2>4. Range(queue) \subseteq L
    BY <2>2, ListRange DEF TypeFacts, Undone
  <2>5. \A q \in Requests : q # r => <<"done", q>> # h
    BY <1>3, ElementsAre
  <2>6. Range(queue) \subseteq Range(queue')
    BY <1>9 DEF pool
  <2>7. ~Undone(r)'
    BY <1>1, <1>2, <1>3, <1>4, <1>10, <2>1, <2>2, <2>3 DEF Undone
  <2>8. \A q \in Requests : q # r => (Undone(q)' <=> Undone(q) \/ q \in Range(queue'))
    BY <1>1, <1>10, <1>12, <2>5, <2>6, PlaceOf DEF Undone
  <2>9. \A q \in Requests : Undone(q)' <=> q \in L \/ q \in Range(queue')
    BY <2>2, <2>7, <2>8
  <2>10. Undone(r)
    BY <1>2, <1>3, <1>4 DEF Undone
  <2>11. ~closed[c] => ~\E q \in L : ChannelOf(q) = c
    BY <1>3, <1>4, <2>10 DEF PoolInv, BusyInv
  <2>12. \A q \in Requests : ChannelOf(q) # c => (q \in L <=> Undone(q))
    BY <1>4
  <2> DEFINE busy == FALSE
             g == Head(b)
  <2>13. b # <<>> => g \in Requests
    BY <1>5, TailRange
  <2>14. L \in SUBSET Requests /\ open' = open /\ closed' = closed /\ busy \in BOOLEAN
    BY <1>1
  <2> HIDE DEF L
  <2>15. \/ UNCHANGED pool /\ working' = [working EXCEPT ![c] = busy]
         \/ /\ ~busy /\ working' = [working EXCEPT ![c] = TRUE]
            /\ Range(queue') = Range(queue) \cup {g} /\ ChannelOf(g) = c /\ g \in Requests
    BY <1>9, <2>13
  <2>16. ~closed[c] => /\ busy <=> \E q \in L : ChannelOf(q) = c
                       /\ \A p, q \in L : ChannelOf(p) = c /\ ChannelOf(q) = c => p = q
    BY <2>11
  <2> HIDE DEF busy, g
  <2> QED BY <2>4, <2>9, <2>12, <2>14, <2>15, <2>16, WorkBusy
<1> QED BY <1>9, <1>11, <1>13, <1>14 DEF PoolInv

\* Each element that logs r is in the queue once, and only one kind of element is.
LEMMA LogsAre ==
    ASSUME NEW s \in Seq(Elements), OnceIn(s, OnceMarks), NEW r \in Requests,
           <<"log", r>> \notin Range(s) \/ <<"reply", r>> \notin Range(s)
    PROVE  /\ Logs(r, s) \in {0, 1}
           /\ Logs(r, s) = 1 <=> \E m \in {"log", "reply"} : <<m, r>> \in Range(s)
<1> DEFINE I == {i \in DOMAIN s : s[i] \in {<<"log", r>>, <<"reply", r>>}}
<1>1. <<"log", r>> \in OnceMarks /\ <<"reply", r>> \in OnceMarks
  BY DEF OnceMarks
<1>2. DOMAIN s = 1 .. Len(s) /\ \A i \in DOMAIN s : s[i] \in Range(s)
  BY ListRange
<1>3. CASE I = {}
  <2>1. Logs(r, s) = 0
    BY <1>3, FS_EmptySet DEF Logs
  <2>2. \A m \in {"log", "reply"} : <<m, r>> \notin Range(s)
    BY <1>3 DEF Range
  <2> QED BY <2>1, <2>2
<1>4. CASE I # {}
  <2>1. PICK i \in I : TRUE
    BY <1>4
  <2>2. \A j \in I : j = i
    BY <1>1, <1>2, <2>1 DEF OnceIn
  <2>3. I = {i}
    BY <2>1, <2>2
  <2>4. Logs(r, s) = 1
    BY <2>3, FS_Singleton DEF Logs
  <2>5. \E m \in {"log", "reply"} : <<m, r>> \in Range(s)
    BY <1>2, <2>1
  <2> QED BY <2>4, <2>5
<1> QED BY <1>3, <1>4

\* Channels are closed, and others opened.
LEMMA ClosePool ==
    ASSUME TypeFacts, TypeFacts', PoolInv, NEW C \in SUBSET Channels, NEW D \in SUBSET Channels,
           Close(C), open' = (open \ C) \cup D, \A d \in D : ~closed[d] /\ d \notin C,
           UNCHANGED <<arrived, pool, pipe>>
    PROVE  PoolInv'
<1>1. /\ \A d \in Channels : closed'[d] = (closed[d] \/ d \in C)
      /\ \A d \in Channels : current'[d] = IF d \in C THEN NoRequest ELSE current[d]
      /\ \A d \in Channels : backlog'[d] = IF d \in C THEN <<>> ELSE backlog[d]
      /\ \A d \in Channels : fifo'[d] = IF d \in C THEN <<>> ELSE fifo[d]
      /\ \A d \in Channels : d \notin C => working'[d] = working[d]
      /\ \A r \in Requests : logged'[r] = IF ChannelOf(r) \in C
                                      THEN logged[r] + Logs(r, fifo[ChannelOf(r)])
                                      ELSE logged[r]
  BY DEF Close, TypeFacts
<1>2. /\ queue' = queue /\ accepted' = accepted /\ serving' = serving
      /\ script' = script /\ Handed' = Handed
  BY DEF pool, pipe, Handed
<1>3. \A r : Read(r)' <=> Read(r)
  BY DEF Read
<1>4. PlaceInv'
  BY <1>1, <1>2, <1>3, EmptyList DEF PoolInv, PlaceInv
<1>5. \A w \in Workers : Range(script[w]) # {} => serving[w] \in Requests
  BY EmptyList DEF TypeFacts
<1>6. MarkInv'
  <2>1. \A w \in Workers : ServedOn(w)' = ServedOn(w)
    BY <1>2 DEF ServedOn
  <2>2. \A w \in Workers : "done" \in Range(script[w]) => ServedOn(w) \in Channels
    BY <1>5, PlaceOf DEF ServedOn
  <2> QED BY <1>1, <1>2, <1>3, <2>1, <2>2, EmptyList DEF PoolInv, MarkInv
<1>7. \A r \in Requests : Marked(r)' <=> Marked(r) /\ ChannelOf(r) \notin C
  BY <1>1, PlaceOf, EmptyList DEF Marked
<1>8. \A r \in Requests : ~Marked(r) => logged'[r] = logged[r]
  <2>1. ASSUME NEW r \in Requests, ~Marked(r) PROVE Logs(r, fifo[ChannelOf(r)]) = 0
    <3>1. fifo[ChannelOf(r)] \in Seq(Elements) /\ OnceIn(fifo[ChannelOf(r)], OnceMarks)
      BY PlaceOf DEF TypeFacts, PoolInv, MarkInv
    <3> QED BY <2>1, <3>1, LogsAre DEF Marked
  <2> QED BY <1>1, <2>1 DEF TypeFacts
<1>9. \A r \in Requests : Marked(r) =>
         /\ logged[r] = 0 /\ logged'[r] \in {0, 1}
         /\ Read(r) /\ (Kind[r] \in Good => r \in Handed)
         /\ logged'[r] = 1 => ChannelOf(r) \in C
  <2>1. ASSUME NEW r \in Requests, Marked(r)
        PROVE  /\ logged[r] = 0 /\ logged'[r] \in {0, 1}
               /\ Read(r) /\ (Kind[r] \in Good => r \in Handed)
               /\ logged'[r] = 1 => ChannelOf(r) \in C
    <3>1. fifo[ChannelOf(r)] \in Seq(Elements) /\ OnceIn(fifo[ChannelOf(r)], OnceMarks)
      BY PlaceOf DEF TypeFacts, PoolInv, MarkInv
    <3>2. \A m \in {"log", "reply"} : <<m, r>> \in Range(fifo[ChannelOf(r)]) =>
             /\ Read(r)
             /\ m = "reply" => Kind[r] \notin Good
             /\ m # "reply" => r \in Handed
      <4>1. ASSUME NEW m \in {"log", "reply"}, <<m, r>> \in Range(fifo[ChannelOf(r)])
            PROVE  /\ Read(r)
                   /\ m = "reply" => Kind[r] \notin Good
                   /\ m # "reply" => r \in Handed
        <5>1. <<m, r>> # CloseMark /\ <<m, r>>[1] = m /\ <<m, r>>[2] = r
          BY ElementsAre
        <5> QED BY <4>1, <5>1, PlaceOf DEF PoolInv, MarkInv
      <4> QED BY <4>1
    <3>3. r \in Handed => Kind[r] \in Good
      BY DEF PoolInv, PlaceInv, Handed
    <3>4. Logs(r, fifo[ChannelOf(r)]) \in {0, 1}
      BY <3>1, <3>2, <3>3, LogsAre
    <3>5. logged[r] = 0
      BY <2>1 DEF PoolInv, LogInv
    <3> QED BY <1>1, <2>1, <3>2, <3>4, <3>5 DEF Marked
  <2> QED BY <2>1
<1>10. LogInv'
  <2>1. \A w \in Workers : {"pipe", "log"} \cap Range(script[w]) # {} => serving[w] \in Requests
    BY <1>5
  <2> QED BY <1>2, <1>3, <1>7, <1>8, <1>9, <2>1 DEF PoolInv, LogInv
<1>11. BusyInv'
  <2>1. ASSUME NEW r \in Requests, ChannelOf(r) \notin C PROVE Undone(r)' <=> Undone(r)
    BY <1>1, <1>2, <2>1, PlaceOf DEF Undone
  <2>2. \A d \in open' : ~closed'[d]
    BY <1>1 DEF PoolInv, BusyInv, TypeFacts
  <2>3. ASSUME NEW d \in Channels, ~closed'[d]
        PROVE  /\ working'[d] <=> \E r \in Requests : ChannelOf(r) = d /\ Undone(r)'
               /\ \A r, q \in Requests :
                     ChannelOf(r) = d /\ ChannelOf(q) = d /\ Undone(r)' /\ Undone(q)' => r = q
    <3>1. d \notin C /\ ~closed[d] /\ working'[d] = working[d]
      BY <1>1, <2>3
    <3>2. \A r \in Requests : ChannelOf(r) = d => (Undone(r)' <=> Undone(r))
      BY <2>1, <3>1
    <3> QED BY <3>1, <3>2 DEF PoolInv, BusyInv
  <2> QED BY <2>2, <2>3 DEF BusyInv
<1> QED BY <1>4, <1>6, <1>10, <1>11 DEF PoolInv

LEMMA ShapeHead ==
    ASSUME NEW s \in Seq(Ops), s # <<>>, Shape(s)
    PROVE  /\ Head(s) = "log" => {"pipe", "log"} \cap Range(Tail(s)) = {}
           /\ Head(s) = "done" => "done" \notin Range(Tail(s))
<1>1. OnceIn(s, {"log", "done"})
  BY DEF Shape
<1>2. Head(s) \in {"log", "done"} => Head(s) \notin Range(Tail(s))
  BY <1>1, OnceTail
<1>3. ASSUME Head(s) = "log", "pipe" \in Range(Tail(s)) PROVE FALSE
  <2> DEFINE t == Tail(s)
             n == Len(s)
  <2>1. /\ n \in Nat \ {0} /\ Len(t) = n - 1 /\ t \in Seq(Ops) /\ s[1] = "log"
        /\ \A i \in 1 .. n - 1 : t[i] = s[i + 1]
        /\ DOMAIN s = 1 .. n
    BY <1>3, TailRange
  <2>2. PICK i \in 1 .. n - 1 : t[i] = "pipe"
    BY <1>3, <2>1 DEF Range
  <2>3. s[n] = "wake"
    BY DEF Shape
  <2> HIDE DEF t
  <2>4. i + 1 \in 1 .. n /\ s[i + 1] = "pipe" /\ i + 1 # n
    BY <2>1, <2>2, <2>3
  <2>5. 1 \in DOMAIN s /\ i + 1 \in DOMAIN s /\ 1 < i + 1 /\ i + 1 < Len(s)
    BY <2>1, <2>4
  <2>6. s[i + 1] \in {"log", "done", "close"}
    BY <2>1, <2>5 DEF Shape
  <2> QED BY <2>4, <2>6
<1> QED BY <1>2, <1>3

\* The worker appends the log entry, or the call of done().
LEMMA PushPool ==
    ASSUME TypeFacts, TypeFacts', ShapeInv, PoolInv, NEW w \in Workers, Push(w)
    PROVE  PoolInv'
<1> DEFINE m == Head(script[w])
           r == serving[w]
           c == ChannelOf(r)
           e == <<m, r>>
           t == Tail(script[w])
<1>1. /\ script[w] \in Seq(Ops) /\ Shape(script[w]) /\ script[w] # <<>>
      /\ m \in {"write", "log", "done", "close"} /\ r \in Requests
  BY DEF Push, TypeFacts, ShapeInv
<1>2. /\ fifo' = [fifo EXCEPT ![c] = Append(@, IF m = "close" THEN CloseMark ELSE e)]
      /\ script' = [script EXCEPT ![w] = t]
      /\ UNCHANGED <<open, closed, current, backlog, working, pool, logged, arrived>>
  BY DEF Push, Advance, ServedOn, input
<1>3. /\ Range(script[w]) = Range(t) \cup {m}
      /\ m = "log" => {"pipe", "log"} \cap Range(t) = {}
      /\ m = "done" => "done" \notin Range(t)
  BY <1>1, TailRange, ShapeHead
<1>4. script'[w] = t /\ \A v \in Workers : v # w => script'[v] = script[v]
  BY <1>2 DEF TypeFacts
<1>5. r \in Handed /\ Read(r) /\ Kind[r] \in Good /\ c \in Channels
  BY <1>1, NamesAssumption, PlaceOf DEF PoolInv, PlaceInv, Handed
<1>6. e \in Elements \/ m = "close"
  BY <1>1, ElementsAre
<1>7. m # "close" => e[1] = m /\ e[2] = r /\ e # CloseMark
  BY <1>1, ElementsAre
<1>8. \A q \in Requests : Read(q)' <=> Read(q)
  BY <1>2 DEF Read
<1> HIDE DEF t
<1>9. CASE m \in {"write", "close"}
  <2> DEFINE x == IF m = "close" THEN CloseMark ELSE e
  <2>1. x \in Elements /\ fifo' = [fifo EXCEPT ![c] = Append(@, x)]
    BY <1>2, <1>6, ElementsAre
  <2>2. x # CloseMark => x[1] = "write" /\ ChannelOf(x[2]) = c /\ Read(x[2]) /\ x[2] \in Handed
    BY <1>5, <1>7, <1>9
  <2>3. \A v \in Workers : \A op \in {"pipe", "log", "done"} :
           op \in Range(script'[v]) <=> op \in Range(script[v])
    BY <1>3, <1>4, <1>9
  <2>4. /\ \A v \in Workers : \A op \in {"pipe", "log", "done"} :
              op \in Range(script'[v]) => op \in Range(script[v])
        /\ \A v \in Workers :
              "done" \in Range(script[v]) \ Range(script'[v]) => closed[ServedOn(v)]
    BY <2>3
  <2> HIDE DEF x, c, e, m, r
  <2> QED BY <1>2, <1>5, <1>8, <2>1, <2>2, <2>4, Harmless
<1>10. CASE m \in {"log", "done"}
  <2>1. /\ e \in Elements /\ e[1] = m /\ e[2] = r /\ e # CloseMark
        /\ fifo' = [fifo EXCEPT ![c] = Append(@, e)]
    BY <1>2, <1>6, <1>7, <1>10
  <2>2. /\ m = "log" => logged[r] = 0 /\ ~Marked(r)
        /\ m = "done" => e \notin Range(fifo[c])
    BY <1>3 DEF PoolInv, LogInv, MarkInv, ServedOn
  <2>3. e \notin Range(fifo[c])
    BY <1>10, <2>2 DEF Marked
  <2>4. \A d \in Channels : /\ fifo[d] \in Seq(Elements) /\ Range(fifo[d]) \subseteq Elements
                           /\ OnceIn(fifo[d], OnceMarks)
    BY ListRange DEF TypeFacts, PoolInv, MarkInv
  <2>5. /\ serving' = serving /\ queue' = queue /\ Handed' = Handed
        /\ \A v \in Workers : v # w => serving[v] # r
        /\ \A v \in Workers : Range(script[v]) # {} => serving[v] \in Requests
    BY <1>1, <1>2, NamesAssumption, EmptyList DEF pool, Handed, PoolInv, PlaceInv, TypeFacts
  <2>6. PICK q \in Requests, d \in Channels, o \in {"log", "done"} :
           q = r /\ d = c /\ o = m /\ d = ChannelOf(q) /\ e = <<o, q>>
    BY <1>1, <1>5, <1>10
  <2> HIDE DEF e, c, r, m
  <2>7. /\ Range(fifo'[d]) = Range(fifo[d]) \cup {e} /\ OnceIn(fifo'[d], OnceMarks)
        /\ \A x \in Channels : x # d => fifo'[x] = fifo[x]
    <3>1. fifo'[d] = Append(fifo[d], e)
      BY <2>1, <2>6 DEF TypeFacts
    <3>2. /\ Range(Append(fifo[d], e)) = Range(fifo[d]) \cup {e}
          /\ OnceIn(Append(fifo[d], e), OnceMarks)
      BY <2>1, <2>3, <2>4, <2>6, AppendRange, OnceAppend
    <3>3. \A x \in Channels : x # d => fifo'[x] = fifo[x]
      BY <2>1, <2>6 DEF TypeFacts
    <3> QED BY <3>1, <3>2, <3>3
  <2>8. \A x \in Channels : \A y \in Range(fifo'[x]) : y \in Range(fifo[x]) \/ (y = e /\ x = d)
    BY <2>7
  <2>9. \A k \in {"log", "reply", "done"} : \A p \in Requests : \A x \in Channels :
           <<k, p>> \in Range(fifo'[x])
              <=> <<k, p>> \in Range(fifo[x]) \/ (k = o /\ p = q /\ x = d)
    <3>1. \A k \in {"log", "reply", "done"} : \A p \in Requests : <<k, p>> = e <=> k = o /\ p = q
      BY <2>6, ElementsAre
    <3> QED BY <2>7, <3>1
  <2>10. PlaceInv'
    <3>1. UNCHANGED <<backlog, current, pool>>
      BY <1>2
    <3> QED BY <1>8, <3>1, PlacesKept DEF PoolInv
  <2>11. MarkInv'
    <3>1. ASSUME NEW x \in Channels, NEW y \in Range(fifo'[x]), y # CloseMark
          PROVE  /\ ChannelOf(y[2]) = x /\ Read(y[2])
                 /\ y[1] = "reply" => Kind[y[2]] \notin Good
                 /\ y[1] # "reply" => y[2] \in Handed
      <4>1. CASE y \in Range(fifo[x])
        BY <3>1, <4>1 DEF PoolInv, MarkInv
      <4>2. CASE y = e /\ x = d
        BY <1>5, <2>1, <2>6, <4>2
      <4> QED BY <2>8, <3>1, <4>1, <4>2
    <3>2. \A x \in Channels : OnceIn(fifo'[x], OnceMarks)
      BY <2>4, <2>7
    <3>3. ASSUME NEW v \in Workers, "done" \in Range(script'[v])
          PROVE  <<"done", serving[v]>> \notin Range(fifo'[ServedOn(v)])
      <4>1. "done" \in Range(script[v]) /\ (v = w => o # "done")
        BY <1>3, <1>4, <2>6, <3>3
      <4>2. serving[v] \in Requests /\ ServedOn(v) \in Channels
        BY <2>5, <4>1, PlaceOf DEF ServedOn
      <4>3. v = w \/ serving[v] # q
        BY <2>5, <2>6
      <4>4. <<"done", serving[v]>> \notin Range(fifo[ServedOn(v)])
        BY <4>1 DEF PoolInv, MarkInv
      <4> QED BY <2>9, <4>1, <4>2, <4>3, <4>4
    <3>4. \A v \in Workers : ServedOn(v)' = ServedOn(v)
      BY <2>5 DEF ServedOn
    <3>5. \A x : Read(x)' <=> Read(x)
      BY <1>2 DEF Read
    <3> QED BY <2>5, <3>1, <3>2, <3>3, <3>4, <3>5 DEF MarkInv
  <2>12. \A p \in Requests : Marked(p)' <=> Marked(p) \/ (o = "log" /\ p = q)
    BY <2>6, <2>9, PlaceOf DEF Marked
  <2>13. LogInv'
    <3>1. \A v \in Workers : {"pipe", "log"} \cap Range(script'[v]) # {} =>
             /\ {"pipe", "log"} \cap Range(script[v]) # {} /\ serving[v] \in Requests
             /\ ~(o = "log" /\ serving[v] = q)
      <4>1. ASSUME NEW v \in Workers, {"pipe", "log"} \cap Range(script'[v]) # {}
            PROVE  {"pipe", "log"} \cap Range(script[v]) # {} /\ ~(v = w /\ o = "log")
        BY <1>3, <1>4, <2>6, <4>1
      <4> QED BY <2>5, <2>6, <4>1
    <3>2. o = "log" => logged[q] = 0
      BY <2>2, <2>6
    <3>3. logged' = logged
      BY <1>2
    <3> QED BY <1>8, <2>5, <2>12, <3>1, <3>2, <3>3 DEF PoolInv, LogInv
  <2>14. BusyInv'
    <3>1. \A v \in Workers : "done" \in Range(script'[v])
                <=> "done" \in Range(script[v]) /\ ~(v = w /\ o = "done")
      BY <1>3, <1>4, <2>6, <1>10
    <3>2. o = "done" => "done" \in Range(script[w])
      BY <1>3, <2>6
    <3>3. ASSUME NEW p \in Requests, ~(o = "done" /\ p = q) PROVE Undone(p)' <=> Undone(p)
      <4>1. <<"done", p>> \in Range(fifo'[ChannelOf(p)])
               <=> <<"done", p>> \in Range(fifo[ChannelOf(p)])
        BY <2>9, <3>3, PlaceOf
      <4>2. ASSUME NEW v \in Workers, serving[v] = p
            PROVE  "done" \in Range(script'[v]) <=> "done" \in Range(script[v])
        <5>1. v = w => p = q
          BY <4>2, <2>6 DEF r
        <5>2. ~(v = w /\ o = "done")
          BY <5>1, <3>3
        <5> QED BY <5>2, <3>1
      <4> QED BY <2>5, <4>1, <4>2 DEF Undone
    <3>4. o = "done" => Undone(q) /\ Undone(q)'
      <4>1. o = "done" => <<"done", q>> \in Range(fifo'[d])
        BY <2>9
      <4> QED BY <2>6, <3>2, <4>1 DEF Undone, r
    <3>5. \A p \in Requests : Undone(p)' <=> Undone(p)
      BY <3>3, <3>4
    <3> QED BY <1>2, <3>5 DEF PoolInv, BusyInv
  <2> QED BY <2>10, <2>11, <2>13, <2>14 DEF PoolInv
<1> QED BY <1>1, <1>9, <1>10

LEMMA LookPool ==
    ASSUME TypeFacts, TypeFacts', PoolInv, NEW w \in Workers,
           LookAtClosed(w) \/ Wakeup(w) \/ (ClosePipe(w) /\ ~closed[ServedOn(w)])
    PROVE  PoolInv'
<1>1. script[w] \in Seq(Ops) /\ script[w] # <<>> /\ serving[w] \in Requests
  BY DEF LookAtClosed, Wakeup, ClosePipe, Next1, TypeFacts
<1>2. /\ UNCHANGED <<open, closed, current, arrived, backlog, working, fifo, pool, logged>>
      /\ \/ script' = script
         \/ script' = [script EXCEPT ![w] = Tail(script[w])] /\ closed[ServedOn(w)]
         \/ /\ script' = [script EXCEPT ![w] = Tail(script[w])]
            /\ Head(script[w]) \in {"wake", "pipe"}
  <2>1. CASE LookAtClosed(w)
    BY <2>1 DEF LookAtClosed, Advance, input
  <2>2. CASE Wakeup(w)
    BY <2>2 DEF Wakeup, Next1, Advance, input
  <2>3. CASE ClosePipe(w) /\ ~closed[ServedOn(w)]
    BY <2>3 DEF ClosePipe, Next1, Advance, input
  <2> QED BY <2>1, <2>2, <2>3
<1>3. Range(script[w]) = Range(Tail(script[w])) \cup {Head(script[w])}
  BY <1>1, TailRange
<1>4. /\ \A v \in Workers : v # w => script'[v] = script[v]
      /\ \/ script'[w] = script[w]
         \/ script'[w] = Tail(script[w]) /\ closed[ServedOn(w)]
         \/ script'[w] = Tail(script[w]) /\ Head(script[w]) \in {"wake", "pipe"}
  BY <1>2 DEF TypeFacts
<1>5. /\ \A v \in Workers : \A op \in {"pipe", "log", "done"} :
            op \in Range(script'[v]) => op \in Range(script[v])
      /\ \A v \in Workers :
            "done" \in Range(script[v]) \ Range(script'[v]) => closed[ServedOn(v)]
  BY <1>3, <1>4
<1>6. \A r \in Requests : Read(r) => Read(r)'
  BY <1>2 DEF Read
<1>7. CloseMark \in Elements /\ ServedOn(w) \in Channels
  BY <1>1, ElementsAre, PlaceOf DEF ServedOn
<1> QED BY <1>2, <1>5, <1>6, <1>7, Harmless

\* The channel is closed: the worker logs the request itself.
LEMMA PipeClosedPool ==
    ASSUME TypeFacts, TypeFacts', PoolInv, NEW w \in Workers, ClosePipe(w), closed[ServedOn(w)]
    PROVE  PoolInv'
<1>1. PICK r \in Requests : r = serving[w]
  BY DEF ClosePipe, Next1, TypeFacts
<1>2. /\ script[w] \in Seq(Ops) /\ script[w] # <<>> /\ Head(script[w]) = "pipe"
      /\ logged' = [logged EXCEPT ![r] = logged[r] + 1]
      /\ script' = [script EXCEPT ![w] = <<"wake">>]
      /\ UNCHANGED <<open, closed, arrived, current, backlog, working, fifo, pool>>
  BY <1>1 DEF ClosePipe, Next1, input, TypeFacts
<1>3. "pipe" \in Range(script[w])
  BY <1>2, TailRange
<1>4. /\ \A v \in Workers : v # w => script'[v] = script[v]
      /\ Range(script'[w]) = {"wake"}
  BY <1>2, ShapeWake DEF TypeFacts
<1>5. logged[r] = 0 /\ ~Marked(r)
  BY <1>1, <1>3 DEF PoolInv, LogInv
<1>6. r \in Handed /\ Read(r) /\ closed[ChannelOf(r)]
  BY <1>1, NamesAssumption DEF PoolInv, PlaceInv, Handed, ServedOn
<1>7. logged'[r] = 1 /\ \A q \in Requests : q # r => logged'[q] = logged[q]
  BY <1>2, <1>5 DEF TypeFacts
<1>8. /\ \A q : Read(q)' <=> Read(q)
      /\ \A q : Marked(q)' <=> Marked(q)
      /\ serving' = serving /\ queue' = queue /\ Handed' = Handed
      /\ \A v \in Workers : ServedOn(v)' = ServedOn(v)
  BY <1>2 DEF Read, Marked, pool, Handed, ServedOn
<1>9. /\ \A v \in Workers : v # w => serving[v] # r
      /\ \A v \in Workers : Range(script[v]) # {} => serving[v] \in Requests
  BY <1>1, NamesAssumption, EmptyList DEF PoolInv, PlaceInv, TypeFacts
<1>10. PlaceInv'
  <2>1. \A q \in Requests : Read(q) => Read(q)'
    BY <1>8
  <2> QED BY <1>2, <2>1, PlacesKept DEF PoolInv
<1>11. MarkInv'
  BY <1>2, <1>4, <1>8 DEF PoolInv, MarkInv
<1>12. LogInv'
  <2>1. \A v \in Workers : {"pipe", "log"} \cap Range(script'[v]) # {} =>
           v # w /\ serving[v] # r /\ serving[v] \in Requests /\ script'[v] = script[v]
    BY <1>4, <1>9
  <2> QED BY <1>5, <1>6, <1>7, <1>8, <2>1 DEF PoolInv, LogInv
<1>13. BusyInv'
  <2>1. ASSUME NEW q \in Requests, ~closed[ChannelOf(q)] PROVE Undone(q)' <=> Undone(q)
    <3>1. \A v \in Workers : serving[v] = q => script'[v] = script[v]
      BY <1>1, <1>4, <1>6, <2>1
    <3> QED BY <1>2, <1>8, <3>1 DEF Undone
  <2> QED BY <1>2, <2>1 DEF PoolInv, BusyInv
<1> QED BY <1>10, <1>11, <1>12, <1>13 DEF PoolInv

LEMMA TakePool ==
    ASSUME TypeFacts, TypeFacts', PoolInv, NEW w \in Workers, TakeRequest(w)
    PROVE  PoolInv'
<1>1. PICK r \in Requests : /\ r = Head(queue) /\ queue # <<>>
                           /\ serving' = [serving EXCEPT ![w] = r]
                           /\ queue' = Tail(queue) /\ accepted' = accepted
                           /\ serving[w] = NoRequest
  BY Heads DEF TakeRequest, Pool!Take
<1>2. PICK n \in 1 .. MaxWrites :
         script' = [script EXCEPT ![w] = Writes(n) \o ClosingCalls(Kind[Head(queue)] = "last")]
  BY DEF TakeRequest
<1>3. /\ "done" \in Range(script'[w])
      /\ \A v \in Workers : v # w => script'[v] = script[v] /\ serving'[v] = serving[v]
      /\ script[w] = <<>> /\ serving'[w] = r
  <2>1. n \in Nat \ {0} /\ (Kind[Head(queue)] = "last") \in BOOLEAN
    BY MaxWritesAssumption
  <2>2. "done" \in Range(Writes(n) \o ClosingCalls(Kind[Head(queue)] = "last"))
    BY <2>1, ShapeStart
  <2> QED BY <1>1, <1>2, <2>2 DEF TypeFacts
<1>4. UNCHANGED <<open, closed, arrived, current, backlog, working, fifo, logged>>
  BY DEF TakeRequest, input
<1>5. /\ Range(queue) = Range(queue') \cup {r} /\ r \notin Range(queue')
      /\ OnceIn(queue', Requests)
  BY <1>1, TailRange, OnceTail DEF TypeFacts, PoolInv, PlaceInv
<1>6. Handed' = Handed \cup {r} /\ r \notin Handed /\ r \in accepted
  BY <1>1, <1>5 DEF Handed, PoolInv, PlaceInv
<1>7. /\ \A q : Read(q)' <=> Read(q)
      /\ \A q : Marked(q)' <=> Marked(q)
  BY <1>4 DEF Read, Marked
<1>8. PlaceInv'
  <2>1. \A v, u \in Workers : serving'[v] = serving'[u] /\ serving'[v] # NoRequest => v = u
    BY <1>1, <1>3, <1>6, NamesAssumption DEF PoolInv, PlaceInv
  <2>2. \A v \in Workers : serving'[v] # NoRequest => serving'[v] \in Handed'
    BY <1>3, <1>6 DEF PoolInv, PlaceInv
  <2>3. Range(queue') \subseteq accepted
    BY <1>5 DEF PoolInv, PlaceInv
  <2> QED BY <1>1, <1>4, <1>5, <1>7, <2>1, <2>2, <2>3 DEF PoolInv, PlaceInv
<1>9. \A m \in {"log", "reply", "done"} : <<m, r>> \notin Range(fifo[ChannelOf(r)])
  <2>1. ASSUME NEW m \in {"log", "reply", "done"}, <<m, r>> \in Range(fifo[ChannelOf(r)])
        PROVE  FALSE
    <3>1. <<m, r>> # CloseMark /\ <<m, r>>[1] = m /\ <<m, r>>[2] = r
      BY ElementsAre
    <3>2. /\ m = "reply" => Kind[r] \notin Good
          /\ m # "reply" => r \in Handed
      BY <2>1, <3>1, PlaceOf DEF PoolInv, MarkInv
    <3> QED BY <1>6, <3>2 DEF PoolInv, PlaceInv
  <2> QED BY <2>1
<1>10. \A v \in Workers : Range(script[v]) # {} => serving[v] \in Requests /\ v # w
  BY <1>1, EmptyList DEF TypeFacts
<1>11. MarkInv'
  <2>1. ASSUME NEW v \in Workers, "done" \in Range(script'[v])
        PROVE  <<"done", serving'[v]>> \notin Range(fifo[ChannelOf(serving'[v])])
    <3>1. CASE v = w
      BY <1>3, <1>9, <3>1
    <3>2. CASE v # w
      BY <1>3, <2>1, <3>2 DEF PoolInv, MarkInv, ServedOn
    <3> QED BY <3>1, <3>2
  <2> QED BY <1>4, <1>6, <1>7, <2>1 DEF PoolInv, MarkInv, ServedOn
<1>12. LogInv'
  <2>1. logged[r] = 0 /\ ~Marked(r)
    <3>1. Kind[r] \in Good
      BY <1>6 DEF PoolInv, PlaceInv
    <3> QED BY <1>6, <1>9, <3>1 DEF PoolInv, LogInv, Marked
  <2>2. ASSUME NEW v \in Workers, {"pipe", "log"} \cap Range(script'[v]) # {}
        PROVE  logged[serving'[v]] = 0 /\ ~Marked(serving'[v])
    <3>1. CASE v = w
      BY <1>3, <2>1, <3>1
    <3>2. CASE v # w
      BY <1>3, <2>2, <3>2 DEF PoolInv, LogInv
    <3> QED BY <3>1, <3>2
  <2>3. \A v \in Workers : {"pipe", "log"} \cap Range(script'[v]) # {} =>
           logged'[serving'[v]] = 0 /\ ~Marked(serving[v])'
    BY <1>4, <2>2 DEF Marked
  <2> QED BY <1>4, <1>6, <1>7, <2>3 DEF PoolInv, LogInv
<1>13. BusyInv'
  <2>1. ASSUME NEW q \in Requests PROVE Undone(q)' <=> Undone(q)
    <3>1. CASE q = r
      BY <1>1, <1>3, <1>5, <3>1 DEF Undone
    <3>2. CASE q # r
      <4>1. \A v \in Workers : (serving'[v] = q /\ "done" \in Range(script'[v]))
                               <=> (serving[v] = q /\ "done" \in Range(script[v]))
        BY <1>3, <1>10, <3>2
      <4> QED BY <1>4, <1>5, <3>2, <4>1 DEF Undone
    <3> QED BY <3>1, <3>2
  <2> QED BY <1>4, <2>1 DEF PoolInv, BusyInv
<1> QED BY <1>8, <1>11, <1>12, <1>13 DEF PoolInv

LEMMA FinishedPool ==
    ASSUME TypeFacts, TypeFacts', PoolInv, NEW w \in Workers, Finished(w)
    PROVE  PoolInv'
<1>1. /\ script[w] = <<>> /\ script' = script
      /\ serving' = [serving EXCEPT ![w] = NoRequest] /\ queue' = queue /\ accepted' = accepted
      /\ UNCHANGED <<open, closed, arrived, current, backlog, working, fifo, logged>>
  BY DEF Finished, Pool!Finish, pipe, input
<1>2. \A v \in Workers : serving'[v] = IF v = w THEN NoRequest ELSE serving[v]
  BY <1>1 DEF TypeFacts
<1>3. /\ \A q : Read(q)' <=> Read(q)
      /\ \A q : Marked(q)' <=> Marked(q)
      /\ Handed' = Handed
  BY <1>1 DEF Read, Marked, Handed
<1>4. \A v \in Workers : Range(script[v]) # {} => v # w /\ serving'[v] = serving[v]
  BY <1>1, <1>2, EmptyList
<1>5. PlaceInv'
  BY <1>1, <1>2, <1>3 DEF PoolInv, PlaceInv
<1>6. MarkInv'
  BY <1>1, <1>3, <1>4 DEF PoolInv, MarkInv, ServedOn
<1>7. LogInv'
  <2>1. \A v \in Workers : {"pipe", "log"} \cap Range(script[v]) # {} =>
           serving'[v] = serving[v] /\ Marked(serving[v])' = Marked(serving[v])
    BY <1>1, <1>4 DEF Marked
  <2> QED BY <1>1, <1>3, <2>1 DEF PoolInv, LogInv
<1>8. BusyInv'
  <2>1. \A q \in Requests : Undone(q)' <=> Undone(q)
    <3>1. \A q \in Requests : \A v \in Workers :
             (serving'[v] = q /\ "done" \in Range(script[v]))
                <=> (serving[v] = q /\ "done" \in Range(script[v]))
      BY <1>4
    <3> QED BY <1>1, <3>1 DEF Undone
  <2> QED BY <1>1, <2>1 DEF PoolInv, BusyInv
<1> QED BY <1>5, <1>6, <1>7, <1>8 DEF PoolInv

\* A step that moves nothing between the places.
LEMMA Elsewhere ==
    ASSUME PoolInv,
           UNCHANGED <<open, closed, input, backlog, working, fifo, pool, script, logged>>
    PROVE  PoolInv'
<1>1. \A r : /\ Read(r)' <=> Read(r)
             /\ Marked(r)' <=> Marked(r)
             /\ Undone(r)' <=> Undone(r)
  BY DEF Read, Marked, Undone, input, pool
<1>2. Handed' = Handed /\ \A w \in Workers : ServedOn(w)' = ServedOn(w)
  BY DEF Handed, ServedOn, pool
<1> QED BY <1>1, <1>2 DEF PoolInv, PlaceInv, MarkInv, LogInv, BusyInv, input, pool

LEMMA NextPool == TypeInv /\ TypeInv' /\ ShapeInv /\ PoolInv /\ [Next]_vars => PoolInv'
<1> SUFFICES ASSUME TypeFacts, TypeFacts', ShapeInv, PoolInv, [Next]_vars PROVE PoolInv'
  <2>1. TypeInv' => TypeFacts'
    BY TypeInvIs, PTL
  <2> QED BY <2>1, TypeInvIs
<1>1. CloseMark \in Elements
  BY ElementsAre
<1>2. ASSUME NEW c \in Channels,
             fifo' = fifo \/ fifo' = [fifo EXCEPT ![c] = Append(@, CloseMark)],
             UNCHANGED <<open, closed, input, backlog, working, pool, logged, script>>
      PROVE  PoolInv'
  <2>1. \A r \in Requests : Read(r) => Read(r)'
    BY <1>2 DEF Read, input
  <2> QED BY <1>1, <1>2, <2>1, Harmless DEF input
<1>4. CASE UNCHANGED vars
  BY <1>4, Elsewhere DEF vars, pipe
<1>5. CASE Poll \/ HandleTrigger \/ EndRead \/ \E c \in Channels : HandleWrite(c)
  BY <1>5, Elsewhere DEF Poll, HandleTrigger, EndRead, HandleWrite, pipe
<1>6. CASE Accepting
  <2>1. PICK c \in Channels, zombies \in SUBSET open : AcceptConnection(c, zombies)
    BY <1>6 DEF Accepting
  <2>2. /\ Close(zombies) /\ open' = (open \ zombies) \cup {c} /\ ~closed[c] /\ c \notin zombies
        /\ UNCHANGED <<arrived, pool, pipe>>
    BY <2>1 DEF AcceptConnection
  <2>3. zombies \in SUBSET Channels /\ {c} \in SUBSET Channels
    BY DEF TypeFacts
  <2> QED BY <2>2, <2>3, ClosePool
<1>7. ASSUME NEW c \in Channels, ReadFails(c) \/ SendClose(c) PROVE PoolInv'
  <2>1. /\ Close({c}) /\ open' = (open \ {c}) \cup {} /\ {c} \in SUBSET Channels
        /\ {} \in SUBSET Channels /\ UNCHANGED <<arrived, pool, pipe>>
    BY <1>7 DEF ReadFails, SendClose
  <2> QED BY <2>1, ClosePool
<1>8. ASSUME NEW c \in Channels, Reading(c) PROVE PoolInv'
  BY <1>7, <1>8, GetPool, PostPool, BodyPool, ErrorPool, BlankPool DEF Reading
<1>9. ASSUME NEW c \in Channels, Sending(c) PROVE PoolInv'
  <2>1. ASSUME SendPiece(c) PROVE PoolInv'
    <3>1. Head1(c) \in {"write", "reply"} /\ fifo[c] # <<>>
      BY <2>1 DEF SendPiece
    <3>2. logged' = IF Head1(c) = "write" THEN logged
                    ELSE [logged EXCEPT ![Head(fifo[c])[2]] = @ + 1]
      BY <2>1, <3>1 DEF SendPiece, TypeFacts
    <3>3. /\ \/ fifo' = [fifo EXCEPT ![c] = Tail(fifo[c])]
             \/ fifo' = [fifo EXCEPT ![c] = Append(Tail(fifo[c]), CloseMark)]
          /\ UNCHANGED <<open, closed, input, backlog, working, pool, script>>
      BY <2>1 DEF SendPiece, EndSend, pipe
    <3> QED BY <3>1, <3>2, <3>3, SentPool
  <2>2. ASSUME SendLog(c) PROVE PoolInv'
    <3>1. Head1(c) = "log" /\ fifo[c] # <<>>
      BY <2>2 DEF SendLog
    <3>2. logged' = IF Head1(c) = "write" THEN logged
                    ELSE [logged EXCEPT ![Head(fifo[c])[2]] = @ + 1]
      BY <2>2, <3>1 DEF SendLog
    <3>3. /\ fifo' = [fifo EXCEPT ![c] = Tail(fifo[c])]
          /\ UNCHANGED <<open, closed, input, backlog, working, pool, script>>
      BY <2>2 DEF SendLog, pipe
    <3> QED BY <3>1, <3>2, <3>3, SentPool
  <2>3. ASSUME SendBlocks(c) \/ SendEmpty(c) PROVE PoolInv'
    <3>1. UNCHANGED <<open, closed, input, backlog, working, pool, logged, script>>
      BY <2>3 DEF SendBlocks, SendEmpty, pipe
    <3>2. \E f : /\ f = fifo[c]
                 /\ fifo' = [fifo EXCEPT ![c] = IF thenClose THEN Append(f, CloseMark) ELSE f]
      BY <2>3 DEF SendBlocks, SendEmpty, EndSend
    <3>3. fifo' = fifo \/ fifo' = [fifo EXCEPT ![c] = Append(@, CloseMark)]
      <4>1. CASE thenClose
        BY <3>2, <4>1
      <4>2. CASE ~thenClose
        BY <3>2, <4>2 DEF TypeFacts
      <4> QED BY <4>1, <4>2
    <3> QED BY <1>2, <3>1, <3>3
  <2> QED BY <1>7, <1>9, <2>1, <2>2, <2>3, DonePool DEF Sending
<1>10. ASSUME NEW w \in Workers, Working(w) PROVE PoolInv'
  BY <1>10, TakePool, LookPool, PushPool, PipeClosedPool, FinishedPool DEF Working
<1> QED BY <1>4, <1>5, <1>6, <1>8, <1>9, <1>10 DEF Next, Events

LEMMA InitPool == Init => PoolInv
<1> SUFFICES ASSUME Init PROVE PoolInv
  OBVIOUS
<1>1. /\ queue = <<>> /\ accepted = {} /\ Range(queue) = {} /\ OnceIn(queue, Requests)
      /\ \A w \in Workers : serving[w] = NoRequest /\ script[w] = <<>> /\ Range(script[w]) = {}
      /\ \A c \in Channels : /\ fifo[c] = <<>> /\ backlog[c] = <<>> /\ current[c] = NoRequest
                           /\ ~working[c] /\ Range(fifo[c]) = {} /\ Range(backlog[c]) = {}
                           /\ OnceIn(fifo[c], OnceMarks) /\ OnceIn(backlog[c], Requests)
      /\ open = {} /\ \A r \in Requests : logged[r] = 0
  BY EmptyList DEF Init, Pool!Init
<1>2. \A r \in Requests : ~Undone(r)
  BY <1>1, PlaceOf, EmptyList DEF Undone
<1> QED BY <1>1, <1>2 DEF PoolInv, PlaceInv, MarkInv, LogInv, BusyInv

LEMMA OneAtATime == TypeInv /\ PoolInv => OneRequestAtATime
<1> SUFFICES ASSUME TypeFacts, PoolInv PROVE OneRequestAtATime
  BY TypeInvIs
<1>1. ASSUME NEW c \in open
      PROVE  Cardinality({r \in Requests : ChannelOf(r) = c /\ Undone(r)})
                = IF working[c] THEN 1 ELSE 0
  <2> DEFINE F == {r \in Requests : ChannelOf(r) = c /\ Undone(r)}
  <2>1. /\ working[c] <=> \E r \in F : TRUE
        /\ \A r, q \in F : r = q
    BY DEF PoolInv, BusyInv, TypeFacts
  <2>2. CASE working[c]
    <3>1. PICK r \in F : TRUE
      BY <2>1, <2>2
    <3>2. F = {r}
      BY <2>1, <3>1
    <3> QED BY <2>2, <3>2, FS_Singleton
  <2>3. CASE ~working[c]
    <3>1. F = {}
      BY <2>1, <2>3
    <3> QED BY <2>3, <3>1, FS_EmptySet
  <2> QED BY <2>2, <2>3
<1>2. \A r \in Requests : logged[r] <= 1
  BY DEF PoolInv, LogInv
<1> QED BY <1>1, <1>2 DEF OneRequestAtATime

LEMMA InitInv == Init => TypeInv /\ ShapeInv /\ PoolInv
<1>1. Init => ShapeInv
  BY ShapeWake DEF Init, ShapeInv
<1> QED BY <1>1, InitType, TypeInvIs, InitPool

LEMMA Invariance == Spec => []IInv
<1>1. Init => IInv
  BY InitInv, InitWake DEF IInv
<1>2. IInv /\ [Next]_vars => IInv'
  <2> SUFFICES ASSUME IInv, [Next]_vars PROVE IInv'
    OBVIOUS
  <2>1. TypeInv' /\ ShapeInv' /\ WakeInv'
    BY NextType, NextShape, NextWake DEF IInv
  <2>2. PoolInv'
    BY <2>1, NextPool DEF IInv
  <2> QED BY <2>1, <2>2 DEF IInv
<1> QED BY <1>1, <1>2, PTL DEF Spec

\* While the main thread sleeps in select, every open channel with output is watched
\* for writing, or the trigger is pulled, or the worker that appended pulls it next.
THEOREM NoWakeupIsLost == Spec => []NoLostWakeup
<1>1. IInv => NoLostWakeup
  BY DEF IInv, WakeInv
<1> QED BY <1>1, Invariance, PTL

\* channel.working says exactly whether one of the channel's requests is at the pool,
\* there is never a second, and no request is written to the access log twice.
THEOREM OneRequest == Spec => []OneRequestAtATime
<1>1. IInv => OneRequestAtATime
  BY OneAtATime DEF IInv
<1> QED BY <1>1, Invariance, PTL

-----------------------------------------------------------------------------
(* The order of the answers.  The requests of an orderly connection leave its *)
(* list one by one, and a response leaves before the next request does.       *)

\* The place of the request of c that was last given to the pool.
Given(c) == arrived[c] - Len(backlog[c]) - IF current[c] = NoRequest THEN 0 ELSE 1

\* The worker that has r will still make this call.
Will(r, op) == \E w \in Workers : serving[w] = r /\ op \in Range(script[w])

\* Of the response to r, a piece has yet to be sent.
Ahead(r) ==
    \/ r \in Range(queue)
    \/ Will(r, "write")
    \/ <<"write", r>> \in Range(fifo[ChannelOf(r)])

\* No piece of a response waits behind a done().
DoneLast(s) ==
    \A i, j \in DOMAIN s : s[i][1] = "done" /\ s[j][1] = "write" => j < i

InOrder(c) ==
    /\ current[c] # NoRequest => Place(current[c]) = arrived[c]
    /\ \A i \in DOMAIN backlog[c] : Place(backlog[c][i]) = Given(c) + i
    /\ \A r \in Requests : ChannelOf(r) = c /\ Undone(r) => Place(r) = Given(c)
    /\ \A r \in Requests : <<"write", r>> \in Range(fifo[c]) => Undone(r)
    /\ DoneLast(fifo[c])
    /\ \/ Turn[c] = Given(c)
       \/ /\ Turn[c] = Given(c) - 1
          /\ \E r \in Requests : ChannelOf(r) = c /\ Ahead(r)

OrderInv ==
    /\ sending \in Orderly => sending \in open
    /\ \A c \in Orderly : ~closed[c] => InOrder(c)

LEMMA DoneLastSteps ==
    ASSUME NEW s \in Seq(Elements), DoneLast(s)
    PROVE  /\ s # <<>> => DoneLast(Tail(s))
           /\ \A e \in Elements : e[1] # "write" => DoneLast(Append(s, e))
           /\ \A e \in Elements :
                 (\A x \in Range(s) : x[1] # "done") => DoneLast(Append(s, e))
           /\ s # <<>> /\ Head(s)[1] = "done" => \A x \in Range(s) : x[1] # "write"
<1>1. /\ Len(s) \in Nat /\ DOMAIN s = 1 .. Len(s)
      /\ \A i \in 1 .. Len(s) : s[i] \in Range(s)
      /\ \A x \in Range(s) : \E i \in 1 .. Len(s) : s[i] = x
  BY ListRange
<1>2. ASSUME s # <<>> PROVE DoneLast(Tail(s))
  <2>1. /\ Len(Tail(s)) = Len(s) - 1 /\ Tail(s) \in Seq(Elements)
        /\ \A i \in 1 .. Len(Tail(s)) : Tail(s)[i] = s[i + 1]
    BY <1>2, TailRange
  <2>2. DOMAIN Tail(s) = 1 .. Len(s) - 1
    BY <2>1
  <2> QED BY <1>1, <2>1, <2>2 DEF DoneLast
<1>3. ASSUME NEW e \in Elements, e[1] # "write" \/ \A x \in Range(s) : x[1] # "done"
      PROVE  DoneLast(Append(s, e))
  <2>1. /\ Append(s, e) \in Seq(Elements) /\ Len(Append(s, e)) = Len(s) + 1
        /\ \A i \in 1 .. Len(s) : Append(s, e)[i] = s[i]
        /\ Append(s, e)[Len(s) + 1] = e
    BY AppendRange
  <2>2. DOMAIN Append(s, e) = 1 .. Len(s) + 1
    BY <1>1, <2>1
  <2> QED BY <1>1, <1>3, <2>1, <2>2 DEF DoneLast
<1>4. ASSUME s # <<>>, Head(s)[1] = "done", NEW x \in Range(s), x[1] = "write" PROVE FALSE
  <2>1. PICK i \in 1 .. Len(s) : s[i] = x
    BY <1>1
  <2>2. Head(s) = s[1] /\ 1 \in 1 .. Len(s)
    BY <1>1, <1>4, TailRange
  <2> QED BY <1>1, <1>4, <2>1, <2>2 DEF DoneLast
<1> QED BY <1>2, <1>3, <1>4

LEMMA OrderlyIs ==
    ASSUME NEW c \in Orderly
    PROVE  /\ c \in Channels
           /\ \A r \in Requests : ChannelOf(r) = c => Kind[r] \in Good
<1>1. c \in Channels /\ \A r \in Range(Pipeline[c]) : Kind[r] \in Good
  BY DEF Orderly, Good
<1>2. \A r \in Requests : ChannelOf(r) = c => r \in Range(Pipeline[c])
  BY PlaceOf DEF Range
<1> QED BY <1>1, <1>2

LEMMA TurnIs ==
    ASSUME NEW c \in Orderly
    PROVE  /\ Turn[c] = IF sent[c] = <<>> THEN 0 ELSE Place(Last(sent[c]))
           /\ Turn'[c] = IF sent'[c] = <<>> THEN 0 ELSE Place(Last(sent'[c]))
BY DEF Turn

LEMMA UndoneIs ==
    \A r \in Requests :
       Undone(r) <=> \/ r \in Range(queue)
                     \/ Will(r, "done")
                     \/ <<"done", r>> \in Range(fifo[ChannelOf(r)])
BY DEF Undone, Will

\* The request last given to the pool stays the same, and pieces that are sent or on
\* their way are of its response.
LEMMA OrderKept ==
    ASSUME NEW c \in Orderly, InOrder(c), sent'[c] = sent[c], Given(c)' = Given(c),
           current'[c] # NoRequest => Place(current'[c]) = arrived'[c],
           \A i \in DOMAIN backlog'[c] : Place(backlog'[c][i]) = Given(c) + i,
           \A r \in Requests : ChannelOf(r) = c =>
              (Undone(r)' <=> Undone(r)) /\ (Ahead(r) => Ahead(r)'),
           \A r \in Requests : <<"write", r>> \in Range(fifo'[c]) => ChannelOf(r) = c /\ Undone(r),
           DoneLast(fifo'[c])
    PROVE  InOrder(c)'
<1>1. Turn'[c] = Turn[c]
  BY TurnIs
<1>2. \A r \in Requests : ChannelOf(r) = c /\ Undone(r)' => Place(r) = Given(c)
  BY DEF InOrder
<1>3. \A r \in Requests : <<"write", r>> \in Range(fifo'[c]) => Undone(r)'
  OBVIOUS
<1>4. \/ Turn'[c] = Given(c)
      \/ /\ Turn'[c] = Given(c) - 1
         /\ \E r \in Requests : ChannelOf(r) = c /\ Ahead(r)'
  BY <1>1 DEF InOrder
<1> QED BY <1>2, <1>3, <1>4 DEF InOrder

LEMMA WritesAre ==
    ASSUME PoolInv, NEW c \in Orderly, InOrder(c)
    PROVE  \A r \in Requests :
              <<"write", r>> \in Range(fifo[c]) => ChannelOf(r) = c /\ Undone(r)
BY OrderlyIs, ElementsAre DEF InOrder, PoolInv, MarkInv

\* A step that does nothing to c that its order depends on.
LEMMA OrderStays ==
    ASSUME TypeFacts, PoolInv, NEW c \in Orderly, InOrder(c),
           arrived'[c] = arrived[c], current'[c] = current[c], backlog'[c] = backlog[c],
           sent'[c] = sent[c],
           \A r \in Requests : ChannelOf(r) = c =>
              /\ r \in Range(queue') <=> r \in Range(queue)
              /\ \A op \in {"write", "done"} : Will(r, op)' <=> Will(r, op),
           \A r \in Requests : \A m \in {"write", "done"} :
              <<m, r>> \in Range(fifo'[c]) <=> <<m, r>> \in Range(fifo[c]),
           DoneLast(fifo'[c])
    PROVE  InOrder(c)'
<1>1. Given(c)' = Given(c)
  BY DEF Given
<1>2. \A r \in Requests : ChannelOf(r) = c => (Undone(r)' <=> Undone(r))
  <2>1. \A r \in Requests :
           Undone(r)' <=> \/ r \in Range(queue')
                          \/ Will(r, "done")'
                          \/ <<"done", r>> \in Range(fifo'[ChannelOf(r)])
    BY DEF Undone, Will
  <2> QED BY <2>1, UndoneIs
<1>3. \A r \in Requests : ChannelOf(r) = c => (Ahead(r) => Ahead(r)')
  BY DEF Ahead
<1>4. \A r \in Requests : <<"write", r>> \in Range(fifo[c]) => ChannelOf(r) = c /\ Undone(r)
  BY WritesAre
<1>5. /\ current[c] # NoRequest => Place(current[c]) = arrived[c]
      /\ \A i \in DOMAIN backlog[c] : Place(backlog[c][i]) = Given(c) + i
  BY DEF InOrder
<1> QED BY <1>1, <1>2, <1>3, <1>4, <1>5, OrderKept

\* As long as c is open, a response with a piece still to send is not done.
LEMMA AheadIsUndone ==
    ASSUME TypeFacts, ShapeInv, NEW c \in Orderly, InOrder(c),
           NEW r \in Requests, ChannelOf(r) = c, Ahead(r)
    PROVE  /\ Undone(r)
           /\ r \in Range(queue) \/ Will(r, "done") \/ <<"write", r>> \in Range(fifo[c])
<1>1. ASSUME NEW w \in Workers, "write" \in Range(script[w]) PROVE "done" \in Range(script[w])
  BY <1>1 DEF ShapeInv, Shape, Range
<1>2. Will(r, "write") => Will(r, "done")
  BY <1>1 DEF Will
<1> QED BY <1>2, UndoneIs DEF Ahead, InOrder

LEMMA GivenIs ==
    ASSUME TypeFacts, NEW c \in Channels
    PROVE  Given(c) \in Int /\ Len(backlog[c]) \in Nat /\ arrived[c] \in Nat
BY DEF TypeFacts, Given

\* The main thread does nothing for c, or sends its log entry, or is asked to close it.
LEMMA MainOrder ==
    ASSUME TypeFacts, PoolInv, NEW c \in Orderly, InOrder(c),
           UNCHANGED <<script, serving>>,
           arrived'[c] = arrived[c], current'[c] = current[c], backlog'[c] = backlog[c],
           sent'[c] = sent[c],
           \A r \in Requests : ChannelOf(r) = c => (r \in Range(queue') <=> r \in Range(queue)),
           \/ fifo'[c] = fifo[c]
           \/ fifo'[c] = Append(fifo[c], CloseMark)
           \/ fifo[c] # <<>> /\ Head(fifo[c])[1] = "log" /\ fifo'[c] = Tail(fifo[c])
    PROVE  InOrder(c)'
<1>1. /\ c \in Channels /\ fifo[c] \in Seq(Elements) /\ DoneLast(fifo[c])
      /\ CloseMark \in Elements /\ CloseMark[1] = "close"
  BY OrderlyIs, ElementsAre DEF TypeFacts, InOrder
<1>2. DoneLast(fifo'[c])
  BY <1>1, DoneLastSteps
<1>3. \A r \in Requests : \A m \in {"write", "done"} :
         <<m, r>> \in Range(fifo'[c]) <=> <<m, r>> \in Range(fifo[c])
  <2>1. ASSUME NEW r \in Requests, NEW m \in {"write", "done"}
        PROVE  <<m, r>> # CloseMark /\ <<m, r>>[1] = m
    BY ElementsAre
  <2>2. CASE fifo'[c] = fifo[c]
    BY <2>2
  <2>3. CASE fifo'[c] = Append(fifo[c], CloseMark)
    <3>1. Range(Append(fifo[c], CloseMark)) = Range(fifo[c]) \cup {CloseMark}
      BY <1>1, AppendRange
    <3> QED BY <2>1, <2>3, <3>1
  <2>4. CASE fifo[c] # <<>> /\ Head(fifo[c])[1] = "log" /\ fifo'[c] = Tail(fifo[c])
    <3>1. Range(fifo[c]) = Range(Tail(fifo[c])) \cup {Head(fifo[c])}
      BY <1>1, <2>4, TailRange
    <3> QED BY <2>1, <2>4, <3>1
  <2> QED BY <2>2, <2>3, <2>4
<1>4. \A r \in Requests : \A op \in {"write", "done"} : Will(r, op)' <=> Will(r, op)
  BY DEF Will
<1> QED BY <1>2, <1>3, <1>4, OrderStays

LEMMA WorkElsewhere ==
    ASSUME TypeFacts, NEW d \in Channels, NEW busy, NEW b \in Seq(Requests), Work(d, busy, b),
           \A q \in Range(b) : ChannelOf(q) = d
    PROVE  /\ serving' = serving
           /\ \A x \in Channels : x # d => backlog'[x] = backlog[x]
           /\ \A r \in Requests :
                 ChannelOf(r) # d => (r \in Range(queue') <=> r \in Range(queue))
<1>1. serving' = serving /\ \A x \in Channels : x # d => backlog'[x] = backlog[x]
  BY DEF Work, Pool!Submit, pool, TypeFacts
<1>2. CASE UNCHANGED pool
  BY <1>1, <1>2 DEF pool
<1>3. CASE b # <<>> /\ Pool!Submit(Head(b))
  <2>1. Head(b) \in Requests /\ ChannelOf(Head(b)) = d
    BY <1>3, TailRange
  <2>2. queue' = Append(queue, Head(b)) /\ queue \in Seq(Requests)
    BY <1>3 DEF Pool!Submit, TypeFacts
  <2>3. Range(queue') = Range(queue) \cup {Head(b)}
    BY <2>1, <2>2, AppendRange
  <2> QED BY <1>1, <2>1, <2>3
<1> QED BY <1>2, <1>3 DEF Work

\* Only requests of a channel are in its list, or have their body collected on it.
LEMMA ListIs ==
    ASSUME TypeFacts, PoolInv, NEW d \in Channels
    PROVE  /\ backlog[d] \in Seq(Requests)
           /\ \A q \in Range(backlog[d]) : ChannelOf(q) = d
           /\ \A r \in Requests : ChannelOf(r) = d =>
                 /\ Append(backlog[d], r) \in Seq(Requests)
                 /\ \A q \in Range(Append(backlog[d], r)) : ChannelOf(q) = d
           /\ current[d] # NoRequest => current[d] \in Requests /\ ChannelOf(current[d]) = d
<1>1. /\ backlog[d] \in Seq(Requests)
      /\ \A q \in Range(backlog[d]) : ChannelOf(q) = d
      /\ current[d] # NoRequest => current[d] \in Requests /\ ChannelOf(current[d]) = d
  BY DEF TypeFacts, PoolInv, PlaceInv
<1> QED BY <1>1, AppendRange

\* The main thread serves another channel.
LEMMA OtherOrder ==
    ASSUME TypeFacts, PoolInv, NEW c \in Orderly, InOrder(c), NEW d \in Channels, d # c,
           Reading(d) \/ Sending(d)
    PROVE  InOrder(c)'
<1>1. c \in Channels
  BY OrderlyIs
<1>2. UNCHANGED script
  BY DEF Reading, Sending, ReceiveGet, ReceivePost, ReceiveBody, ReceiveError, ReceiveBlank,
         ReadFails, SendPiece, SendBlocks, SendLog, SendDone, SendClose, SendEmpty, pipe
<1>3. arrived'[c] = arrived[c] /\ current'[c] = current[c]
  BY <1>1 DEF Reading, Sending, ReceiveGet, ReceivePost, ReceiveBody, ReceiveError,
         ReceiveBlank, ReadFails, SendPiece, SendBlocks, SendLog, SendDone, SendClose,
         SendEmpty, HeaderOf, Close, input, TypeFacts
<1>4. fifo'[c] = fifo[c] /\ sent'[c] = sent[c]
  BY <1>1 DEF Reading, Sending, ReceiveGet, ReceivePost, ReceiveBody, ReceiveError,
         ReceiveBlank, ReadFails, SendPiece, SendBlocks, SendLog, SendDone, SendClose,
         SendEmpty, EndSend, Close, TypeFacts
<1>5. /\ serving' = serving /\ backlog'[c] = backlog[c]
      /\ \A r \in Requests : ChannelOf(r) = c => (r \in Range(queue') <=> r \in Range(queue))
  <2>1. ASSUME NEW b \in Seq(Requests), NEW busy, Work(d, busy, b),
               \A q \in Range(b) : ChannelOf(q) = d
        PROVE  /\ serving' = serving /\ backlog'[c] = backlog[c]
               /\ \A r \in Requests :
                     ChannelOf(r) = c => (r \in Range(queue') <=> r \in Range(queue))
    BY <1>1, <2>1, WorkElsewhere
  <2>2. CASE ReceiveGet(d)
    <3>1. /\ NextRequest(d) \in Requests /\ ChannelOf(NextRequest(d)) = d
          /\ Work(d, working[d], Append(backlog[d], NextRequest(d)))
      BY <2>2, NextIsNew DEF ReceiveGet, HeaderOf, TypeFacts
    <3>2. PICK b \in Seq(Requests) : b = Append(backlog[d], NextRequest(d))
      BY <3>1, ListIs
    <3>3. \A q \in Range(b) : ChannelOf(q) = d
      BY <3>1, <3>2, ListIs
    <3>4. Work(d, working[d], b)
      BY <3>1, <3>2
    <3> QED BY <2>1, <3>3, <3>4
  <2>3. CASE ReceiveBody(d)
    <3>1. /\ current[d] \in Requests /\ ChannelOf(current[d]) = d
          /\ Work(d, working[d], Append(backlog[d], current[d]))
      BY <2>3, ListIs DEF ReceiveBody, CollectedRequest
    <3>2. PICK b \in Seq(Requests) : b = Append(backlog[d], current[d])
      BY <3>1, ListIs
    <3>3. \A q \in Range(b) : ChannelOf(q) = d
      BY <3>1, <3>2, ListIs
    <3>4. Work(d, working[d], b)
      BY <3>1, <3>2
    <3> QED BY <2>1, <3>3, <3>4
  <2>4. CASE SendDone(d)
    <3>1. Work(d, FALSE, backlog[d])
      BY <2>4 DEF SendDone, Done
    <3> QED BY <2>1, <3>1, ListIs
  <2>5. CASE ReadFails(d) \/ SendClose(d)
    BY <1>1, <2>5 DEF ReadFails, SendClose, Close, pool
  <2>6. CASE \/ ReceivePost(d) \/ ReceiveError(d) \/ ReceiveBlank(d) \/ SendPiece(d)
             \/ SendBlocks(d) \/ SendLog(d) \/ SendEmpty(d)
    BY <2>6 DEF ReceivePost, ReceiveError, ReceiveBlank, SendPiece, SendBlocks, SendLog,
                SendEmpty, pool
  <2> QED BY <2>2, <2>3, <2>4, <2>5, <2>6 DEF Reading, Sending
<1> QED BY <1>2, <1>3, <1>4, <1>5, MainOrder

LEMMA LoopOrder ==
    ASSUME TypeFacts, PoolInv, NEW c \in Orderly, InOrder(c), ~closed'[c],
           \/ Poll \/ Accepting \/ HandleTrigger \/ EndRead
           \/ \E d \in Channels : HandleWrite(d)
    PROVE  InOrder(c)'
<1>1. c \in Channels
  BY OrderlyIs
<1>2. CASE Poll \/ HandleTrigger \/ EndRead \/ \E d \in Channels : HandleWrite(d)
  BY <1>2, MainOrder DEF Poll, HandleTrigger, EndRead, HandleWrite, input, pool, pipe
<1>3. CASE Accepting
  <2>1. PICK d \in Channels, zombies \in SUBSET open : AcceptConnection(d, zombies)
    BY <1>3 DEF Accepting
  <2>2. c \notin zombies
    BY <1>1, <2>1 DEF AcceptConnection, Close
  <2>3. fifo'[c] = fifo[c] /\ current'[c] = current[c] /\ backlog'[c] = backlog[c]
    BY <1>1, <2>1, <2>2 DEF AcceptConnection, Close
  <2> QED BY <2>1, <2>3, MainOrder DEF AcceptConnection, pool, pipe
<1> QED BY <1>2, <1>3

\* work() on a channel none of whose requests is with the pool: the next one is given,
\* if there is one.
LEMMA WorkOrder ==
    ASSUME TypeFacts, NEW c \in Orderly, NEW b \in Seq(Requests), NEW g \in Int,
           Work(c, FALSE, b), script' = script, sent'[c] = sent[c],
           \A q \in Range(b) : ChannelOf(q) = c,
           \A i \in DOMAIN b : Place(b[i]) = g + i,
           arrived'[c] \in Nat,
           g = arrived'[c] - Len(b) - IF current'[c] = NoRequest THEN 0 ELSE 1,
           current'[c] # NoRequest => Place(current'[c]) = arrived'[c],
           Turn[c] = g,
           \A r \in Requests : ChannelOf(r) = c =>
              /\ r \notin Range(queue) /\ ~Will(r, "done")
              /\ <<"done", r>> \notin Range(fifo'[c]),
           \A r \in Requests : <<"write", r>> \notin Range(fifo'[c]),
           DoneLast(fifo'[c])
    PROVE  InOrder(c)'
<1>1. c \in Channels /\ Turn'[c] = g
  BY OrderlyIs, TurnIs
<1>2. serving' = serving
  BY DEF Work, Pool!Submit, pool
<1>3. \A r \in Requests : ChannelOf(r) = c => (Undone(r)' <=> r \in Range(queue'))
  <2>1. \A r \in Requests : Will(r, "done")' <=> Will(r, "done")
    BY <1>2 DEF Will
  <2>2. \A r \in Requests :
           Undone(r)' <=> \/ r \in Range(queue')
                          \/ Will(r, "done")'
                          \/ <<"done", r>> \in Range(fifo'[ChannelOf(r)])
    BY DEF Undone, Will
  <2> QED BY <2>1, <2>2
<1>4. CASE UNCHANGED pool /\ backlog'[c] = b
  <2>1. Given(c)' = g
    BY <1>4 DEF Given
  <2> QED BY <1>1, <1>3, <1>4, <2>1 DEF InOrder, pool
<1>5. CASE b # <<>> /\ Pool!Submit(Head(b)) /\ backlog'[c] = Tail(b)
  <2>1. PICK h \in Requests : h = Head(b) /\ h = b[1] /\ ChannelOf(h) = c
    BY <1>5, TailRange
  <2>2. /\ Tail(b) \in Seq(Requests) /\ Len(Tail(b)) = Len(b) - 1 /\ Len(b) \in Nat \ {0}
        /\ \A i \in 1 .. Len(Tail(b)) : Tail(b)[i] = b[i + 1]
    BY <1>5, TailRange
  <2>3. Given(c)' = g + 1
    <3>1. Given(c)' = arrived'[c] - Len(Tail(b)) - IF current'[c] = NoRequest THEN 0 ELSE 1
      BY <1>5 DEF Given
    <3>2. CASE current'[c] = NoRequest
      BY <2>2, <3>1, <3>2
    <3>3. CASE current'[c] # NoRequest
      BY <2>2, <3>1, <3>3
    <3> QED BY <3>2, <3>3
  <2>4. Range(queue') = Range(queue) \cup {h}
    <3>1. queue' = Append(queue, h) /\ queue \in Seq(Requests)
      BY <1>5, <2>1 DEF Pool!Submit, TypeFacts
    <3> QED BY <3>1, AppendRange
  <2>5. \A i \in DOMAIN backlog'[c] : Place(backlog'[c][i]) = Given(c)' + i
    <3>1. DOMAIN b = 1 .. Len(b) /\ DOMAIN Tail(b) = 1 .. Len(b) - 1
      BY <2>2
    <3>2. ASSUME NEW i \in 1 .. Len(b) - 1 PROVE Place(Tail(b)[i]) = (g + 1) + i
      <4>1. i + 1 \in DOMAIN b /\ Tail(b)[i] = b[i + 1]
        BY <2>2, <3>1
      <4>2. Place(b[i + 1]) = g + (i + 1)
        BY <4>1
      <4> QED BY <4>1, <4>2
    <3> QED BY <1>5, <2>3, <3>1, <3>2
  <2>6. Place(h) = Given(c)'
    <3>1. 1 \in DOMAIN b
      BY <2>2
    <3> QED BY <2>1, <2>3, <3>1
  <2>7. \A r \in Requests : ChannelOf(r) = c /\ Undone(r)' => Place(r) = Given(c)'
    BY <1>3, <2>4, <2>6
  <2>8. Ahead(h)' /\ Turn'[c] = Given(c)' - 1
    BY <1>1, <2>3, <2>4 DEF Ahead
  <2> QED BY <2>1, <2>5, <2>7, <2>8 DEF InOrder
<1>6. CASE b # <<>> /\ ~noMore[c]
  BY <1>1, <1>5, <1>6 DEF Work, TypeFacts
<1>7. CASE ~(b # <<>> /\ ~noMore[c])
  BY <1>1, <1>4, <1>7 DEF Work, TypeFacts
<1> QED BY <1>6, <1>7

\* continue_request puts the request that arrived last at the end of the list.
LEMMA ContinueOrder ==
    ASSUME TypeFacts, TypeFacts', ShapeInv, PoolInv, NEW c \in Orderly, ~closed[c], InOrder(c),
           NEW r \in Requests, ChannelOf(r) = c,
           Work(c, working[c], Append(backlog[c], r)),
           script' = script, sent'[c] = sent[c], fifo'[c] = fifo[c],
           current'[c] = NoRequest, Place(r) = arrived'[c],
           Given(c) + Len(backlog[c]) + 1 = arrived'[c]
    PROVE  InOrder(c)'
<1>1. /\ c \in Channels /\ Given(c) \in Int /\ backlog[c] \in Seq(Requests)
      /\ arrived'[c] \in Nat /\ working[c] \in BOOLEAN
  BY OrderlyIs, GivenIs DEF TypeFacts
<1>2. PICK b \in Seq(Requests) : /\ b = Append(backlog[c], r) /\ Len(b) = Len(backlog[c]) + 1
                                /\ \A i \in 1 .. Len(backlog[c]) : b[i] = backlog[c][i]
                                /\ b[Len(backlog[c]) + 1] = r
  <2> DEFINE b == Append(backlog[c], r)
  <2>1. /\ b \in Seq(Requests) /\ Len(b) = Len(backlog[c]) + 1
        /\ \A i \in 1 .. Len(backlog[c]) : b[i] = backlog[c][i]
        /\ b[Len(backlog[c]) + 1] = r
    BY <1>1, AppendRange
  <2> QED BY <2>1
<1>3. \A q \in Range(b) : ChannelOf(q) = c
  BY <1>1, <1>2, ListIs
<1>4. Len(backlog[c]) \in Nat /\ Len(b) \in Nat
      /\ DOMAIN b = 1 .. Len(b) /\ DOMAIN backlog[c] = 1 .. Len(backlog[c])
  BY <1>1, <1>2
<1>5. ASSUME NEW i \in DOMAIN b PROVE Place(b[i]) = Given(c) + i
  <2>1. CASE i \in DOMAIN backlog[c]
    BY <1>2, <1>4, <2>1 DEF InOrder
  <2>2. CASE i = Len(backlog[c]) + 1
    <3>1. b[i] = r /\ Place(r) = arrived'[c]
      BY <1>2, <2>2
    <3>2. Given(c) + i = arrived'[c]
      BY <1>1, <1>4, <2>2
    <3> QED BY <3>1, <3>2
  <2> QED BY <1>2, <1>4, <2>1, <2>2
<1>6. Given(c) = arrived'[c] - Len(b) - 0
  BY <1>1, <1>2, <1>4
<1>7. CASE working[c] = TRUE
  <2>1. UNCHANGED pool /\ backlog'[c] = b
    BY <1>1, <1>2, <1>7 DEF Work, TypeFacts
  <2>2. Given(c)' = Given(c)
    BY <1>6, <2>1 DEF Given
  <2>3. \A q \in Requests : ChannelOf(q) = c =>
           (Undone(q)' <=> Undone(q)) /\ (Ahead(q) => Ahead(q)')
    BY <2>1 DEF Undone, Ahead, Will, pool
  <2>4. \A q \in Requests : <<"write", q>> \in Range(fifo[c]) => ChannelOf(q) = c /\ Undone(q)
    BY WritesAre
  <2>5. DoneLast(fifo'[c])
    BY DEF InOrder
  <2> QED BY <1>5, <2>1, <2>2, <2>3, <2>4, <2>5, OrderKept
<1>8. CASE working[c] = FALSE
  <2>1. \A q \in Requests : ChannelOf(q) = c => ~Undone(q)
    BY <1>1, <1>8 DEF PoolInv, BusyInv
  <2>2. \A q \in Requests : <<"write", q>> \notin Range(fifo'[c])
    BY <2>1, WritesAre
  <2>3. Turn[c] = Given(c)
    BY <2>1, AheadIsUndone DEF InOrder
  <2>4. \A q \in Requests : ChannelOf(q) = c =>
           q \notin Range(queue) /\ ~Will(q, "done") /\ <<"done", q>> \notin Range(fifo'[c])
    BY <2>1, UndoneIs
  <2>5. Work(c, FALSE, b) /\ DoneLast(fifo'[c])
    BY <1>2, <1>8 DEF InOrder
  <2> DEFINE g == Given(c)
  <2>6. /\ g \in Int /\ Turn[c] = g
        /\ \A i \in DOMAIN b : Place(b[i]) = g + i
        /\ g = arrived'[c] - Len(b) - IF current'[c] = NoRequest THEN 0 ELSE 1
    BY <1>1, <1>5, <1>6, <2>3
  <2> HIDE DEF g
  <2> QED BY <1>1, <1>3, <2>2, <2>4, <2>5, <2>6, WorkOrder
<1> QED BY <1>1, <1>7, <1>8

LEMMA ReadOrder ==
    ASSUME TypeFacts, TypeFacts', ShapeInv, PoolInv, NEW c \in Orderly, ~closed'[c], InOrder(c),
           Reading(c)
    PROVE  InOrder(c)'
<1>1. c \in Channels /\ ~closed[c]
  BY OrderlyIs DEF Reading, ReceiveGet, ReceivePost, ReceiveBody, ReceiveError,
         ReceiveBlank, ReadFails, Close
<1>2. ASSUME NEW kinds, HeaderOf(c, kinds)
      PROVE  \E r \in Requests :
                /\ r = NextRequest(c) /\ ChannelOf(r) = c /\ Place(r) = arrived[c] + 1
                /\ Kind[r] \in kinds \cap Good
                /\ arrived'[c] = arrived[c] + 1 /\ current[c] = NoRequest
  <2>1. /\ arrived[c] \in Nat /\ arrived[c] < Len(Pipeline[c])
        /\ Kind[NextRequest(c)] \in kinds
        /\ arrived'[c] = arrived[c] + 1 /\ current[c] = NoRequest
    BY <1>1, <1>2 DEF HeaderOf, TypeFacts
  <2> QED BY <1>1, <2>1, NextIsNew, OrderlyIs
<1>3. Given(c) \in Int /\ Len(backlog[c]) \in Nat /\ arrived[c] \in Nat
  BY <1>1, GivenIs
<1>4. CASE ReceiveGet(c)
  <2>1. PICK r \in Requests :
           /\ r = NextRequest(c) /\ ChannelOf(r) = c /\ Place(r) = arrived[c] + 1
           /\ arrived'[c] = arrived[c] + 1 /\ current[c] = NoRequest
    BY <1>2, <1>4 DEF ReceiveGet
  <2>2. Given(c) + Len(backlog[c]) + 1 = arrived'[c]
    BY <1>3, <2>1 DEF Given
  <2> QED BY <1>1, <1>4, <2>1, <2>2, ContinueOrder DEF ReceiveGet, pipe
<1>5. CASE ReceiveBody(c)
  <2>1. PICK r \in Requests : r = current[c] /\ ChannelOf(r) = c
    BY <1>1, <1>5, ListIs DEF ReceiveBody
  <2>2. Place(r) = arrived[c] /\ arrived'[c] = arrived[c]
    BY <1>5, <2>1 DEF ReceiveBody, InOrder
  <2>3. Given(c) + Len(backlog[c]) + 1 = arrived'[c]
    BY <1>3, <1>5, <2>2 DEF Given, ReceiveBody
  <2>4. current'[c] = NoRequest /\ Work(c, working[c], Append(backlog[c], r))
    BY <1>1, <1>5, <2>1 DEF ReceiveBody, CollectedRequest, TypeFacts
  <2> QED BY <1>1, <1>5, <2>1, <2>2, <2>3, <2>4, ContinueOrder DEF ReceiveBody, pipe
<1>6. CASE ReceivePost(c)
  <2>1. PICK r \in Requests :
           /\ r = NextRequest(c) /\ ChannelOf(r) = c /\ Place(r) = arrived[c] + 1
           /\ arrived'[c] = arrived[c] + 1 /\ current[c] = NoRequest
    BY <1>2, <1>6 DEF ReceivePost
  <2>2. /\ current'[c] = r /\ r # NoRequest
        /\ UNCHANGED <<backlog, pool, fifo, script, sent>>
    BY <1>1, <1>6, <2>1, NamesAssumption DEF ReceivePost, pipe, TypeFacts
  <2>3. Given(c)' = Given(c)
    BY <1>3, <2>1, <2>2 DEF Given
  <2>4. \A q \in Requests : ChannelOf(q) = c =>
           (Undone(q)' <=> Undone(q)) /\ (Ahead(q) => Ahead(q)')
    BY <2>2 DEF Undone, Ahead, Will, pool
  <2>5. \A q \in Requests : <<"write", q>> \in Range(fifo[c]) => ChannelOf(q) = c /\ Undone(q)
    BY WritesAre
  <2>6. /\ DoneLast(fifo'[c])
        /\ \A i \in DOMAIN backlog'[c] : Place(backlog'[c][i]) = Given(c) + i
    BY <2>2 DEF InOrder
  <2> QED BY <2>1, <2>2, <2>3, <2>4, <2>5, <2>6, OrderKept
<1>7. CASE ReceiveError(c) \/ ReceiveBlank(c)
  <2>1. ASSUME NEW kinds \in {{"fault", "bad"}, {"blank"}}, HeaderOf(c, kinds) PROVE FALSE
    BY <1>2, <2>1 DEF Good
  <2> QED BY <1>7, <2>1 DEF ReceiveError, ReceiveBlank
<1>8. CASE ReadFails(c)
  BY <1>1, <1>8 DEF ReadFails, Close
<1> QED BY <1>4, <1>5, <1>6, <1>7, <1>8 DEF Reading

\* What is sent belongs to the request last given to the pool.
LEMMA PieceIs ==
    ASSUME TypeFacts, PoolInv, NEW c \in Orderly, InOrder(c), SendPiece(c)
    PROVE  \E r \in Requests :
              /\ r = Head(fifo[c])[2] /\ Head(fifo[c])[1] = "write"
              /\ ChannelOf(r) = c /\ Place(r) = Given(c) /\ Read(r)
              /\ sent' = [sent EXCEPT ![c] = Append(@, r)]
<1>1. /\ c \in Channels /\ fifo[c] # <<>> /\ fifo[c] \in Seq(Elements)
      /\ Head(fifo[c])[1] \in {"write", "reply"}
      /\ sent' = [sent EXCEPT ![c] = Append(@, Head(fifo[c])[2])]
  BY OrderlyIs DEF SendPiece, Head1, TypeFacts
<1>2. Head(fifo[c]) \in Range(fifo[c]) /\ Head(fifo[c]) \in Elements
  BY <1>1, TailRange
<1>3. PICK m \in {"write", "reply"}, r \in Requests :
         Head(fifo[c]) = <<m, r>> /\ Head(fifo[c]) # CloseMark
  BY <1>1, <1>2, ElementsAre
<1>4. ChannelOf(r) = c /\ Read(r) /\ (m = "reply" => Kind[r] \notin Good)
  BY <1>1, <1>2, <1>3 DEF PoolInv, MarkInv
<1>5. m = "write"
  BY <1>4, OrderlyIs
<1>6. Undone(r)
  BY <1>2, <1>3, <1>5, WritesAre
<1>7. Place(r) = Given(c)
  BY <1>4, <1>6 DEF InOrder
<1>8. r = Head(fifo[c])[2] /\ Head(fifo[c])[1] = "write"
  BY <1>3, <1>5
<1> QED BY <1>1, <1>4, <1>7, <1>8

LEMMA PieceOrder ==
    ASSUME TypeFacts, PoolInv, NEW c \in Orderly, InOrder(c), SendPiece(c)
    PROVE  InOrder(c)'
<1>1. PICK r \in Requests :
         /\ r = Head(fifo[c])[2] /\ Head(fifo[c])[1] = "write"
         /\ ChannelOf(r) = c /\ Place(r) = Given(c)
         /\ sent' = [sent EXCEPT ![c] = Append(@, r)]
  BY PieceIs
<1>2. /\ c \in Channels /\ fifo[c] \in Seq(Elements) /\ fifo[c] # <<>> /\ sent[c] \in Seq(Requests)
      /\ UNCHANGED <<arrived, current, backlog, pool, script>>
      /\ fifo'[c] = Tail(fifo[c]) \/ fifo'[c] = Append(Tail(fifo[c]), CloseMark)
  BY OrderlyIs DEF SendPiece, EndSend, TypeFacts, input, pipe
<1>3. Turn'[c] = Given(c)
  <2>1. sent'[c] = Append(sent[c], r)
    BY <1>1, <1>2 DEF TypeFacts
  <2>2. sent'[c] # <<>> /\ Last(sent'[c]) = r
    BY <1>2, <2>1, AppendRange DEF Last
  <2> QED BY <1>1, <2>2, TurnIs
<1>4. /\ Tail(fifo[c]) \in Seq(Elements) /\ DoneLast(Tail(fifo[c]))
      /\ Range(fifo[c]) = Range(Tail(fifo[c])) \cup {Head(fifo[c])}
      /\ CloseMark \in Elements /\ CloseMark[1] = "close"
  BY <1>2, TailRange, DoneLastSteps, ElementsAre DEF InOrder
<1>5. /\ DoneLast(fifo'[c])
      /\ Range(fifo'[c]) = Range(Tail(fifo[c])) \/ Range(fifo'[c]) = Range(Tail(fifo[c])) \cup {CloseMark}
  <2>1. CASE fifo'[c] = Tail(fifo[c])
    BY <1>4, <2>1
  <2>2. CASE fifo'[c] = Append(Tail(fifo[c]), CloseMark)
    <3>1. PICK t \in Seq(Elements) : t = Tail(fifo[c]) /\ DoneLast(t)
      BY <1>4
    <3>2. Range(Append(t, CloseMark)) = Range(t) \cup {CloseMark}
      BY <1>4, AppendRange
    <3>3. DoneLast(Append(t, CloseMark))
      BY <1>4, <3>1, DoneLastSteps
    <3> QED BY <2>2, <3>1, <3>2, <3>3
  <2> QED BY <1>2, <2>1, <2>2
<1>6. /\ \A q \in Requests : <<"write", q>> \in Range(fifo'[c]) => <<"write", q>> \in Range(fifo[c])
      /\ \A q \in Requests : <<"done", q>> \in Range(fifo'[c]) <=> <<"done", q>> \in Range(fifo[c])
  <2>1. ASSUME NEW q \in Requests, NEW m \in {"write", "done"}
        PROVE  <<m, q>> # CloseMark /\ <<m, q>>[1] = m
    BY ElementsAre
  <2> QED BY <1>1, <1>4, <1>5, <2>1
<1>7. \A q \in Requests : ChannelOf(q) = c => (Undone(q)' <=> Undone(q))
  BY <1>2, <1>6 DEF Undone, pool
<1>8. Given(c)' = Given(c)
  BY <1>2 DEF Given
<1>9. \A q \in Requests : <<"write", q>> \in Range(fifo'[c]) => Undone(q)'
  BY <1>6, <1>7, WritesAre
<1> QED BY <1>2, <1>3, <1>5, <1>7, <1>8, <1>9 DEF InOrder

LEMMA DoneOrder ==
    ASSUME TypeFacts, TypeFacts', ShapeInv, PoolInv, NEW c \in Orderly, ~closed[c], InOrder(c),
           SendDone(c)
    PROVE  InOrder(c)'
<1>1. /\ c \in Channels /\ fifo[c] # <<>> /\ fifo[c] \in Seq(Elements)
      /\ Head(fifo[c])[1] = "done" /\ Work(c, FALSE, backlog[c])
      /\ fifo'[c] = Tail(fifo[c])
      /\ UNCHANGED <<arrived, current, script, sent>>
  BY OrderlyIs DEF SendDone, Done, Head1, TypeFacts, input, pipe
<1>2. /\ Head(fifo[c]) \in Elements /\ Range(fifo[c]) = Range(fifo'[c]) \cup {Head(fifo[c])}
      /\ Head(fifo[c]) \in OnceMarks => Head(fifo[c]) \notin Range(fifo'[c])
  BY <1>1, TailRange, OnceTail DEF PoolInv, MarkInv
<1>3. PICK r \in Requests : Head(fifo[c]) = <<"done", r>> /\ Head(fifo[c]) # CloseMark
  BY <1>1, <1>2, ElementsAre
<1>4. /\ ChannelOf(r) = c /\ r \in Handed /\ <<"done", r>> \in OnceMarks
      /\ <<"done", r>> \in Range(fifo[c]) /\ <<"done", r>> \notin Range(fifo'[c])
  BY <1>1, <1>2, <1>3 DEF PoolInv, MarkInv, OnceMarks
<1>5. r \notin Range(queue) /\ ~Will(r, "done")
  BY <1>4 DEF Handed, PoolInv, MarkInv, ServedOn, Will
<1>6. \A q \in Requests : ChannelOf(q) = c /\ Undone(q) => q = r
  BY <1>1, <1>4, UndoneIs DEF PoolInv, BusyInv
<1>7. \A q \in Requests : <<"write", q>> \notin Range(fifo[c])
  <2>1. \A x \in Range(fifo[c]) : x[1] # "write"
    BY <1>1, DoneLastSteps DEF InOrder
  <2>2. \A q \in Requests : <<"write", q>>[1] = "write"
    OBVIOUS
  <2> QED BY <2>1, <2>2
<1>8. \A q \in Requests : ChannelOf(q) = c =>
         q \notin Range(queue) /\ ~Will(q, "done") /\ <<"done", q>> \notin Range(fifo'[c])
  BY <1>2, <1>4, <1>5, <1>6, UndoneIs
<1>9. Turn[c] = Given(c)
  <2>1. \A q \in Requests : ChannelOf(q) = c => ~Ahead(q)
    BY <1>7, <1>8, AheadIsUndone
  <2> QED BY <2>1 DEF InOrder
<1>10. DoneLast(fifo'[c]) /\ \A q \in Requests : <<"write", q>> \notin Range(fifo'[c])
  BY <1>1, <1>2, <1>7, DoneLastSteps DEF InOrder
<1> DEFINE g == Given(c)
           b == backlog[c]
<1>11. /\ g \in Int /\ b \in Seq(Requests) /\ Turn[c] = g /\ Work(c, FALSE, b)
       /\ \A q \in Range(b) : ChannelOf(q) = c
       /\ \A i \in DOMAIN b : Place(b[i]) = g + i
       /\ arrived'[c] \in Nat
       /\ g = arrived'[c] - Len(b) - IF current'[c] = NoRequest THEN 0 ELSE 1
       /\ current'[c] # NoRequest => Place(current'[c]) = arrived'[c]
  <2>1. g = arrived'[c] - Len(b) - IF current'[c] = NoRequest THEN 0 ELSE 1
    BY <1>1 DEF Given
  <2>2. /\ \A i \in DOMAIN b : Place(b[i]) = g + i
        /\ current'[c] # NoRequest => Place(current'[c]) = arrived'[c]
    BY <1>1 DEF InOrder
  <2>3. g \in Int /\ b \in Seq(Requests) /\ arrived'[c] \in Nat
    BY <1>1, GivenIs DEF TypeFacts
  <2>4. \A q \in Range(b) : ChannelOf(q) = c
    BY <1>1, ListIs
  <2> QED BY <1>1, <1>9, <2>1, <2>2, <2>3, <2>4
<1> HIDE DEF g, b
<1> QED BY <1>1, <1>8, <1>10, <1>11, WorkOrder

LEMMA SendOrder ==
    ASSUME TypeFacts, TypeFacts', ShapeInv, PoolInv, NEW c \in Orderly, ~closed'[c], InOrder(c),
           Sending(c)
    PROVE  InOrder(c)'
<1>1. c \in Channels /\ ~SendClose(c)
  BY OrderlyIs DEF SendClose, Close
<1>2. CASE SendDone(c)
  <2>1. ~closed[c]
    BY <1>2 DEF SendDone
  <2> QED BY <1>2, <2>1, DoneOrder
<1>3. CASE SendLog(c)
  <2>1. fifo[c] # <<>> /\ Head(fifo[c])[1] = "log" /\ fifo'[c] = Tail(fifo[c])
    BY <1>1, <1>3 DEF SendLog, Head1, TypeFacts
  <2> QED BY <1>3, <2>1, MainOrder DEF SendLog, input, pool, pipe
<1>4. CASE SendBlocks(c) \/ SendEmpty(c)
  <2>1. fifo'[c] = fifo[c] \/ fifo'[c] = Append(fifo[c], CloseMark)
    <3>1. EndSend(c, fifo[c])
      BY <1>4 DEF SendBlocks, SendEmpty
    <3>2. PICK f : f = IF thenClose THEN Append(fifo[c], CloseMark) ELSE fifo[c]
      OBVIOUS
    <3>3. fifo' = [fifo EXCEPT ![c] = f]
      BY <3>1, <3>2 DEF EndSend
    <3>4. DOMAIN fifo = Channels
      BY DEF TypeFacts
    <3>5. fifo'[c] = f
      BY <1>1, <3>3, <3>4
    <3> QED BY <3>2, <3>5
  <2> QED BY <1>4, <2>1, MainOrder DEF SendBlocks, SendEmpty, input, pool, pipe
<1> QED BY <1>1, <1>2, <1>3, <1>4, PieceOrder DEF Sending

-----------------------------------------------------------------------------
\* What the workers will call for a request of c when worker w makes a step.
LEMMA WillIs ==
    ASSUME TypeFacts, NEW w \in Workers, Working(w), NEW r \in Requests, NEW op
    PROVE  /\ Will(r, op) <=> \/ \E v \in Workers \ {w} : serving[v] = r /\ op \in Range(script[v])
                              \/ serving[w] = r /\ op \in Range(script[w])
           /\ Will(r, op)' <=> \/ \E v \in Workers \ {w} : serving[v] = r /\ op \in Range(script[v])
                               \/ serving'[w] = r /\ op \in Range(script'[w])
<1>1. \A v \in Workers : v # w => script'[v] = script[v] /\ serving'[v] = serving[v]
  BY ScriptSteps
<1> QED BY <1>1 DEF Will

\* A worker drops a call other than write and done, or a call for another channel.
LEMMA DropOrder ==
    ASSUME TypeFacts, PoolInv, NEW c \in Orderly, ~closed[c], InOrder(c),
           NEW w \in Workers, LookAtClosed(w) \/ ClosePipe(w) \/ Wakeup(w) \/ Finished(w)
    PROVE  InOrder(c)'
<1>1. Working(w)
  BY DEF Working
<1>2. /\ c \in Channels /\ script[w] \in Seq(Ops)
      /\ script[w] # <<>> => Range(script[w]) = Range(Tail(script[w])) \cup {Head(script[w])}
  BY OrderlyIs, TailRange DEF TypeFacts
<1>3. /\ UNCHANGED <<input, backlog, fifo, sent, queue>>
      /\ ~Finished(w) => serving' = serving
  BY DEF LookAtClosed, ClosePipe, Wakeup, Finished, Pool!Finish, pool
<1>4. \/ script'[w] = script[w] /\ serving'[w] = serving[w]
      \/ closed[ServedOn(w)] /\ serving'[w] = serving[w]
      \/ /\ script[w] # <<>> /\ script'[w] = Tail(script[w]) /\ serving'[w] = serving[w]
         /\ Head(script[w]) \in {"pipe", "wake"}
      \/ script[w] = <<>> /\ script'[w] = <<>>
  <2>1. CASE LookAtClosed(w)
    BY <1>3, <2>1 DEF LookAtClosed, Finished, Next1, pool
  <2>2. CASE ClosePipe(w) \/ Wakeup(w)
    BY <2>2 DEF ClosePipe, Wakeup, Next1, Advance, TypeFacts, pool
  <2>3. CASE Finished(w)
    BY <2>3 DEF Finished, pipe
  <2> QED BY <2>1, <2>2, <2>3
<1>5. ASSUME NEW r \in Requests, ChannelOf(r) = c, NEW op \in {"write", "done"}
      PROVE  Will(r, op)' <=> Will(r, op)
  <2>1. serving'[w] = r /\ op \in Range(script'[w]) <=> serving[w] = r /\ op \in Range(script[w])
    <3>1. CASE script'[w] = script[w] /\ serving'[w] = serving[w]
      BY <3>1
    <3>2. CASE closed[ServedOn(w)] /\ serving'[w] = serving[w]
      BY <1>5, <3>2 DEF ServedOn
    <3>3. CASE /\ script[w] # <<>> /\ script'[w] = Tail(script[w]) /\ serving'[w] = serving[w]
               /\ Head(script[w]) \in {"pipe", "wake"}
      BY <1>2, <3>3
    <3>4. CASE script[w] = <<>> /\ script'[w] = <<>>
      BY <3>4, EmptyList
    <3> QED BY <1>4, <3>1, <3>2, <3>3, <3>4
  <2> QED BY <1>1, <2>1, WillIs
<1>6. DoneLast(fifo[c])
  BY DEF InOrder
<1> QED BY <1>2, <1>3, <1>5, <1>6, OrderStays DEF input

LEMMA TakeOrder ==
    ASSUME TypeFacts, PoolInv, NEW c \in Orderly, InOrder(c), NEW w \in Workers, TakeRequest(w)
    PROVE  InOrder(c)'
<1>1. Working(w) /\ c \in Channels
  BY OrderlyIs DEF Working
<1>2. PICK r \in Requests : /\ r = Head(queue) /\ queue # <<>>
                           /\ serving' = [serving EXCEPT ![w] = r]
                           /\ queue' = Tail(queue) /\ serving[w] = NoRequest
  BY Heads DEF TakeRequest, Pool!Take
<1>3. {"write", "done"} \subseteq Range(script'[w]) /\ serving'[w] = r
  <2>1. PICK n \in 1 .. MaxWrites : script' =
           [script EXCEPT ![w] = Writes(n) \o ClosingCalls(Kind[Head(queue)] = "last")]
    BY DEF TakeRequest
  <2>2. n \in Nat \ {0} /\ (Kind[Head(queue)] = "last") \in BOOLEAN
    BY MaxWritesAssumption
  <2>3. {"write", "done"} \subseteq Range(Writes(n) \o ClosingCalls(Kind[Head(queue)] = "last"))
    BY <2>2, ShapeStart
  <2> QED BY <1>2, <2>1, <2>3 DEF TypeFacts
<1>4. Range(queue) = Range(queue') \cup {r}
  BY <1>2, TailRange DEF TypeFacts
<1>5. UNCHANGED <<arrived, current, backlog, fifo, sent>>
  BY DEF TakeRequest, input
<1>6. ASSUME NEW p \in Requests, NEW op \in {"write", "done"}
      PROVE  p \in Range(queue') \/ Will(p, op)' <=> p \in Range(queue) \/ Will(p, op)
  <2>1. serving[w] # p /\ serving'[w] = r /\ op \in Range(script'[w])
    BY <1>2, <1>3, NamesAssumption
  <2>2. Will(p, op)' <=> Will(p, op) \/ p = r
    BY <1>1, <2>1, WillIs
  <2> QED BY <1>4, <2>2
<1>7. \A p \in Requests : (Undone(p)' <=> Undone(p)) /\ (Ahead(p) => Ahead(p)')
  <2>1. \A p \in Requests :
           Undone(p)' <=> \/ p \in Range(queue') \/ Will(p, "done")'
                          \/ <<"done", p>> \in Range(fifo'[ChannelOf(p)])
    BY DEF Undone, Will
  <2>2. \A p \in Requests :
           Ahead(p)' <=> \/ p \in Range(queue') \/ Will(p, "write")'
                         \/ <<"write", p>> \in Range(fifo'[ChannelOf(p)])
    BY DEF Ahead
  <2> QED BY <1>5, <1>6, <2>1, <2>2, UndoneIs DEF Ahead
<1>8. Given(c)' = Given(c)
  BY <1>5 DEF Given
<1>9. /\ current'[c] # NoRequest => Place(current'[c]) = arrived'[c]
      /\ \A i \in DOMAIN backlog'[c] : Place(backlog'[c][i]) = Given(c) + i
      /\ DoneLast(fifo'[c])
  BY <1>5 DEF InOrder
<1> QED BY <1>5, <1>7, <1>8, <1>9, WritesAre, OrderKept

LEMMA PushOrder ==
    ASSUME TypeFacts, ShapeInv, PoolInv, NEW c \in Orderly, ~closed[c], InOrder(c),
           NEW w \in Workers, Push(w)
    PROVE  InOrder(c)'
<1>1. /\ Working(w) /\ c \in Channels /\ script[w] \in Seq(Ops) /\ script[w] # <<>>
      /\ fifo[c] \in Seq(Elements) /\ Shape(script[w])
  BY OrderlyIs DEF Working, Push, TypeFacts, ShapeInv
<1>2. PICK r \in Requests, m \in {"write", "log", "done", "close"} :
         r = serving[w] /\ m = Head(script[w])
  BY <1>1 DEF Push, TypeFacts
<1> DEFINE e == IF m = "close" THEN CloseMark ELSE <<m, r>>
<1>3. /\ fifo' = [fifo EXCEPT ![ChannelOf(r)] = Append(@, e)]
      /\ script'[w] = Tail(script[w])
      /\ UNCHANGED <<arrived, current, backlog, pool, sent>>
      /\ queue' = queue /\ serving' = serving
  BY <1>2 DEF Push, Advance, ServedOn, TypeFacts, input, pool
<1>4. e \in Elements /\ e[1] = m
  <2>1. CASE m = "close"
    BY <2>1, ElementsAre
  <2>2. CASE m # "close"
    <3>1. m \in {"write", "log", "done", "reply"}
      BY <1>2, <2>2
    <3> QED BY <2>2, <3>1, ElementsAre
  <2> QED BY <2>1, <2>2
<1>5. \A p \in Requests : \A k \in {"write", "done"} : <<k, p>> = e <=> k = m /\ p = r
  <2>1. CASE m = "close"
    BY <2>1, ElementsAre
  <2>2. CASE m # "close"
    BY <2>2
  <2> QED BY <2>1, <2>2
<1>6. Range(script[w]) = Range(Tail(script[w])) \cup {m}
  BY <1>1, <1>2, TailRange
<1>7. \A p \in Requests : \A op : p # r \/ op # m => (Will(p, op)' <=> Will(p, op))
  BY <1>1, <1>2, <1>3, <1>6, WillIs
<1>8. DoneLast(fifo[c]) /\ Given(c)' = Given(c)
  BY <1>3 DEF InOrder, Given
<1> HIDE DEF e
<1>9. CASE ChannelOf(r) # c
  <2>1. fifo'[c] = fifo[c]
    BY <1>1, <1>3, <1>9, PlaceOf DEF TypeFacts
  <2>2. \A p \in Requests : ChannelOf(p) = c =>
           /\ p \in Range(queue') <=> p \in Range(queue)
           /\ \A op \in {"write", "done"} : Will(p, op)' <=> Will(p, op)
    BY <1>3, <1>7, <1>9
  <2> QED BY <1>3, <1>8, <2>1, <2>2, OrderStays
<1>10. CASE ChannelOf(r) = c
  <2>1. fifo'[c] = Append(fifo[c], e)
    BY <1>1, <1>3, <1>10 DEF TypeFacts
  <2>2. Range(fifo'[c]) = Range(fifo[c]) \cup {e}
    BY <1>1, <1>4, <2>1, AppendRange
  <2>3. CASE m \in {"log", "close"}
    <3>1. DoneLast(fifo'[c])
      BY <1>1, <1>4, <1>8, <2>1, <2>3, DoneLastSteps
    <3>2. \A p \in Requests : \A k \in {"write", "done"} :
             <<k, p>> \in Range(fifo'[c]) <=> <<k, p>> \in Range(fifo[c])
      BY <1>5, <2>2, <2>3
    <3>3. \A p \in Requests : ChannelOf(p) = c =>
             /\ p \in Range(queue') <=> p \in Range(queue)
             /\ \A op \in {"write", "done"} : Will(p, op)' <=> Will(p, op)
      BY <1>3, <1>7, <2>3
    <3> QED BY <1>3, <3>1, <3>2, <3>3, OrderStays
  <2>4. CASE m \in {"write", "done"}
    <3>1. "done" \in Range(script[w])
      <4>1. m = script[w][1] /\ 1 \in DOMAIN script[w]
        BY <1>1, <1>2, TailRange
      <4>2. m = "write" => \E j \in DOMAIN script[w] : script[w][j] = "done"
        BY <1>1, <4>1 DEF Shape
      <4> QED BY <2>4, <4>1, <4>2 DEF Range
    <3>2. Undone(r) /\ <<"done", r>> \notin Range(fifo[c])
      BY <1>2, <1>10, <3>1 DEF Undone, PoolInv, MarkInv, ServedOn
    <3>3. \A p \in Requests : ChannelOf(p) = c /\ p # r => ~Undone(p)
      BY <1>1, <1>10, <3>2 DEF PoolInv, BusyInv
    <3>4. Undone(r)'
      <4>1. Will(r, "done")' \/ <<"done", r>> \in Range(fifo'[c])
        <5>1. CASE m = "done"
          BY <1>5, <2>2, <5>1
        <5>2. CASE m = "write"
          <6>1. Will(r, "done")
            BY <1>2, <3>1 DEF Will
          <6> QED BY <1>7, <5>2, <6>1
        <5> QED BY <2>4, <5>1, <5>2
      <4> QED BY <1>10, <4>1 DEF Undone, Will
    <3>5. ASSUME NEW p \in Requests, ChannelOf(p) = c PROVE Undone(p)' <=> Undone(p)
      <4>1. CASE p = r
        BY <3>2, <3>4, <4>1
      <4>2. CASE p # r
        <5>1. Will(p, "done")' <=> Will(p, "done")
          BY <1>7, <4>2
        <5>2. <<"done", p>> \in Range(fifo'[c]) <=> <<"done", p>> \in Range(fifo[c])
          BY <1>5, <2>2, <4>2
        <5>3. Undone(p)' <=> \/ p \in Range(queue') \/ Will(p, "done")'
                             \/ <<"done", p>> \in Range(fifo'[ChannelOf(p)])
          BY DEF Undone, Will
        <5> QED BY <1>3, <3>5, <5>1, <5>2, <5>3, UndoneIs
      <4> QED BY <4>1, <4>2
    <3>6. ASSUME NEW p \in Requests, ChannelOf(p) = c, Ahead(p) PROVE Ahead(p)'
      <4>1. \/ p \in Range(queue') \/ Will(p, "write")' \/ <<"write", p>> \in Range(fifo'[c])
        <5>1. CASE p = r /\ m = "write"
          BY <1>5, <2>2, <5>1
        <5>2. CASE p # r \/ m # "write"
          <6>1. Will(p, "write")' <=> Will(p, "write")
            BY <1>7, <5>2
          <6> QED BY <1>3, <2>2, <3>6, <6>1 DEF Ahead
        <5> QED BY <5>1, <5>2
      <4> QED BY <3>6, <4>1 DEF Ahead
    <3>7. \A p \in Requests : <<"write", p>> \in Range(fifo'[c]) => ChannelOf(p) = c /\ Undone(p)
      BY <1>5, <1>10, <2>2, <3>2, WritesAre
    <3>8. DoneLast(fifo'[c])
      <4>1. CASE m = "done"
        BY <1>1, <1>4, <1>8, <2>1, <4>1, DoneLastSteps
      <4>2. CASE m = "write"
        <5>1. ASSUME NEW x \in Range(fifo[c]), x[1] = "done" PROVE FALSE
          <6>1. PICK p \in Requests : x = <<"done", p>> /\ x # CloseMark
            BY <1>1, <5>1, ElementsAre, ListRange
          <6>2. ChannelOf(p) = c
            BY <1>1, <5>1, <6>1 DEF PoolInv, MarkInv
          <6> QED BY <3>2, <3>3, <5>1, <6>1, <6>2, UndoneIs
        <5> QED BY <1>1, <1>4, <1>8, <2>1, <5>1, DoneLastSteps
      <4> QED BY <2>4, <4>1, <4>2
    <3>9. /\ current'[c] # NoRequest => Place(current'[c]) = arrived'[c]
          /\ \A i \in DOMAIN backlog'[c] : Place(backlog'[c][i]) = Given(c) + i
      BY <1>3 DEF InOrder
    <3> QED BY <1>3, <1>8, <3>5, <3>6, <3>7, <3>8, <3>9, OrderKept
  <2> QED BY <1>2, <2>3, <2>4
<1> QED BY <1>9, <1>10

-----------------------------------------------------------------------------
LEMMA NextOrder ==
    TypeInv /\ TypeInv' /\ ShapeInv /\ PoolInv /\ OrderInv /\ [Next]_vars => OrderInv'
<1> SUFFICES ASSUME TypeFacts, TypeFacts', ShapeInv, PoolInv, OrderInv, [Next]_vars
             PROVE  OrderInv'
  <2>1. TypeInv' => TypeFacts'
    BY TypeInvIs, PTL
  <2> QED BY <2>1, TypeInvIs
<1>1. ASSUME NEW c \in Orderly, ~closed'[c] PROVE InOrder(c)'
  <2>1. c \in Channels
    BY OrderlyIs
  <2>2. ~closed[c]
    <3>1. \A C : Close(C) => ~closed[c]
      BY <1>1, <2>1 DEF Close
    <3> QED BY <1>1, <3>1
            DEF Next, Poll, Accepting, AcceptConnection, Events, HandleTrigger, EndRead,
                Reading, HandleWrite, Sending, ReceiveGet, ReceivePost, ReceiveBody,
                ReceiveError, ReceiveBlank, ReadFails, SendPiece, SendBlocks, SendLog,
                SendDone, SendClose, SendEmpty, Working, TakeRequest, LookAtClosed, Push,
                ClosePipe, Wakeup, Finished, vars
  <2>3. InOrder(c)
    BY <2>2 DEF OrderInv
  <2>4. CASE UNCHANGED vars
    <3>1. UNCHANGED <<script, serving, arrived, current, backlog, sent, queue, fifo>>
      BY <2>4 DEF vars, input, pool, pipe
    <3> QED BY <2>3, <3>1, MainOrder
  <2>5. CASE \/ Poll \/ Accepting \/ HandleTrigger \/ EndRead
             \/ \E d \in Channels : HandleWrite(d)
    BY <1>1, <2>3, <2>5, LoopOrder
  <2>6. ASSUME NEW d \in Channels, Reading(d) \/ Sending(d) PROVE InOrder(c)'
    BY <1>1, <2>3, <2>6, OtherOrder, ReadOrder, SendOrder
  <2>7. ASSUME NEW w \in Workers, Working(w) PROVE InOrder(c)'
    BY <2>2, <2>3, <2>7, TakeOrder, PushOrder, DropOrder DEF Working
  <2> QED BY <2>4, <2>5, <2>6, <2>7 DEF Next, Events
<1>2. sending' \in Orderly => sending' \in open'
  <2>1. NoChannel \notin Orderly
    BY NamesAssumption DEF Orderly
  <2>2. CASE sending' = sending /\ open' = open
    BY <2>2 DEF OrderInv
  <2>3. CASE sending' = NoChannel
    BY <2>1, <2>3
  <2>4. ASSUME NEW c \in Channels, HandleWrite(c) PROVE sending' \in open'
    BY <2>4 DEF HandleWrite
  <2>5. ASSUME NEW c \in Channels, ReceiveError(c) PROVE sending' \notin Orderly \/ sending' = sending
    <3>1. HeaderOf(c, {"fault", "bad"})
      BY <2>5 DEF ReceiveError
    <3>2. PICK r \in Requests : Kind[r] \in {"fault", "bad"} /\ ChannelOf(r) = c
      BY <3>1, HeaderRead
    <3>3. c \notin Orderly
      BY <3>2, OrderlyIs DEF Good
    <3> QED BY <2>5, <3>3 DEF ReceiveError
  <2>6. ASSUME NEW c \in Channels, ReceiveError(c) PROVE sending' \in Orderly => sending' \in open'
    BY <2>5, <2>6 DEF ReceiveError, OrderInv
  <2>7. CASE Accepting \/ \E c \in Channels : ReadFails(c)
    BY <2>1, <2>7 DEF Accepting, AcceptConnection, Ready, ReadFails, CanRead
  <2>8. CASE \E c \in Channels : \/ SendPiece(c) \/ SendBlocks(c) \/ SendClose(c) \/ SendEmpty(c)
    BY <2>3, <2>8 DEF SendPiece, SendBlocks, SendClose, SendEmpty, EndSend
  <2>9. CASE \/ Poll \/ HandleTrigger \/ EndRead \/ UNCHANGED vars
             \/ \E c \in Channels : \/ ReceiveGet(c) \/ ReceivePost(c) \/ ReceiveBody(c)
                                    \/ ReceiveBlank(c) \/ SendLog(c) \/ SendDone(c)
             \/ \E w \in Workers : Working(w)
    BY <2>2, <2>9
       DEF Poll, HandleTrigger, EndRead, vars, loop, ReceiveGet, ReceivePost, ReceiveBody,
           ReceiveBlank, SendLog, SendDone, Working, TakeRequest, LookAtClosed, Push,
           ClosePipe, Wakeup, Finished
  <2> QED BY <2>4, <2>6, <2>7, <2>8, <2>9 DEF Next, Events, Reading, Sending
<1> QED BY <1>1, <1>2 DEF OrderInv

LEMMA InitOrder == Init => OrderInv
<1> SUFFICES ASSUME Init PROVE OrderInv
  OBVIOUS
<1>1. sending \notin Orderly
  BY NamesAssumption DEF Init, Orderly
<1>2. ASSUME NEW c \in Orderly PROVE InOrder(c)
  <2>1. /\ c \in Channels /\ arrived[c] = 0 /\ current[c] = NoRequest
        /\ backlog[c] = <<>> /\ fifo[c] = <<>> /\ sent[c] = <<>>
        /\ \A r \in Requests : fifo[ChannelOf(r)] = <<>>
    BY OrderlyIs, PlaceOf DEF Init
  <2>2. Given(c) = 0 /\ Turn[c] = 0
    <3>1. Len(backlog[c]) = 0
      BY <2>1, EmptySeq
    <3>2. Turn[c] = 0
      BY <2>1, TurnIs
    <3>3. Given(c) = 0 - 0 - 0
      BY <2>1, <3>1 DEF Given
    <3> QED BY <3>2, <3>3
  <2>3. \A r \in Requests : ~Undone(r)
    BY <2>1, EmptyList DEF Init, Pool!Init, Undone
  <2>4. DoneLast(fifo[c])
    BY <2>1 DEF DoneLast
  <2> QED BY <2>1, <2>2, <2>3, <2>4, EmptyList DEF InOrder
<1> QED BY <1>1, <1>2 DEF OrderInv

\* Every step of the server is, for the orderly connections, a step of
\* PipelinedConnection or changes neither arrived nor turn.
LEMMA ConnectionStep ==
    ASSUME TypeInv, PoolInv, OrderInv, [Next]_vars
    PROVE  [Connection!Next]_Connection!vars
<1>1. TypeFacts
  BY TypeInvIs
<1>2. CASE UNCHANGED <<arrived, sent>>
  <2>1. Arrived' = Arrived /\ Turn' = Turn
    BY <1>2 DEF Arrived, Turn
  <2> QED BY <2>1 DEF Connection!vars
<1>3. ASSUME NEW c \in Channels, arrived' = [arrived EXCEPT ![c] = @ + 1], sent' = sent
      PROVE  [Connection!Next]_Connection!vars
  <2>1. Turn' = Turn
    BY <1>3 DEF Turn
  <2>2. CASE c \in Orderly
    <3>1. Arrived' = [Arrived EXCEPT ![c] = @ + 1]
      <4>1. arrived \in [Channels -> Nat] /\ \A d \in Orderly : d \in Channels
        BY <1>1, OrderlyIs DEF TypeFacts
      <4> QED BY <1>3, <2>2, <4>1 DEF Arrived
    <3> QED BY <2>1, <2>2, <3>1 DEF Connection!Next, Connection!Arrive
  <2>3. CASE c \notin Orderly
    <3>1. Arrived' = Arrived
      <4>1. arrived \in [Channels -> Nat] /\ \A d \in Orderly : d \in Channels
        BY <1>1, OrderlyIs DEF TypeFacts
      <4> QED BY <1>3, <2>3, <4>1 DEF Arrived
    <3> QED BY <2>1, <3>1 DEF Connection!vars
  <2> QED BY <2>2, <2>3
<1>4. ASSUME NEW c \in Channels, SendPiece(c) PROVE [Connection!Next]_Connection!vars
  <2>1. arrived' = arrived /\ sending = c
    BY <1>4 DEF SendPiece, input
  <2>2. Arrived' = Arrived
    BY <2>1 DEF Arrived
  <2>3. CASE c \notin Orderly
    <3>1. \A d \in Orderly : sent'[d] = sent[d]
      BY <1>1, <1>4, <2>3, OrderlyIs DEF SendPiece, TypeFacts
    <3>2. Turn' = Turn
      BY <3>1 DEF Turn
    <3> QED BY <2>2, <3>2 DEF Connection!vars
  <2>4. CASE c \in Orderly
    <3>1. c \in open /\ ~closed[c] /\ InOrder(c)
      BY <2>1, <2>4 DEF OrderInv, PoolInv, BusyInv
    <3>2. PICK r \in Requests : /\ ChannelOf(r) = c /\ Place(r) = Given(c) /\ Read(r)
                               /\ sent' = [sent EXCEPT ![c] = Append(@, r)]
      BY <1>1, <1>4, <2>4, <3>1, PieceIs
    <3>3. sent'[c] = Append(sent[c], r) /\ sent[c] \in Seq(Requests)
      BY <1>1, <3>2 DEF TypeFacts
    <3>4. sent'[c] # <<>> /\ Last(sent'[c]) = r
      BY <3>3, AppendRange DEF Last
    <3>5. Turn'[c] = Given(c)
      BY <2>4, <3>2, <3>4, TurnIs
    <3>6. \A d \in Orderly : d # c => Turn'[d] = Turn[d]
      <4>1. \A d \in Orderly : d # c => sent'[d] = sent[d]
        BY <1>1, <3>2, OrderlyIs DEF TypeFacts
      <4> QED BY <4>1, TurnIs
    <3>7. Given(c) \in Int /\ (Turn[c] = Given(c) \/ Turn[c] = Given(c) - 1)
      BY <1>1, <3>1, GivenIs DEF InOrder
    <3>8. /\ Turn = [d \in Orderly |-> Turn[d]]
          /\ Turn' = [d \in Orderly |-> Turn'[d]]
      BY DEF Turn
    <3>9. CASE Turn[c] = Given(c)
      <4>1. Turn' = Turn
        BY <3>5, <3>6, <3>8, <3>9
      <4> QED BY <2>2, <4>1 DEF Connection!vars
    <3>10. CASE Turn[c] = Given(c) - 1
      <4>1. Turn'[c] = Turn[c] + 1
        BY <3>5, <3>7, <3>10
      <4>2. Turn' = [Turn EXCEPT ![c] = @ + 1]
        BY <3>6, <3>8, <4>1
      <4>3. Turn[c] < Arrived[c]
        <5>1. Given(c) <= arrived[c] /\ Arrived[c] = arrived[c] /\ arrived[c] \in Nat
          BY <1>1, <2>4, <3>2, GivenIs DEF Read, Arrived
        <5> QED BY <3>7, <3>10, <5>1
      <4> QED BY <2>2, <2>4, <4>2, <4>3 DEF Connection!Next, Connection!Answer
    <3> QED BY <3>7, <3>9, <3>10
  <2> QED BY <2>3, <2>4
<1>5. CASE \E c \in Channels : \/ ReceiveGet(c) \/ ReceivePost(c) \/ ReceiveError(c)
                               \/ ReceiveBlank(c)
  <2>1. PICK c \in Channels : \/ ReceiveGet(c) \/ ReceivePost(c) \/ ReceiveError(c)
                              \/ ReceiveBlank(c)
    BY <1>5
  <2>2. arrived' = [arrived EXCEPT ![c] = @ + 1] /\ sent' = sent
    BY <2>1 DEF ReceiveGet, ReceivePost, ReceiveError, ReceiveBlank, HeaderOf
  <2> QED BY <1>3, <2>2
<1>6. CASE \/ Poll \/ Accepting \/ HandleTrigger \/ EndRead \/ UNCHANGED vars
           \/ \E c \in Channels : \/ ReceiveBody(c) \/ ReadFails(c) \/ HandleWrite(c)
                                  \/ SendBlocks(c) \/ SendLog(c) \/ SendDone(c)
                                  \/ SendClose(c) \/ SendEmpty(c)
           \/ \E w \in Workers : Working(w)
  BY <1>2, <1>6
     DEF Poll, Accepting, AcceptConnection, HandleTrigger, EndRead, vars, input, ReceiveBody,
         ReadFails, HandleWrite, SendBlocks, SendLog, SendDone, SendClose, SendEmpty,
         Working, TakeRequest, LookAtClosed, Push, ClosePipe, Wakeup, Finished
<1> QED BY <1>4, <1>5, <1>6 DEF Next, Events, Reading, Sending

\* On a connection whose requests can all be parsed and handled, the responses leave
\* in the order the requests came, none is resumed, and none is left out.
THEOREM AnswersAreInOrder == Spec => AnswersInOrder
<1>1. Init => Connection!Init
  <2> SUFFICES ASSUME Init PROVE Connection!Init
    OBVIOUS
  <2>1. \A c \in Orderly : arrived[c] = 0 /\ sent[c] = <<>>
    BY OrderlyIs DEF Init
  <2> QED BY <2>1 DEF Connection!Init, Arrived, Turn
<1>2. IInv /\ IInv' /\ OrderInv /\ [Next]_vars => OrderInv'
  BY NextOrder DEF IInv
<1>3. IInv /\ OrderInv /\ [Next]_vars => [Connection!Next]_Connection!vars
  BY ConnectionStep DEF IInv
<1> QED BY <1>1, <1>2, <1>3, InitOrder, Invariance, PTL DEF Spec, AnswersInOrder, Connection!Spec

-----------------------------------------------------------------------------
(* The orderly shutdown *)

\* What a turn of the shutdown loop has established so far.
TurnInv ==
    /\ stage = "control" => phase \in 1 .. 3
    /\ stage = "control" /\ veto => phase = 3
    /\ stage = "control" /\ phase = 2 /\ listening => Listener \in todo
    /\ phase >= 3 => ~listening
    /\ stage = "control" /\ phase = 3 /\ ~veto => open \subseteq todo
    /\ phase = 4 => stage = "begin" /\ (forced \/ open = {})

ChannelsInv == TypeInv /\ ShapeInv /\ PoolInv
LifeInv == LTypeOK /\ TurnInv /\ ChannelsInv


\* A step that changes only where the main thread is, or no_more_requests.
LEMMA LoopMoves ==
    ASSUME ChannelsInv, main' \in {"poll", "select", "events"},
           noMore' \in [Channels -> BOOLEAN],
           UNCHANGED <<watched, triggered, reading, sending, thenClose, open, closed,
                       input, backlog, working, fifo, pool, pipe, sent, logged>>
    PROVE  ChannelsInv'
<1>1. TypeFacts
  BY TypeInvIs DEF ChannelsInv
<1>2. TypeFacts'
  BY <1>1 DEF TypeFacts, input, pool, pipe
<1>3. TypeInv' <=> TypeFacts'
  BY TypeInvIs, PTL
<1>4. ShapeInv'
  BY DEF ChannelsInv, ShapeInv, pipe
<1>5. PoolInv'
  BY Elsewhere DEF ChannelsInv, pipe
<1> QED BY <1>2, <1>3, <1>4, <1>5 DEF ChannelsInv

LEMMA CloseIdleKeeps ==
    ASSUME ChannelsInv, NEW c \in Channels, CloseIdle(c), noMore' \in [Channels -> BOOLEAN],
           UNCHANGED <<loop, arrived, pool, pipe, sent>>
    PROVE  ChannelsInv'
<1>1. TypeFacts /\ TypeInv /\ PoolInv /\ ShapeInv
  BY TypeInvIs DEF ChannelsInv
<1>2. Close({c}) /\ open' = (open \ {c}) \cup {}
  BY DEF CloseIdle
<1>3. TypeFacts'
  BY <1>1, <1>2, CloseType DEF TypeFacts, loop, pool, pipe
<1>4. TypeInv' <=> TypeFacts'
  BY TypeInvIs, PTL
<1>5. ShapeInv'
  BY <1>1 DEF ShapeInv, pipe
<1>6. PoolInv'
  <2>1. {c} \in SUBSET Channels /\ {} \in SUBSET Channels
    OBVIOUS
  <2> QED BY <1>1, <1>2, <1>3, <2>1, ClosePool
<1> QED BY <1>3, <1>4, <1>5, <1>6 DEF ChannelsInv

LEMMA HttpKeeps == ChannelsInv /\ [Next]_vars => ChannelsInv'
<1> SUFFICES ASSUME ChannelsInv, [Next]_vars PROVE ChannelsInv'
  OBVIOUS
<1>1. TypeInv' /\ ShapeInv'
  BY NextType, NextShape DEF ChannelsInv
<1>2. PoolInv'
  BY <1>1, NextPool DEF ChannelsInv
<1> QED BY <1>1, <1>2 DEF ChannelsInv

LEMMA VisitKeeps ==
    ASSUME ChannelsInv, NEW c \in Channels, VisitChannel(c)
    PROVE  ChannelsInv'
<1>1. TypeFacts
  BY TypeInvIs DEF ChannelsInv
<1>2. noMore' \in [Channels -> BOOLEAN] /\ main' \in {"poll", "select", "events"}
  BY <1>1 DEF VisitChannel, ChannelControl, TypeFacts, loop
<1>3. CASE CloseIdle(c)
  BY <1>2, <1>3, CloseIdleKeeps DEF VisitChannel
<1>4. CASE ~CloseIdle(c)
  <2>1. UNCHANGED <<open, closed, current, backlog, working, fifo, logged>>
    BY <1>4 DEF VisitChannel, ChannelControl
  <2> QED BY <1>2, <2>1, LoopMoves DEF VisitChannel, loop, input
<1> QED BY <1>3, <1>4

LEMMA LNextChannels == ChannelsInv /\ [LNext]_allVars => ChannelsInv'
<1> SUFFICES ASSUME ChannelsInv, [LNext]_allVars PROVE ChannelsInv'
  OBVIOUS
<1>1. CASE Shutdown \/ BeginTurn \/ VisitListener \/ NextPhase \/ UNCHANGED allVars
  BY <1>1, HttpKeeps DEF Shutdown, BeginTurn, VisitListener, NextPhase, allVars
<1>2. CASE LPoll \/ MainEvent \/ WorkerStep
  BY <1>2, HttpKeeps DEF LPoll, MainEvent, WorkerStep, Next
<1>3. CASE SelectTimesOut \/ Stall
  <2>1. noMore \in [Channels -> BOOLEAN]
    BY TypeInvIs DEF ChannelsInv, TypeFacts
  <2> QED BY <1>3, <2>1, LoopMoves DEF SelectTimesOut, Stall
<1>4. CASE \E c \in Channels : VisitChannel(c)
  BY <1>4, VisitKeeps
<1> QED BY <1>1, <1>2, <1>3, <1>4 DEF LNext

-----------------------------------------------------------------------------
(* The turns of the shutdown loop *)

LEMMA OpenKept ==
    /\ \A w \in Workers : Working(w) => open' = open
    /\ Poll => open' = open
    /\ Events => open' \subseteq open
<1>1. \A w \in Workers : Working(w) => open' = open
  BY DEF Working, TakeRequest, LookAtClosed, Push, ClosePipe, Wakeup, Finished
<1>2. Poll => open' = open
  BY DEF Poll
<1>3. Events => open' \subseteq open
  BY DEF Events, HandleTrigger, EndRead, Reading, HandleWrite, Sending, ReceiveGet,
         ReceivePost, ReceiveBody, ReceiveError, ReceiveBlank, ReadFails, SendPiece,
         SendBlocks, SendLog, SendDone, SendClose, SendEmpty
<1> QED BY <1>1, <1>2, <1>3

LEMMA TurnStep == LTypeOK /\ TurnInv /\ [LNext]_allVars => TurnInv'
<1> SUFFICES ASSUME LTypeOK, TurnInv, [LNext]_allVars PROVE TurnInv'
  OBVIOUS
<1>0. /\ phase \in 0 .. 4 /\ stage \in {"poll", "begin", "control"}
      /\ veto \in BOOLEAN /\ listening \in BOOLEAN /\ forced \in BOOLEAN
      /\ open \subseteq Channels
  BY DEF LTypeOK, TypeOK
<1>1. ASSUME Shutdown PROVE TurnInv'
  BY <1>0, <1>1 DEF Shutdown, TurnInv, turn, vars
<1>2. ASSUME LPoll \/ MainEvent PROVE TurnInv'
  BY <1>0, <1>2 DEF LPoll, MainEvent, TurnInv, lifetime, turn
<1>3. ASSUME WorkerStep PROVE TurnInv'
  BY <1>0, <1>3, OpenKept DEF WorkerStep, TurnInv, lifetime, turn
<1>4. ASSUME SelectTimesOut PROVE TurnInv'
  BY <1>0, <1>4 DEF SelectTimesOut, TurnInv, lifetime, turn
<1>5. ASSUME BeginTurn PROVE TurnInv'
  BY <1>0, <1>5 DEF BeginTurn, ShuttingDown, TurnInv, vars
<1>6. ASSUME NEW c \in Channels, VisitChannel(c) PROVE TurnInv'
  <2>1. c # Listener /\ todo' = todo \ {c} /\ stage' = stage /\ phase' = phase
        /\ listening' = listening /\ forced' = forced /\ stage = "control" /\ phase # 4
    BY <1>6, ListenerAssumption DEF VisitChannel, TurnInv
  <2>2. CASE veto \/ phase # 3
    <3>1. veto' = veto /\ open' = open
      BY <1>6, <2>2 DEF VisitChannel, ChannelControl
    <3> QED BY <1>0, <2>1, <2>2, <3>1 DEF TurnInv
  <2>3. CASE ~veto /\ phase = 3
    <3>1. veto' = TRUE \/ (veto' = veto /\ open' = open \ {c})
      BY <1>6, <2>3 DEF VisitChannel, ChannelControl, CloseIdle
    <3> QED BY <1>0, <2>1, <2>3, <3>1 DEF TurnInv
  <2> QED BY <2>2, <2>3
<1>7. ASSUME VisitListener PROVE TurnInv'
  BY <1>0, <1>7, ListenerAssumption DEF VisitListener, TurnInv, vars
<1>8. ASSUME Stall PROVE TurnInv'
  BY <1>0, <1>8 DEF Stall, TurnInv
<1>9. ASSUME NextPhase PROVE TurnInv'
  BY <1>0, <1>9 DEF NextPhase, TurnInv, vars
<1>10. CASE UNCHANGED allVars
  BY <1>10 DEF TurnInv, allVars, vars, lifetime, turn
<1> QED BY <1>1, <1>2, <1>3, <1>4, <1>5, <1>6, <1>7, <1>8, <1>9, <1>10 DEF LNext

LEMMA LTypeStep == LTypeOK /\ ChannelsInv' /\ TurnInv /\ [LNext]_allVars => LTypeOK'
<1> SUFFICES ASSUME LTypeOK, ChannelsInv', TurnInv, [LNext]_allVars PROVE LTypeOK'
  OBVIOUS
<1>0. /\ phase \in 0 .. 4 /\ stage \in {"poll", "begin", "control"}
      /\ todo \subseteq Channels \cup {Listener}
      /\ veto \in BOOLEAN /\ listening \in BOOLEAN /\ forced \in BOOLEAN
      /\ open \subseteq Channels
  BY DEF LTypeOK, TypeOK
<1>1. TypeOK'
  BY DEF ChannelsInv, TypeInv
<1>2. UNCHANGED lifetime => LTypeOK'
  BY <1>0, <1>1 DEF LTypeOK, lifetime, turn
<1>3. CASE Shutdown \/ BeginTurn \/ VisitListener \/ Stall \/ NextPhase
  <2>1. /\ phase' \in 0 .. 4 /\ stage' \in {"poll", "begin", "control"}
        /\ todo' \subseteq Channels \cup {Listener}
        /\ veto' \in BOOLEAN /\ listening' \in BOOLEAN /\ forced' \in BOOLEAN
    <3>1. CASE Shutdown \/ Stall
      BY <1>0, <3>1 DEF Shutdown, Stall, turn
    <3>2. CASE BeginTurn
      BY <1>0, <3>2 DEF BeginTurn
    <3>3. CASE VisitListener \/ NextPhase
      BY <1>0, <3>3 DEF TurnInv, VisitListener, NextPhase
    <3> QED BY <1>3, <3>1, <3>2, <3>3
  <2> QED BY <1>1, <2>1 DEF LTypeOK
<1>4. CASE \E c \in Channels : VisitChannel(c)
  BY <1>0, <1>1, <1>4 DEF LTypeOK, VisitChannel, ChannelControl
<1>5. CASE LPoll \/ SelectTimesOut \/ MainEvent \/ WorkerStep \/ UNCHANGED allVars
  BY <1>2, <1>5 DEF LPoll, SelectTimesOut, MainEvent, WorkerStep, allVars
<1> QED BY <1>3, <1>4, <1>5 DEF LNext

LEMMA LInvariance == LSpec => []LifeInv
<1>1. LInit => LifeInv
  <2> SUFFICES ASSUME LInit PROVE LifeInv
    OBVIOUS
  <2>1. ChannelsInv
    BY InitInv DEF LInit, ChannelsInv
  <2>2. LTypeOK
    <3>1. TypeOK
      BY <2>1 DEF ChannelsInv, TypeInv
    <3>2. phase = 0 /\ stage = "poll" /\ todo = {} /\ {veto, listening, forced} \subseteq BOOLEAN
      BY DEF LInit
    <3> QED BY <3>1, <3>2 DEF LTypeOK
  <2> QED BY <2>1, <2>2 DEF LInit, LifeInv, TurnInv
<1>2. LifeInv /\ [LNext]_allVars => LifeInv'
  BY LNextChannels, TurnStep, LTypeStep DEF LifeInv
<1> QED BY <1>1, <1>2, PTL DEF LSpec

\* The shutdown loop keeps its variables, and those of the channels, to their types.
THEOREM LTypeCorrect == LSpec => []LTypeOK
<1>1. LifeInv => LTypeOK
  BY DEF LifeInv
<1> QED BY <1>1, LInvariance, PTL

\* When the server exits and no phase ran out of time, no connection is open.
THEOREM ExitIsClean == LSpec => []CleanExit
<1>1. LifeInv => CleanExit
  BY DEF LifeInv, TurnInv, CleanExit
<1> QED BY <1>1, LInvariance, PTL

-----------------------------------------------------------------------------
(* What shutdown waits for *)

\* A worker that still writes to a channel has the done() of a request of it to call.
LEMMA WritingIsUndone ==
    ASSUME ChannelsInv, NEW c \in Channels, StillWriting(c)
    PROVE  \E r \in Requests : ChannelOf(r) = c /\ Undone(r)
<1>1. PICK w \in Workers : /\ serving[w] # NoRequest /\ ServedOn(w) = c
                           /\ {"write", "log", "done"} \cap Range(script[w]) # {}
  BY DEF StillWriting
<1>2. serving[w] \in Requests /\ script[w] \in Seq(Ops) /\ Shape(script[w])
  BY <1>1, TypeInvIs DEF ChannelsInv, TypeFacts, ShapeInv
<1>3. "done" \in Range(script[w])
  <2>1. PICK i \in DOMAIN script[w] : script[w][i] \in {"write", "log", "done"}
    BY <1>1 DEF Range
  <2>2. \E j \in DOMAIN script[w] : script[w][j] = "done"
    BY <1>2, <2>1 DEF Shape
  <2> QED BY <2>2 DEF Range
<1> QED BY <1>1, <1>2, <1>3 DEF Undone, ServedOn

\* Shutdown closes no connection that has a request at the pool, a worker that still
\* writes to it, or output to send.
THEOREM ShutdownIsPatient == LSpec => ShutdownWaits
<1>1. ASSUME LifeInv, [LNext]_allVars, NEW c \in open \ open', stage = "control"
      PROVE  /\ ~StillWriting(c)
             /\ \A r \in Requests : ChannelOf(r) = c => ~Undone(r)
             /\ \A i \in DOMAIN fifo[c] : fifo[c][i][1] \notin {"write", "reply"}
  <2>1. /\ ChannelsInv /\ c \in Channels
        /\ ~closed[c]
    BY <1>1 DEF LifeInv, LTypeOK, TypeOK, ChannelsInv, PoolInv, BusyInv
  <2>2. PICK d \in Channels : VisitChannel(d)
    BY <1>1, OpenKept
       DEF LNext, Shutdown, LPoll, SelectTimesOut, MainEvent, WorkerStep, BeginTurn,
           VisitListener, Stall, NextPhase, allVars, vars
  <2>3. d = c /\ ~Busy(c)
    BY <1>1, <2>2 DEF VisitChannel, ChannelControl, CloseIdle
  <2>4. fifo[c] = <<>> /\ working[c] = FALSE
    BY <2>1, <2>3, TypeInvIs DEF Busy, ChannelsInv, TypeFacts
  <2>5. \A r \in Requests : ChannelOf(r) = c => ~Undone(r)
    BY <2>1, <2>4 DEF ChannelsInv, PoolInv, BusyInv
  <2> QED BY <2>1, <2>4, <2>5, WritingIsUndone
<1>2. LifeInv /\ [LNext]_allVars =>
      [\A c \in open \ open' :
          stage = "control" =>
              /\ ~StillWriting(c)
              /\ \A r \in Requests : ChannelOf(r) = c => ~Undone(r)
              /\ \A i \in DOMAIN fifo[c] : fifo[c][i][1] \notin {"write", "reply"}]_allVars
  BY <1>1
<1> QED BY <1>2, LInvariance, PTL DEF LSpec, ShutdownWaits
=============================================================================
