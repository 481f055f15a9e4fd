----------------------------- MODULE HttpServer -----------------------------
(***************************************************************************)
(* The HTTP side of ZServer: the asyncore main loop with its channels      *)
(* (ZServer/HTTPServer.py over ZServer/medusa/http_server.py), the worker  *)
(* threads that write responses through a ChannelPipe                      *)
(* (ZServer/HTTPResponse.py), and the trigger that wakes select            *)
(* (ZServer/PubCore/ZEvent.py over ZServer/medusa/thread/select_trigger.py)*)
(*                                                                         *)
(* The main thread alone reads sockets, parses requests, dispatches them   *)
(* and empties the output queues.  Workers only append to an output queue, *)
(* after a look at the channel's closed flag that nothing protects, and    *)
(* then pull the trigger.  The pool between them is RequestQueue.          *)
(***************************************************************************)
EXTENDS Naturals, Sequences, FiniteSets, SequencesExt

CONSTANTS Channels,   \* the connections clients make
          Workers,    \* the threads of the pool
          Requests,   \* the requests clients send
          Pipeline,   \* what the client of each channel sends, in order
          Kind,       \* what each request is, see Kinds
          Together,   \* sets of channels: those of one set may all connect
          MaxWrites,  \* bound on the writes one response makes
          NoRequest,  \* no request
          NoChannel   \* no channel

Kinds == {"get",    \* no body, the connection stays open
          "last",   \* no body, the response says Connection: close
          "post",   \* a body follows
          "fault",  \* the handler raises, the connection stays open
          "bad",    \* the request line cannot be parsed
          "blank"}  \* nothing but empty lines

ASSUME PipelineAssumption ==
    /\ IsFiniteSet(Channels) /\ IsFiniteSet(Requests)
    /\ Pipeline \in [Channels -> Seq(Requests)]
    /\ Kind \in [Requests -> Kinds]
    /\ \A c, d \in Channels :
         \A i \in DOMAIN Pipeline[c], j \in DOMAIN Pipeline[d] :
            Pipeline[c][i] = Pipeline[d][j] => c = d /\ i = j
    /\ \A r \in Requests : \E c \in Channels : r \in Range(Pipeline[c])
ASSUME TogetherAssumption == Together \subseteq SUBSET Channels
ASSUME NamesAssumption == NoRequest \notin Requests /\ NoChannel \notin Channels
ASSUME MaxWritesAssumption == MaxWrites \in Nat \ {0}

ChannelOf(r) == CHOOSE c \in Channels : r \in Range(Pipeline[c])
Place(r) == CHOOSE i \in DOMAIN Pipeline[ChannelOf(r)] : Pipeline[ChannelOf(r)][i] = r

VARIABLES
    main,      \* the main loop: about to poll, in select, or handling events
    watched,   \* the channels select waits to write to
    triggered, \* the trigger's pipe holds a byte
    reading,   \* the channel whose handle_read runs, or NoChannel
    sending,   \* the channel whose initiate_send runs, or NoChannel
    thenClose, \* done() calls close_when_done after that initiate_send
    open,      \* the channels in socket_map
    closed,    \* channel.closed
    arrived,   \* how many requests of its Pipeline each channel has read
    current,   \* channel.current_request: a request whose body is being read
    backlog,   \* channel.queue
    working,   \* channel.working
    noMore,    \* channel.no_more_requests
    fifo,      \* channel.producer_fifo
    queue,     \* the request queue of the pool
    serving,   \* the request each worker publishes
    accepted,  \* the requests given to the pool
    script,    \* what the worker still does to its channel, in order
    checked,   \* the worker has seen the channel open and is about to append
    sent,      \* the pieces of responses sent on a channel, by request
    logged     \* how often each request was written to the access log

loop == <<main, watched, triggered, reading, sending, thenClose>>
input == <<arrived, current>>
pool == <<queue, serving, accepted>>
pipe == <<script, checked>>
vars == <<loop, open, closed, input, backlog, working, noMore, fifo, pool, pipe,
          sent, logged>>

Pool == INSTANCE RequestQueue WITH Threads <- Workers

Init ==
    /\ main = "poll" /\ watched = {} /\ triggered = FALSE
    /\ reading = NoChannel /\ sending = NoChannel /\ thenClose = FALSE
    /\ open = {}
    /\ closed = [c \in Channels |-> FALSE]
    /\ arrived = [c \in Channels |-> 0]
    /\ current = [c \in Channels |-> NoRequest]
    /\ backlog = [c \in Channels |-> <<>>]
    /\ working = [c \in Channels |-> FALSE]
    /\ noMore = [c \in Channels |-> FALSE]
    /\ fifo = [c \in Channels |-> <<>>]
    /\ Pool!Init
    /\ script = [w \in Workers |-> <<>>]
    /\ checked = [w \in Workers |-> FALSE]
    /\ sent = [c \in Channels |-> <<>>]
    /\ logged = [r \in Requests |-> 0]

-----------------------------------------------------------------------------
(* What several handlers of the main thread call *)

\* The main loop may start to handle an event.
Ready == main # "poll" /\ reading = NoChannel /\ sending = NoChannel

\* Mutated: work() does not look at self.working.
WorkAnyway(c, busy, b) ==
    LET go == b # <<>> /\ ~noMore[c]
    IN  /\ working' = [working EXCEPT ![c] = busy \/ go]
        /\ backlog' = [backlog EXCEPT ![c] = IF go THEN Tail(b) ELSE b]
        /\ IF go THEN Pool!Submit(Head(b)) ELSE UNCHANGED pool

\* channel.work(), when channel.queue is b.
Work(c, busy, b) ==
    LET go == ~busy /\ b # <<>> /\ ~noMore[c]
    IN  /\ working' = [working EXCEPT ![c] = busy \/ go]
        /\ backlog' = [backlog EXCEPT ![c] = IF go THEN Tail(b) ELSE b]
        /\ IF go THEN Pool!Submit(Head(b)) ELSE UNCHANGED pool

\* The None in an output queue that closes the channel when its turn comes.
CloseMark == <<"close", NoRequest>>

Logs(r, s) == Cardinality({i \in DOMAIN s : s[i] \in {<<"log", r>>, <<"reply", r>>}})

\* channel.close() of every channel of C: the queue is emptied before the
\* producers are run once more for their side effects, so done() dispatches
\* nothing.
Close(C) ==
    /\ closed' = [c \in Channels |-> closed[c] \/ c \in C]
    /\ current' = [c \in Channels |-> IF c \in C THEN NoRequest ELSE current[c]]
    /\ backlog' = [c \in Channels |-> IF c \in C THEN <<>> ELSE backlog[c]]
    /\ fifo' = [c \in Channels |-> IF c \in C THEN <<>> ELSE fifo[c]]
    /\ working' = [c \in Channels |->
         working[c] /\ ~(c \in C /\ \E i \in DOMAIN fifo[c] : fifo[c][i][1] = "done")]
    /\ logged' = [r \in Requests |->
         IF ChannelOf(r) \in C THEN logged[r] + Logs(r, fifo[ChannelOf(r)])
         ELSE logged[r]]

-----------------------------------------------------------------------------
(* The main loop: asyncore.poll, the trigger, new connections *)

Poll ==
    /\ main # "select" /\ reading = NoChannel /\ sending = NoChannel
    /\ main' = "select"
    /\ watched' = {c \in open : fifo[c] # <<>>}
    /\ UNCHANGED <<triggered, reading, sending, thenClose, open, closed, input,
                   backlog, working, noMore, fifo, pool, pipe, sent, logged>>

\* handle_read of the trigger empties its pipe.
HandleTrigger ==
    /\ Ready /\ triggered
    /\ triggered' = FALSE
    /\ main' = "events"
    /\ UNCHANGED <<watched, reading, sending, thenClose, open, closed, input,
                   backlog, working, noMore, fifo, pool, pipe, sent, logged>>

\* A client connects; every so often the new channel's maintenance kills the
\* channels that have become too old, whatever they are doing.
AcceptConnection(c, zombies) ==
    /\ Ready
    /\ c \notin open /\ ~closed[c]
    /\ \E S \in Together : open \cup {d \in Channels : closed[d]} \cup {c} \subseteq S
    /\ open' = (open \ zombies) \cup {c}
    /\ Close(zombies)
    /\ main' = "events"
    /\ UNCHANGED <<watched, triggered, reading, sending, thenClose, arrived,
                   noMore, pool, pipe, sent>>

-----------------------------------------------------------------------------
(* handle_read of a channel.  It goes on with what one recv returned even if
   the channel is closed on the way. *)

CanRead(c) ==
    \/ reading = c /\ sending = NoChannel
    \/ Ready /\ c \in open

NextRequest(c) == Pipeline[c][arrived[c] + 1]

\* A header is complete, and no body is being collected.
HeaderOf(c, kinds) ==
    /\ CanRead(c)
    /\ current[c] = NoRequest
    /\ arrived[c] < Len(Pipeline[c])
    /\ Kind[NextRequest(c)] \in kinds
    /\ arrived' = [arrived EXCEPT ![c] = @ + 1]
    /\ reading' = c
    /\ main' = "events"

\* continue_request without a body to wait for.
ReceiveGet(c) ==
    /\ HeaderOf(c, {"get", "last"})
    /\ Work(c, working[c], Append(backlog[c], NextRequest(c)))
    /\ UNCHANGED <<watched, triggered, sending, thenClose, open, closed, current,
                   noMore, fifo, pipe, sent, logged>>

ReceivePost(c) ==
    /\ HeaderOf(c, {"post"})
    /\ current' = [current EXCEPT ![c] = NextRequest(c)]
    /\ UNCHANGED <<watched, triggered, sending, thenClose, open, closed, backlog,
                   working, noMore, fifo, pool, pipe, sent, logged>>

\* Mutated: the collector forgets its request before it continues it.
ForgottenRequest(c) == NoRequest

CollectedRequest(c) == current[c]

\* The collector has the whole body: continue_request.
ReceiveBody(c) ==
    /\ CanRead(c)
    /\ current[c] # NoRequest
    /\ current' = [current EXCEPT ![c] = NoRequest]
    /\ Work(c, working[c], Append(backlog[c], CollectedRequest(c)))
    /\ reading' = c
    /\ main' = "events"
    /\ UNCHANGED <<watched, triggered, sending, thenClose, open, closed, arrived,
                   noMore, fifo, pipe, sent, logged>>

\* http_request.error: the reply is pushed at once, whatever is in flight, and
\* push starts to send.  A request without a version closes the channel after it.
ReceiveError(c) ==
    /\ HeaderOf(c, {"fault", "bad"})
    /\ LET bad == Kind[NextRequest(c)] = "bad"
       IN  IF closed[c]
           THEN /\ fifo' = [fifo EXCEPT ![c] = IF bad THEN Append(@, CloseMark) ELSE @]
                /\ UNCHANGED <<sending, thenClose>>
           ELSE /\ fifo' = [fifo EXCEPT ![c] = Append(@, <<"reply", NextRequest(c)>>)]
                /\ sending' = c
                /\ thenClose' = bad
    /\ UNCHANGED <<watched, triggered, open, closed, current, backlog, working,
                   noMore, pool, pipe, sent, logged>>

\* Only empty lines: close_when_done.
ReceiveBlank(c) ==
    /\ HeaderOf(c, {"blank"})
    /\ fifo' = [fifo EXCEPT ![c] = Append(@, CloseMark)]
    /\ UNCHANGED <<watched, triggered, sending, thenClose, open, closed, current,
                   backlog, working, noMore, pool, pipe, sent, logged>>

EndRead ==
    /\ reading # NoChannel /\ sending = NoChannel
    /\ reading' = NoChannel
    /\ UNCHANGED <<main, watched, triggered, sending, thenClose, open, closed, input,
                   backlog, working, noMore, fifo, pool, pipe, sent, logged>>

\* The client hangs up, the socket fails, or the header is too long.
ReadFails(c) ==
    /\ CanRead(c) /\ c \in open
    /\ Close({c})
    /\ open' = open \ {c}
    /\ reading' = NoChannel
    /\ main' = "events"
    /\ UNCHANGED <<watched, triggered, sending, thenClose, arrived, noMore, pool,
                   pipe, sent>>

-----------------------------------------------------------------------------
(* initiate_send: one step per element at the head of the output queue *)

HandleWrite(c) ==
    /\ Ready
    /\ c \in watched \cap open
    /\ fifo[c] # <<>>
    /\ watched' = watched \ {c}
    /\ sending' = c
    /\ main' = "events"
    /\ UNCHANGED <<triggered, reading, thenClose, open, closed, input, backlog,
                   working, noMore, fifo, pool, pipe, sent, logged>>

Head1(c) == Head(fifo[c])[1]

\* initiate_send returns and leaves f; done() of the request that pushed may
\* still call close_when_done.
EndSend(c, f) ==
    /\ sending' = NoChannel
    /\ thenClose' = FALSE
    /\ fifo' = [fifo EXCEPT ![c] = IF thenClose THEN Append(f, CloseMark) ELSE f]

\* A piece of a response goes to the socket, and the loop returns.
SendPiece(c) ==
    /\ sending = c
    /\ fifo[c] # <<>> /\ Head1(c) \in {"write", "reply"}
    /\ LET r == Head(fifo[c])[2]
       IN  /\ sent' = [sent EXCEPT ![c] = Append(@, r)]
           /\ logged' = [logged EXCEPT ![r] = IF Head1(c) = "reply" THEN @ + 1 ELSE @]
    /\ EndSend(c, Tail(fifo[c]))
    /\ UNCHANGED <<main, watched, triggered, reading, open, closed, input, backlog,
                   working, noMore, pool, pipe>>

\* A push outside of select may find that the socket takes nothing yet.
SendBlocks(c) ==
    /\ sending = c /\ reading = c
    /\ fifo[c] # <<>> /\ Head1(c) \in {"write", "reply"}
    /\ EndSend(c, fifo[c])
    /\ UNCHANGED <<main, watched, triggered, reading, open, closed, input, backlog,
                   working, noMore, pool, pipe, sent, logged>>

\* LoggingProducer.more
SendLog(c) ==
    /\ sending = c
    /\ fifo[c] # <<>> /\ Head1(c) = "log"
    /\ logged' = [logged EXCEPT ![Head(fifo[c])[2]] = @ + 1]
    /\ fifo' = [fifo EXCEPT ![c] = Tail(@)]
    /\ UNCHANGED <<loop, open, closed, input, backlog, working, noMore, pool, pipe,
                   sent>>

\* Mutated: done() does not call work().
DoneWithoutWork(c) ==
    /\ working' = [working EXCEPT ![c] = FALSE]
    /\ UNCHANGED <<backlog, pool>>

\* channel.done()
Done(c) == Work(c, FALSE, backlog[c])

\* CallbackProducer.more with channel.done: the next request may start.
SendDone(c) ==
    /\ sending = c
    /\ fifo[c] # <<>> /\ Head1(c) = "done"
    /\ Done(c)
    /\ fifo' = [fifo EXCEPT ![c] = Tail(@)]
    /\ UNCHANGED <<loop, open, closed, input, noMore, pipe, sent, logged>>

SendClose(c) ==
    /\ sending = c
    /\ fifo[c] # <<>> /\ Head1(c) = "close"
    /\ Close({c})
    /\ open' = open \ {c}
    /\ sending' = NoChannel
    /\ thenClose' = FALSE
    /\ UNCHANGED <<main, watched, triggered, reading, arrived, noMore, pool, pipe,
                   sent>>

SendEmpty(c) ==
    /\ sending = c
    /\ fifo[c] = <<>>
    /\ EndSend(c, <<>>)
    /\ UNCHANGED <<main, watched, triggered, reading, open, closed, input, backlog,
                   working, noMore, pool, pipe, sent, logged>>

-----------------------------------------------------------------------------
(* A worker: publish the request, then ChannelPipe.write, finish and close.   *)
(* A script lists the calls still to make, "pipe" being the test at the top   *)
(* of ChannelPipe.close.                                                      *)

\* Mutated: the trigger is pulled before the push.
WakesFirst(n) == [i \in 1 .. 2 * n |-> IF i % 2 = 1 THEN "wake" ELSE "write"]

\* ChannelPipe.write, n times
Writes(n) == [i \in 1 .. 2 * n |-> IF i % 2 = 1 THEN "write" ELSE "wake"]

\* ChannelPipe.close; last says that the connection is to be closed.
ClosingCalls(last) ==
    IF last THEN <<"pipe", "log", "done", "close", "wake">>
            ELSE <<"pipe", "log", "done", "wake">>

\* The worker's loop gets a request; the response will make n writes.
TakeRequest(w) ==
    /\ Pool!Take(w)
    /\ \E n \in 1 .. MaxWrites : 
            script' = [script EXCEPT ![w] =
                           Writes(n) \o ClosingCalls(Kind[Head(queue)] = "last")]
    /\ UNCHANGED <<loop, open, closed, input, backlog, working, noMore, fifo,
                   checked, sent, logged>>

Next1(w, op) == script[w] # <<>> /\ Head(script[w]) = op
Advance(w) == script' = [script EXCEPT ![w] = Tail(@)]
ServedOn(w) == ChannelOf(serving[w])

\* push() and write() read channel.closed, and return when it is set ...
LookAtClosed(w) ==
    /\ \E op \in {"write", "log", "done", "close"} : Next1(w, op)
    /\ ~checked[w]
    /\ IF closed[ServedOn(w)]
       THEN Advance(w) /\ UNCHANGED checked
       ELSE checked' = [checked EXCEPT ![w] = TRUE] /\ UNCHANGED script
    /\ UNCHANGED <<loop, open, closed, input, backlog, working, noMore, fifo, pool,
                   sent, logged>>

\* ... and append afterwards, when the main thread may have closed the channel.
Push(w) ==
    /\ checked[w]
    /\ fifo' = [fifo EXCEPT ![ServedOn(w)] = Append(@,
                   IF Head(script[w]) = "close" THEN CloseMark
                   ELSE <<Head(script[w]), serving[w]>>)]
    /\ checked' = [checked EXCEPT ![w] = FALSE]
    /\ Advance(w)
    /\ UNCHANGED <<loop, open, closed, input, backlog, working, noMore, pool, sent,
                   logged>>

\* ChannelPipe.close: on a closed channel the worker logs the request itself.
ClosePipe(w) ==
    /\ Next1(w, "pipe")
    /\ IF closed[ServedOn(w)]
       THEN /\ logged' = [logged EXCEPT ![serving[w]] = @ + 1]
            /\ script' = [script EXCEPT ![w] = <<"wake">>]
       ELSE Advance(w) /\ UNCHANGED logged
    /\ UNCHANGED <<loop, open, closed, input, backlog, working, noMore, fifo, pool,
                   checked, sent>>

\* Mutated: the pipe is not written to.
NoPull == UNCHANGED triggered

PullTrigger == triggered' = TRUE

Wakeup(w) ==
    /\ Next1(w, "wake")
    /\ PullTrigger
    /\ Advance(w)
    /\ UNCHANGED <<main, watched, reading, sending, thenClose, open, closed, input,
                   backlog, working, noMore, fifo, pool, checked, sent, logged>>

Finished(w) ==
    /\ script[w] = <<>>
    /\ Pool!Finish(w)
    /\ UNCHANGED <<loop, open, closed, input, backlog, working, noMore, fifo, pipe,
                   sent, logged>>

-----------------------------------------------------------------------------
Reading(c) ==
    \/ ReceiveGet(c) \/ ReceivePost(c) \/ ReceiveBody(c)
    \/ ReceiveError(c) \/ ReceiveBlank(c) \/ ReadFails(c)

Sending(c) ==
    \/ SendPiece(c) \/ SendBlocks(c) \/ SendLog(c) \/ SendDone(c)
    \/ SendClose(c) \/ SendEmpty(c)

Accepting == \E c \in Channels : \E zombies \in SUBSET open : AcceptConnection(c, zombies)

Events ==
    \/ HandleTrigger
    \/ EndRead
    \/ \E c \in Channels : Reading(c) \/ HandleWrite(c) \/ Sending(c)

Working(w) ==
    \/ TakeRequest(w) \/ LookAtClosed(w) \/ Push(w) \/ ClosePipe(w) \/ Wakeup(w)
    \/ Finished(w)

Next == Poll \/ Accepting \/ Events \/ \E w \in Workers : Working(w)

Spec == Init /\ [][Next]_vars
-----------------------------------------------------------------------------
(* Properties *)

Ops == {"write", "wake", "pipe", "log", "done", "close"}
Marks == {"write", "log", "done", "reply", "close"}

TypeOK ==
    /\ main \in {"poll", "select", "events"}
    /\ watched \subseteq Channels /\ open \subseteq Channels
    /\ {triggered, thenClose} \subseteq BOOLEAN
    /\ {reading, sending} \subseteq Channels \cup {NoChannel}
    /\ {closed, working, noMore} \subseteq [Channels -> BOOLEAN]
    /\ arrived \in [Channels -> Nat]
    /\ current \in [Channels -> Requests \cup {NoRequest}]
    /\ backlog \in [Channels -> Seq(Requests)]
    /\ fifo \in [Channels -> Seq(Marks \X (Requests \cup {NoRequest}))]
    /\ queue \in Seq(Requests) /\ accepted \subseteq Requests
    /\ serving \in [Workers -> Requests \cup {NoRequest}]
    /\ script \in [Workers -> Seq(Ops)]
    /\ checked \in [Workers -> BOOLEAN]
    /\ sent \in [Channels -> Seq(Requests)]
    /\ logged \in [Requests -> Nat]

\* A request the pool has and whose done() has not run.
Undone(r) ==
    \/ r \in Range(queue)
    \/ \E w \in Workers : serving[w] = r /\ "done" \in Range(script[w])
    \/ <<"done", r>> \in Range(fifo[ChannelOf(r)])

\* A connection has at most one request at the workers, and channel.working says
\* exactly whether it has one: two workers never write to one channel's output
\* queue with responses that could mix.  Nor is a request written to the access log
\* twice, though the worker, the output queue and close() can each be the one to do it.
OneRequestAtATime ==
    /\ \A c \in open :
          LET inFlight == {r \in Requests : ChannelOf(r) = c /\ Undone(r)}
          IN  Cardinality(inFlight) = IF working[c] THEN 1 ELSE 0
    /\ \A r \in Requests : logged[r] <= 1

\* The worker will pull the trigger before the application runs again.
AboutToWake(w) ==
    \E i \in DOMAIN script[w] :
        /\ script[w][i] = "wake"
        /\ \A j \in 1 .. i - 1 : script[w][j] \in {"log", "done", "close"}

\* While the main thread sits in select, an open channel with output is either
\* watched for writing or about to be: the trigger has been pulled, or the worker
\* that pushed pulls it next.
NoLostWakeup ==
    main = "select" =>
        \A c \in open \ watched :
            fifo[c] # <<>> =>
                \/ triggered
                \/ \E w \in Workers : /\ serving[w] # NoRequest /\ ServedOn(w) = c
                                      /\ AboutToWake(w)

\* Where every request can be parsed and has a handler, responses leave in the
\* order the requests came, HTTPServer.py:30.
Orderly == {c \in Channels : \A r \in Range(Pipeline[c]) : Kind[r] \in {"get", "post", "last"}}
Turn == [c \in Orderly |-> IF sent[c] = <<>> THEN 0 ELSE Place(Last(sent[c]))]
Arrived == [c \in Orderly |-> arrived[c]]
Connection == INSTANCE PipelinedConnection WITH Channels <- Orderly, arrived <- Arrived, turn <- Turn
AnswersInOrder == Connection!Spec

\* The main loop runs, and select reports what is ready.
Fairness ==
    /\ WF_vars(Poll) /\ WF_vars(HandleTrigger) /\ WF_vars(EndRead)
    /\ \A c \in Channels : WF_vars(HandleWrite(c)) /\ WF_vars(Sending(c))
FairSpec == Spec /\ Fairness

\* Where the application returns, a request read from an open connection is
\* answered, unless the connection is closed first.
ApplicationReturns == \A w \in Workers : WF_vars(Working(w))
RequestsAnswered ==
    ApplicationReturns =>
        \A r \in Requests :
            r \in Range(backlog[ChannelOf(r)]) ~>
                r \in Range(sent[ChannelOf(r)]) \/ ChannelOf(r) \notin open
=============================================================================
