------------------------------ MODULE Lifetime ------------------------------
(***************************************************************************)
(* Orderly shutdown: the main loop and the shutdown loop of                *)
(* Lifetime/__init__.py over the sockets of HttpServer.                    *)
(*                                                                         *)
(* Each turn of the shutdown loop offers the phase to every open socket,   *)
(* which may veto the next phase, then polls once if there was a veto.     *)
(***************************************************************************)
EXTENDS HttpServer

CONSTANT Listener   \* the socket of the http server
ASSUME ListenerAssumption == Listener \notin Channels

VARIABLES phase,     \* _shutdown_phase
          stage,     \* the shutdown loop: polling, starting a turn, or in its for
          todo,      \* the sockets this turn has yet to visit
          veto,      \* the local variable veto
          listening, \* the http server accepts connections
          forced     \* some phase ended by its timeout, against a veto

turn == <<stage, todo, veto>>
lifetime == <<phase, turn, listening, forced>>
allVars == <<vars, lifetime>>

LInit ==
    /\ Init
    /\ phase = 0
    /\ stage = "poll" /\ todo = {} /\ veto = FALSE
    /\ listening = TRUE /\ forced = FALSE

-----------------------------------------------------------------------------
(* The application, or a signal handler, asks for shutdown. *)
Shutdown ==
    /\ phase = 0
    /\ phase' = 1
    /\ UNCHANGED <<vars, turn, listening, forced>>

\* asyncore.poll as the two loops call it: again and again in phase 0, once
\* between two turns of the shutdown loop afterwards.
LPoll ==
    /\ stage = "poll"
    /\ phase = 0 \/ main = "poll"
    /\ Poll
    /\ UNCHANGED lifetime

\* select gives up after its timeout.
SelectTimesOut ==
    /\ main = "select"
    /\ main' = "events"
    /\ UNCHANGED <<watched, triggered, reading, sending, thenClose, open, closed,
                   input, backlog, working, noMore, fifo, pool, pipe, sent, logged,
                   lifetime>>

MainEvent ==
    /\ stage = "poll"
    /\ Events \/ (listening /\ Accepting)
    /\ UNCHANGED lifetime

WorkerStep ==
    /\ phase < 4
    /\ \E w \in Workers : Working(w)
    /\ UNCHANGED lifetime

-----------------------------------------------------------------------------
(* graceful_shutdown_loop *)

\* Mutated: "<= 4".
UpToFour == phase \in 1 .. 4

ShuttingDown == phase \in 1 .. 3

BeginTurn ==
    /\ ShuttingDown
    /\ \/ stage = "begin"
       \/ stage = "poll" /\ main = "events" /\ reading = NoChannel /\ sending = NoChannel
    /\ stage' = "control"
    /\ todo' = open \cup (IF listening THEN {Listener} ELSE {})
    /\ veto' = FALSE
    /\ UNCHANGED <<vars, phase, listening, forced>>

\* Mutated: without writable(); without the close.
OnlyWorking(c) == working[c]
LeaveOpen(c) == UNCHANGED <<open, closed, current, backlog, working, fifo, logged>>

\* self.working or self.writable()
Busy(c) == working[c] \/ fifo[c] # <<>>

CloseIdle(c) == Close({c}) /\ open' = open \ {c}

\* zhttp_channel.clean_shutdown_control
ChannelControl(c) ==
    IF phase = 3
    THEN /\ noMore' = [noMore EXCEPT ![c] = TRUE]
         /\ IF Busy(c)
            THEN /\ veto' = TRUE
                 /\ UNCHANGED <<open, closed, current, backlog, working, fifo, logged>>
            ELSE CloseIdle(c) /\ UNCHANGED veto
    ELSE UNCHANGED <<noMore, veto, open, closed, current, backlog, working, fifo,
                     logged>>

\* "veto = veto or fn(...)": after the first veto no other socket is called.
VisitChannel(c) ==
    /\ stage = "control" /\ c \in todo
    /\ todo' = todo \ {c}
    /\ IF veto
       THEN UNCHANGED <<noMore, veto, open, closed, current, backlog, working, fifo,
                        logged>>
       ELSE ChannelControl(c)
    /\ UNCHANGED <<loop, arrived, pool, pipe, sent, phase, stage, listening, forced>>

\* zhttp_server.clean_shutdown_control
VisitListener ==
    /\ stage = "control" /\ Listener \in todo
    /\ todo' = todo \ {Listener}
    /\ listening' = (listening /\ (veto \/ phase # 2))
    /\ UNCHANGED <<vars, phase, stage, veto, forced>>

\* A veto stalls the phase while its time is not up: poll once and ask again.
Stall ==
    /\ stage = "control" /\ todo = {}
    /\ veto
    /\ stage' = "poll"
    /\ main' = "poll"
    /\ UNCHANGED <<watched, triggered, reading, sending, thenClose, open, closed,
                   input, backlog, working, noMore, fifo, pool, pipe, sent, logged,
                   phase, todo, veto, listening, forced>>

\* Mutated: a veto holds forever.
WithoutTimeout ==
    /\ stage = "control" /\ todo = {}
    /\ ~veto
    /\ phase' = phase + 1
    /\ stage' = "begin"
    /\ UNCHANGED <<vars, todo, veto, listening, forced>>

\* No veto, or no time left.
NextPhase ==
    /\ stage = "control" /\ todo = {}
    /\ phase' = phase + 1
    /\ stage' = "begin"
    /\ forced' = (forced \/ veto)
    /\ UNCHANGED <<vars, todo, veto, listening>>

-----------------------------------------------------------------------------
LNext ==
    \/ Shutdown \/ LPoll \/ SelectTimesOut \/ MainEvent \/ WorkerStep
    \/ BeginTurn
    \/ \E c \in Channels : VisitChannel(c)
    \/ VisitListener \/ Stall \/ NextPhase

LSpec == LInit /\ [][LNext]_allVars

\* The main thread runs and time passes: a phase that keeps being vetoed runs out
\* of time.  Nothing is assumed of the application.
MainRuns == WF_allVars(\/ LPoll \/ SelectTimesOut \/ MainEvent \/ BeginTurn
                       \/ VisitListener \/ Stall \/ NextPhase
                       \/ \E c \in Channels : VisitChannel(c))
LFairSpec == LSpec /\ MainRuns /\ SF_allVars(NextPhase)

-----------------------------------------------------------------------------
(* Properties *)

LTypeOK ==
    /\ TypeOK
    /\ phase \in 0 .. 4
    /\ stage \in {"poll", "begin", "control"}
    /\ todo \subseteq Channels \cup {Listener}
    /\ {veto, listening, forced} \subseteq BOOLEAN

\* A worker still has something of a response of c to hand over.
StillWriting(c) ==
    \E w \in Workers : /\ serving[w] # NoRequest /\ ServedOn(w) = c
                       /\ {"write", "log", "done"} \cap Range(script[w]) # {}

\* Shutdown closes a connection only when none of its requests is with the pool
\* and no piece of a response waits to be sent: HTTPServer.py:373-378.
ShutdownWaits ==
    [][\A c \in open \ open' :
          stage = "control" =>
              /\ ~StillWriting(c)
              /\ \A r \in Requests : ChannelOf(r) = c => ~Undone(r)
              /\ \A i \in DOMAIN fifo[c] : fifo[c][i][1] \notin {"write", "reply"}]_allVars

\* If no phase ran out of time, no connection is open when the server exits: none
\* was missed by the turn that let phase 3 end, and none came in after phase 2.
CleanExit == phase = 4 /\ ~forced => open = {}

\* Once asked for, shutdown ends, even if the application never returns.
ShutdownEnds == phase = 1 ~> phase = 4
=============================================================================
