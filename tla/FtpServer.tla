------------------------------ MODULE FtpServer ------------------------------
(***************************************************************************)
(* The FTP server (ZServer/FTPServer.py over medusa/ftp_server.py):        *)
(* control channels whose commands become requests for the workers, the    *)
(* completions that come back through the trigger, active and passive data *)
(* channels, and the limits on logins.                                     *)
(*                                                                         *)
(* Clients send a command when the one before it has been answered, but   *)
(* for ABOR; a USER that names a folder is followed by PASS.  Commands,    *)
(* replies and requests carry a number that tells which command a reply is *)
(* to: the program does not have it.                                       *)
(***************************************************************************)
EXTENDS Integers, FiniteSets, FiniteSetsExt, Sequences, SequencesExt

CONSTANTS
    Channels, Dcs,
    Plans,         \* what the clients may send: sets of commands (name, arg) by channel
    AnonLimit, UserLimit, TotalLimit,
    Urgent,        \* whether clients send ABOR at any time, not just in a transfer
    Home, NoPath, NoUser, NoDc, NoLoad, NoId

\* CWD names a folder.
ASSUME FtpAssumption ==
    /\ AnonLimit \in Nat /\ UserLimit \in Nat /\ TotalLimit \in Nat
    /\ Urgent \in BOOLEAN /\ NoDc \notin Dcs /\ NoId = 0
    /\ IsFiniteSet(Channels) /\ IsFiniteSet(Dcs)
    /\ \A p \in Plans : \A c \in Channels : \A m \in p[c] : m.name = "CWD" => m.arg.path # NoPath

VARIABLES
    chan,      \* the control channels
    dcs,       \* the data channels
    requests,  \* what the workers have
    thunks,    \* completions, for the main thread
    line,      \* commands on their way
    user       \* what the clients may send and know: cwd, what they wait for, want and got

vars == <<chan, dcs, requests, thunks, line, user>>

-----------------------------------------------------------------------------
(* Replies *)

Bye == [to |-> NoId, code |-> 0]        \* the None of close_when_done

Respond(r, n, code) == [r EXCEPT !.out = Append(@, [to |-> n, code |-> code])]
CloseWhenDone(r) == [r EXCEPT !.out = Append(@, Bye)]

\* as is the user that was let in by a folder: the program does not keep it.
NewChannel ==
    [state |-> "open", authorized |-> FALSE, anonymous |-> TRUE, userid |-> NoUser, as |-> NoUser, at |-> NoPath,
     path |-> Home, restart |-> FALSE, from |-> NoLoad, pasv |-> "none", dc |-> NoDc,
     producers |-> NoLoad, out |-> <<>>]

Numbers(c) ==
    UNION {ToSet(user[c].owed), {x.to : x \in ToSet(chan[c].out)}, {q.to : q \in {x \in requests : x.chan = c}},
           {t.to : t \in {x \in ToSet(thunks) : x.chan = c}},
           {dcs[d].to : d \in {x \in Dcs : dcs[x].chan = c /\ dcs[x].state # "free"}}}
NewNumber(c) == CHOOSE n \in 1 .. Cardinality(Numbers(c)) + 1 : n \notin Numbers(c)

-----------------------------------------------------------------------------
(* Clients *)

\* FTPServer.handle_accept; while the server listens
Accept(c) ==
    /\ chan[c].state = "none" /\ chan' = [chan EXCEPT ![c] = NewChannel]
    /\ UNCHANGED <<dcs, requests, thunks, line, user>>

Transferring(c) == \E d \in Dcs : dcs[d].chan = c /\ dcs[d].state = "open" /\ ~dcs[d].ended

Send(c, m) ==
    LET n == NewNumber(c)
    IN  /\ chan[c].state = "open"
        /\ IF m.name = "ABOR" THEN Len(user[c].owed) = 1 /\ (Urgent \/ Transferring(c))
           ELSE user[c].owed = <<>> /\ (m.name = "PASS" \/ user[c].going = NoPath)
        /\ line' = [line EXCEPT ![c] = Append(@, [to |-> n, cmd |-> m])]
        /\ user' = [user EXCEPT ![c] =
              [user[c] EXCEPT !.owed = Append(@, n),
                              !.want = IF m.name \in {"RETR", "LIST", "STOR"} THEN <<n, <<user[c].cwd, m.arg>>>> ELSE @,
                              !.going = IF m.name \in {"CWD", "USER"} THEN m.arg.path ELSE @]]
        /\ UNCHANGED <<chan, dcs, requests, thunks>>

\* The client reads a reply.  A reply to ABOR is also the end of an aborted STOR.
After(owed, n) == LET k == CHOOSE i \in DOMAIN owed : owed[i] = n IN SubSeq(owed, k + 1, Len(owed))

Read(u, x) ==
    LET done == u.want # NoLoad /\ u.want[1] = x.to
    IN  IF x.code < 200 \/ x.to \notin ToSet(u.owed) THEN u ELSE [u EXCEPT !.owed = After(@, x.to),
                   !.cwd = IF x.code \in {230, 250} /\ u.going # NoPath THEN u.going ELSE @,
                   !.going = IF x.code = 331 THEN @ ELSE NoPath,
                   !.want = IF done THEN NoLoad ELSE @, !.got = IF done THEN NoLoad ELSE @]

Flush(c) ==
    LET x == Head(chan[c].out)
    IN  /\ chan[c].state = "open" /\ chan[c].out # <<>> /\ x # Bye
        /\ chan' = [chan EXCEPT ![c].out = Tail(@)]
        /\ user' = [user EXCEPT ![c] = Read(@, x)]
        /\ UNCHANGED <<dcs, requests, thunks, line>>

-----------------------------------------------------------------------------
(* Data channels *)

NoData == [chan |-> NoId, kind |-> "xmit", state |-> "free", to |-> NoId, load |-> NoLoad, ended |-> FALSE]

\* xmit_channel.close with what is left in its queue or not
XmitClosed(r, d, done) ==
    LET gone == [r EXCEPT !.dc = NoDc]
    IN  IF r.state = "open" THEN Respond(gone, dcs[d].to, IF done THEN 226 ELSE 426) ELSE gone

Unused == {d \in Dcs : \/ dcs[d].state = "free"
                       \/ dcs[d].state = "shut" /\ \A c \in Channels : chan[c].dc # d}

\* make_xmit_channel and make_recv_channel: from the acceptor if there is one.
SocketOf(pasv) == CASE pasv = "ready" -> "open" [] pasv = "none" -> "connecting" [] OTHER -> "nosocket"

Made(r, d) == [r EXCEPT !.dc = d, !.pasv = IF @ = "ready" THEN "none" ELSE @]
NewData(c, r, kind, n, load) ==
    [chan |-> c, kind |-> kind, state |-> SocketOf(r.pasv), to |-> n, load |-> load, ended |-> FALSE]

\* Mutated: a connection that comes after its data channel is not given to it.
ArrivesUnused(c) ==
    /\ chan[c].pasv = "listening" /\ chan' = [chan EXCEPT ![c].pasv = "ready"]
    /\ UNCHANGED <<dcs, requests, thunks, line, user>>


\* passive_acceptor.handle_accept
Arrives(c) ==
    LET d == chan[c].dc
    IN  /\ chan[c].pasv = "listening"
        /\ IF d = NoDc THEN dcs' = dcs ELSE dcs' = [dcs EXCEPT ![d].state = "open"]
        /\ chan' = [chan EXCEPT ![c].pasv = IF d = NoDc THEN "ready" ELSE "none"]
        /\ UNCHANGED <<requests, thunks, line, user>>

Connected(d) ==
    /\ dcs[d].state = "connecting" /\ dcs' = [dcs EXCEPT ![d].state = "open"]
    /\ UNCHANGED <<chan, requests, thunks, line, user>>

\* Everything is sent: None is reached.
Transferred(d) ==
    LET c == dcs[d].chan
    IN  /\ dcs[d].kind = "xmit" /\ dcs[d].state = "open" /\ dcs[d].load # NoLoad
        /\ chan' = [chan EXCEPT ![c] = XmitClosed(@, d, TRUE)]
        /\ dcs' = [dcs EXCEPT ![d] = NoData]
        /\ user' = [user EXCEPT ![c].got = dcs[d].load]
        /\ UNCHANGED <<requests, thunks, line>>

\* The connection fails, or is refused.
Lost(d) ==
    LET c == dcs[d].chan
    IN  /\ dcs[d].kind = "xmit" /\ dcs[d].state \in {"open", "connecting"}
        /\ chan' = [chan EXCEPT ![c] = XmitClosed(@, d, FALSE)]
        /\ dcs' = [dcs EXCEPT ![d] = NoData]
        /\ UNCHANGED <<requests, thunks, line, user>>

Handed(c, n, name, load) == requests \cup {[chan |-> c, to |-> n, name |-> name, load |-> load]}

\* Mutated: readable is not replaced, so the end of the data is handled again.
UploadedAgain(d) ==
    /\ dcs[d].kind = "recv" /\ dcs[d].state \in {"open", "connecting"} /\ ~dcs[d].ended
    /\ Urgent \/ Len(user[dcs[d].chan].owed) <= 1
    /\ requests' = Handed(dcs[d].chan, dcs[d].to, "STOR", dcs[d].load)
    /\ UNCHANGED <<chan, dcs, thunks, line, user>>


\* handle_close of a recv_channel, at the end of the data, after an error or when
\* the connection is refused: the content receiver makes the request.  A client that
\* aborts leaves the connection open.
Uploaded(d) ==
    /\ dcs[d].kind = "recv" /\ dcs[d].state \in {"open", "connecting"} /\ ~dcs[d].ended
    /\ Urgent \/ Len(user[dcs[d].chan].owed) <= 1
    /\ dcs' = [dcs EXCEPT ![d].ended = TRUE]
    /\ requests' = Handed(dcs[d].chan, dcs[d].to, "STOR", dcs[d].load)
    /\ UNCHANGED <<chan, thunks, line, user>>

-----------------------------------------------------------------------------
(* Limits *)

\* FTPLimiter.check_limit: a channel that could not be closed still counts.
Existing == {c \in Channels : chan[c].state \in {"open", "stuck"}}

\* Mutated: only the channels that are logged in are counted.
CheckAuthorized(r) ==
    LET in == {c \in Existing : chan[c].authorized}
        same == {c \in in : IF r.anonymous THEN chan[c].anonymous ELSE chan[c].userid = r.userid}
    IN  /\ Cardinality(same) <= (IF r.anonymous THEN AnonLimit ELSE UserLimit)
        /\ Cardinality(in) <= TotalLimit


\* r is one of them.
CheckLimit(r) ==
    LET same == {c \in Existing : IF r.anonymous THEN chan[c].anonymous ELSE chan[c].userid = r.userid}
    IN  /\ Cardinality(same) <= (IF r.anonymous THEN AnonLimit ELSE UserLimit)
        /\ Cardinality(Existing) <= TotalLimit

-----------------------------------------------------------------------------
(* found_terminator and the commands *)

Ready(c, names) ==
    /\ chan[c].state = "open" /\ line[c] # <<>> /\ Head(line[c]).cmd.name \in names
    /\ chan[c].authorized \/ names \subseteq {"USER", "PASS", "QUIT"}

Number(c) == Head(line[c]).to
Arg(c) == Head(line[c]).cmd.arg
Consumed(c) == line' = [line EXCEPT ![c] = Tail(@)]

\* The channel becomes r; nothing else happens.
Answered(c, r) ==
    /\ Consumed(c) /\ chan' = [chan EXCEPT ![c] = r] /\ UNCHANGED <<dcs, requests, thunks, user>>

\* The channel becomes r, and a request goes to the workers.
Asked(c, r, name, load) ==
    /\ Consumed(c) /\ chan' = [chan EXCEPT ![c] = r] /\ requests' = Handed(c, Number(c), name, load)
    /\ UNCHANGED <<dcs, thunks, user>>

NotLoggedIn(c) ==
    /\ chan[c].state = "open" /\ line[c] # <<>> /\ ~chan[c].authorized
    /\ Head(line[c]).cmd.name \notin {"USER", "PASS", "QUIT"}
    /\ Answered(c, Respond(chan[c], Number(c), 530))

\* TYPE, PORT, PWD, NOOP, FEAT, APPE ...: answered at once
Cmd_noop(c) == Ready(c, {"NOOP"}) /\ Answered(c, Respond(chan[c], Number(c), 200))

Cmd_quit(c) == Ready(c, {"QUIT"}) /\ Answered(c, CloseWhenDone(Respond(chan[c], Number(c), 221)))

Cmd_rest(c) ==
    Ready(c, {"REST"}) /\ Answered(c, Respond([chan[c] EXCEPT !.restart = Arg(c)], Number(c), 350))

\* The acceptor that may be there is closed.
Cmd_pasv(c) ==
    Ready(c, {"PASV"}) /\ Answered(c, Respond([chan[c] EXCEPT !.pasv = "listening", !.dc = NoDc], Number(c), 227))

Cmd_user(c) ==
    /\ Ready(c, {"USER"})
    /\ Answered(c, Respond([chan[c] EXCEPT !.userid = Arg(c).name, !.at = Arg(c).path, !.as = NoUser], Number(c), 331))

\* user@path is asked of Zope; others are limited at once.
Cmd_pass(c) ==
    LET r == chan[c]
    IN  /\ Ready(c, {"PASS"})
        /\ IF r.at # NoPath THEN Asked(c, [r EXCEPT !.anonymous = FALSE, !.at = NoPath], "PASS", <<r.at, NoLoad>>)
           ELSE IF CheckLimit(r)
                THEN Answered(c, Respond([r EXCEPT !.authorized = TRUE, !.anonymous = TRUE], Number(c), 230))
                ELSE Answered(c, CloseWhenDone(Respond(r, Number(c), 421)))

\* MDTM, SIZE, DELE, MKD, RMD
Cmd_ask(c) == Ready(c, {"ASK"}) /\ Asked(c, chan[c], "ASK", NoLoad)

Cmd_cwd(c) == Ready(c, {"CWD"}) /\ Asked(c, chan[c], "CWD", <<Arg(c).path, NoLoad>>)

Cmd_list(c) == Ready(c, {"LIST"}) /\ Asked(c, chan[c], "LIST", <<chan[c].path, Arg(c)>>)

\* Mutated: the producers of a RETR that failed are kept.
RetrKept(c) ==
    LET load == <<chan[c].path, Arg(c)>>
    IN  Ready(c, {"RETR"}) /\ Asked(c, [chan[c] EXCEPT !.producers = IF @ = NoLoad THEN load ELSE @], "RETR", load)


Cmd_retr(c) ==
    LET load == <<chan[c].path, Arg(c)>>
    IN  Ready(c, {"RETR"}) /\ Asked(c, [chan[c] EXCEPT !.producers = load], "RETR", load)

Cmd_rnfr(c) == Ready(c, {"RNFR"}) /\ Asked(c, [chan[c] EXCEPT !.from = Arg(c)], "RNFR", NoLoad)

Cmd_stor(c) ==
    LET r == chan[c]
        d == CHOOSE x \in Unused : TRUE
    IN  /\ Ready(c, {"STOR"})
        /\ IF r.restart THEN Answered(c, Respond(r, Number(c), 553))
           ELSE /\ Unused # {} /\ Consumed(c)
                /\ chan' = [chan EXCEPT ![c] = Made(Respond(r, Number(c), 150), d)]
                /\ dcs' = [dcs EXCEPT ![d] = NewData(c, r, "recv", Number(c), <<r.path, Arg(c)>>)]
                /\ UNCHANGED <<requests, thunks, user>>

\* client_dc.close(), with the channel and the data channel after it.  Without a
\* socket it raises.
Raises(d) == d # NoDc /\ dcs[d].state = "nosocket"
ClosedData(r) == IF r.dc = NoDc \/ dcs[r.dc].kind = "recv" THEN r ELSE XmitClosed(r, r.dc, FALSE)
DcsWithout(d) ==
    IF d = NoDc THEN dcs
    ELSE IF dcs[d].kind = "xmit" THEN [dcs EXCEPT ![d] = NoData]
    ELSE IF Raises(d) THEN dcs ELSE [dcs EXCEPT ![d].state = "shut"]

Cmd_abor(c) ==
    LET r == chan[c]
    IN  /\ Ready(c, {"ABOR"}) /\ Consumed(c)
        /\ chan' = [chan EXCEPT ![c] = Respond(ClosedData(r), Number(c), IF Raises(r.dc) THEN 451 ELSE 226)]
        /\ dcs' = DcsWithout(r.dc)
        /\ UNCHANGED <<requests, thunks, user>>

\* RNTO without RNFR, and whatever else raises
Failed(c) ==
    LET r == chan[c]
    IN  /\ Consumed(c)
        /\ chan' = [chan EXCEPT ![c] = Respond(ClosedData(r), Number(c), 451)]
        /\ dcs' = DcsWithout(r.dc)
        /\ UNCHANGED <<requests, thunks, user>>

Cmd_rnto(c) ==
    Ready(c, {"RNTO"}) /\ IF chan[c].from = NoLoad THEN Failed(c) ELSE Asked(c, chan[c], "RNTO", NoLoad)

-----------------------------------------------------------------------------
(* Workers and completions *)

\* A worker publishes a request; Wakeup moves the callback to the main thread.
Work(q, ok, odd) ==
    /\ q \in requests /\ requests' = requests \ {q}
    /\ odd => ok /\ q.name \in {"CWD", "PASS", "RETR"}     \* a document; a page that is streamed
    /\ thunks' = Append(thunks, [chan |-> q.chan, to |-> q.to, name |-> q.name, load |-> q.load, ok |-> ok, odd |-> odd])
    /\ user' = IF q.name = "STOR" /\ ok THEN [user EXCEPT ![q.chan].got = q.load] ELSE user
    /\ UNCHANGED <<chan, dcs, line>>

Served(c) == \E q \in {x \in requests : x.chan = c}, ok \in BOOLEAN, odd \in BOOLEAN : Work(q, ok, odd)

\* The channel of the first completion becomes r; nothing else happens.
Completed(r) ==
    /\ thunks' = Tail(thunks) /\ chan' = [chan EXCEPT ![Head(thunks).chan] = r]
    /\ UNCHANGED <<dcs, requests, line, user>>

Done(names) == thunks # <<>> /\ Head(thunks).name \in names

\* They are no longer anonymous who were let in.
Known(r) == IF r.anonymous /\ r.userid # "anonymous" THEN [r EXCEPT !.anonymous = FALSE] ELSE r

\* mdtm_completion, size_completion, dele_completion, rnfr_completion ...
Ask_completion ==
    LET t == Head(thunks)
    IN  /\ Done({"ASK", "RNFR", "RNTO"})
        /\ Completed(Respond(chan[t.chan], t.to, IF ~t.ok THEN 550 ELSE IF t.name = "RNFR" THEN 350 ELSE 213))

Cwd_completion ==
    LET t == Head(thunks)
        r == chan[t.chan]
    IN  /\ Done({"CWD"})
        /\ IF ~t.ok \/ t.odd THEN Completed(Respond(r, t.to, 550))
           ELSE Completed(Known(Respond([r EXCEPT !.path = t.load[1]], t.to, 250)))

Passed(r, t) ==
    LET in == [r EXCEPT !.path = t.load[1], !.authorized = TRUE, !.as = r.userid, !.anonymous = (r.userid = "anonymous")]
    IN  IF ~t.ok THEN Respond(r, t.to, 530)
        ELSE IF ~CheckLimit(r) THEN Respond(CloseWhenDone(r), t.to, 421)
        ELSE IF t.odd THEN Respond(r, t.to, 530)
        ELSE Respond(in, t.to, 230)

Pass_completion ==
    LET t == Head(thunks) IN Done({"PASS"}) /\ Completed(Passed(chan[t.chan], t))

\* listdir_completion and retr_completion.  What was streamed is taken from the
\* producers of the last RETR.
Opened(c, r, t, load) ==
    LET d == CHOOSE x \in Unused : TRUE
    IN  /\ Unused # {}
        /\ chan' = [chan EXCEPT ![c] = IF load = NoLoad THEN Made(r, d) ELSE Respond(Made(r, d), t.to, 150)]
        /\ dcs' = [dcs EXCEPT ![d] = NewData(c, r, "xmit", t.to, load)]
        /\ thunks' = Tail(thunks) /\ UNCHANGED <<requests, line, user>>

Listdir_completion ==
    LET t == Head(thunks)
        r == chan[t.chan]
    IN  /\ Done({"LIST"})
        /\ IF t.ok THEN Opened(t.chan, Known(r), t, t.load) ELSE Completed(Respond(r, t.to, 550))

Streamed(r, t) == IF t.odd THEN r.producers ELSE t.load

Retr_completion ==
    LET t == Head(thunks)
        r == chan[t.chan]
    IN  /\ Done({"RETR"})
        /\ IF t.ok
           THEN Opened(t.chan, IF Streamed(r, t) = NoLoad THEN r ELSE [r EXCEPT !.producers = NoLoad], t, Streamed(r, t))
           ELSE Completed(Respond(r, t.to, 550))

\* The reply and the end go through client_dc, whatever it is by now.
Stor_completion ==
    LET t == Head(thunks)
        r == chan[t.chan]
        told == Respond(r, t.to, IF t.ok THEN 226 ELSE 426)
    IN  /\ Done({"STOR"})
        /\ IF r.dc = NoDc THEN Completed(r)
           ELSE /\ chan' = [chan EXCEPT ![t.chan] = ClosedData(told)]
                /\ dcs' = DcsWithout(r.dc)
                /\ thunks' = Tail(thunks) /\ UNCHANGED <<requests, line, user>>

-----------------------------------------------------------------------------
(* The end of a control channel: close, when the client hangs up or None is   *)
(* reached.  A data channel without a socket makes it raise, and the channel  *)
(* stays in the socket map.                                                   *)

NewUser == [plan |-> {}, cwd |-> Home, going |-> NoPath, owed |-> <<>>, want |-> NoLoad, got |-> NoLoad]

Close(c) ==
    LET r == chan[c]
    IN  /\ r.state = "open"
        /\ chan' = [chan EXCEPT ![c] =
              [ClosedData([r EXCEPT !.state = "closed"])
                  EXCEPT !.state = IF Raises(r.dc) THEN "stuck" ELSE "closed",
                         !.pasv = IF @ = "listening" THEN "dead" ELSE @, !.out = <<>>]]
        /\ dcs' = DcsWithout(r.dc)
        /\ line' = [line EXCEPT ![c] = <<>>] /\ user' = [user EXCEPT ![c] = NewUser]
        /\ UNCHANGED <<requests, thunks>>

\* None is reached.
Ends(c) == chan[c].out # <<>> /\ Head(chan[c].out) = Bye /\ Close(c)

Init ==
    /\ chan = [c \in Channels |-> [NewChannel EXCEPT !.state = "none"]]
    /\ dcs = [d \in Dcs |-> NoData] /\ requests = {} /\ thunks = <<>>
    /\ line = [c \in Channels |-> <<>>]
    /\ \E p \in Plans : user = [c \in Channels |-> [NewUser EXCEPT !.plan = p[c]]]

Handle(c) ==
    \/ NotLoggedIn(c) \/ Cmd_noop(c) \/ Cmd_quit(c) \/ Cmd_rest(c) \/ Cmd_pasv(c) \/ Cmd_user(c) \/ Cmd_pass(c)
    \/ Cmd_ask(c) \/ Cmd_cwd(c) \/ Cmd_list(c) \/ Cmd_retr(c) \/ Cmd_rnfr(c) \/ Cmd_rnto(c) \/ Cmd_stor(c) \/ Cmd_abor(c)

Apply ==
    \/ Ask_completion \/ Cwd_completion \/ Pass_completion
    \/ Listdir_completion \/ Retr_completion \/ Stor_completion

Next ==
    \/ \E c \in Channels : Accept(c)
    \/ \E c \in Channels : \E m \in user[c].plan : Send(c, m)
    \/ \E c \in Channels : Handle(c)
    \/ \E c \in Channels : Flush(c)
    \/ \E c \in Channels : Arrives(c)
    \/ \E d \in Dcs : Connected(d)
    \/ \E d \in Dcs : Transferred(d)
    \/ \E d \in Dcs : Lost(d)
    \/ \E d \in Dcs : Uploaded(d)
    \/ \E c \in Channels : Served(c)
    \/ Apply
    \/ \E c \in Channels : Close(c)

Spec == Init /\ [][Next]_vars

\* The loop goes on, the pool serves every request, clients make and end the data connections.
FairSpec ==
    /\ Spec /\ WF_vars(Apply)
    /\ \A c \in Channels : WF_vars(Handle(c)) /\ WF_vars(Flush(c)) /\ WF_vars(Arrives(c)) /\ WF_vars(Served(c)) /\ WF_vars(Ends(c))
    /\ \A d \in Dcs : WF_vars(Connected(d)) /\ WF_vars(Transferred(d)) /\ WF_vars(Uploaded(d))

-----------------------------------------------------------------------------
(* Properties *)

\* A reply that a client reads is to the command it waits for: no completion comes
\* late, twice, or for another.  (The end of an aborted STOR is told with ABOR.)
RepliesFit ==
    \A c \in Channels : chan[c].state = "open" /\ chan[c].out # <<>> /\ Head(chan[c].out) # Bye =>
        LET x == Head(chan[c].out)
            owed == user[c].owed
        IN  owed # <<>> /\ (x.to = Head(owed) \/ (Len(owed) = 2 /\ x.to = owed[2] /\ x.code = 226))

\* What a transfer ends with success carried is what the client asked for, by the
\* names as the client sees them: the right file of the right folder.
DataIsAsked ==
    \A c \in Channels : \A k \in DOMAIN chan[c].out :
        LET x == chan[c].out[k]
            w == user[c].want
        IN  chan[c].state = "open" /\ w # NoLoad /\ x = [to |-> w[1], code |-> 226] => user[c].got = w[2]

\* However logins overlap and answers from the workers come late, no more channels
\* are let in than the total limit allows, nor more of one user that named a folder
\* than the user limit (check_limit runs when the answer is there, not before).
LimitsHold ==
    LET in == {c \in Channels : chan[c].state = "open" /\ chan[c].authorized}
    IN  /\ Cardinality(in) <= TotalLimit
        /\ \A u \in {chan[c].as : c \in in} \ {NoUser} : Cardinality({c \in in : chan[c].as = u}) <= UserLimit

\* Every command is answered at last, or the channel closes.
EveryCommandAnswered == \A c \in Channels : user[c].owed # <<>> ~> user[c].owed = <<>>
=============================================================================
