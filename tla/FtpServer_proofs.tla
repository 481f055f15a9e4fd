-------------------------- MODULE FtpServer_proofs --------------------------
(***************************************************************************)
(* Theorems about the FTP server, for any control and data channels, any   *)
(* limits and any commands.                                                *)
(*                                                                         *)
(* The argument follows a command.  A client that waits for one reply has  *)
(* one thing under way: the command on the line, a request at a worker, a  *)
(* completion, a live data channel or the last reply, and none of them     *)
(* twice (Orderly).  Each of these knows enough of what the client wants   *)
(* for the next to be right (Knows): the completion of a RETR has the      *)
(* folder and the file the client asked for, the data channel carries      *)
(* them, the 226 is sent behind them.  An ABOR breaks the rule of one      *)
(* thing: then the second command is the ABOR, and what is under way of    *)
(* the first is a data channel that it closes, or its last reply.          *)
(*                                                                         *)
(* Urgent = FALSE says that clients abort a running transfer only.  With   *)
(* urgent ABORs the request of the aborted command stays with the workers  *)
(* and its replies are strays.  Types do not depend on it.                 *)
(***************************************************************************)
EXTENDS FtpServer, Lists, FiniteSetTheorems

-----------------------------------------------------------------------------
(* Types.  What a client may send is known from Plans alone. *)

Messages == UNION {UNION {p[c] : c \in Channels} : p \in Plans}
Named(names) == {m \in Messages : m.name \in names}
Args == {m.arg : m \in Named({"RETR", "STOR", "LIST", "RNFR"})} \cup {NoLoad}
Paths == {m.arg.path : m \in Named({"USER", "CWD"})} \cup {NoPath, Home}
UserIds == {m.arg.name : m \in Named({"USER"})} \cup {NoUser}
Restarts == {m.arg : m \in Named({"REST"})} \cup {FALSE}
Loads == (Paths \X Args) \cup {NoLoad}
Codes == {150, 200, 213, 221, 226, 227, 230, 250, 331, 350, 421, 426, 451, 530, 550, 553}
Reply == {Bye} \cup [to : Nat, code : Codes]

ReqNames == {"STOR", "PASS", "ASK", "CWD", "LIST", "RETR", "RNFR", "RNTO"}
HasFolder(q) == q.name \in {"CWD", "PASS"} => q.load \in Paths \X Args

Channel ==
    [state : {"none", "open", "closed", "stuck"}, authorized : BOOLEAN, anonymous : BOOLEAN,
     userid : UserIds, as : UserIds, at : Paths, path : Paths, restart : Restarts,
     from : Args, pasv : {"none", "listening", "ready", "dead"}, dc : Dcs \cup {NoDc},
     producers : Loads, out : Seq(Reply)]
Data ==
    {w \in [chan : Channels \cup {NoId}, kind : {"xmit", "recv"}, state : {"free", "open", "connecting", "nosocket", "shut"},
            to : Nat, load : Loads, ended : BOOLEAN] :
        IF w.state = "free" THEN w.kind = "xmit" ELSE w.chan \in Channels}
Request == {q \in [chan : Channels, to : Nat, name : ReqNames, load : Loads] : HasFolder(q)}
Thunk ==
    {t \in [chan : Channels, to : Nat, name : ReqNames, load : Loads, ok : BOOLEAN, odd : BOOLEAN] : HasFolder(t)}
Command == [to : Nat, cmd : Messages]
Client ==
    [plan : SUBSET Messages, cwd : Paths, going : Paths, owed : Seq(Nat),
     want : {NoLoad} \cup (Nat \X (Paths \X Args)), got : Loads]

TypeInv ==
    /\ chan \in [Channels -> Channel]
    /\ dcs \in [Dcs -> Data]
    /\ requests \subseteq Request /\ IsFiniteSet(requests)
    /\ thunks \in Seq(Thunk)
    /\ line \in [Channels -> Seq(Command)]
    /\ user \in [Channels -> Client]

-----------------------------------------------------------------------------
(* The data channels: who points to them, and in what state.               *)

DataOk(w) ==
    /\ w.kind = "xmit" => w.state # "shut" /\ ~w.ended
    /\ w.ended => w.state # "nosocket"

PointsTo(c, r, w) ==
    /\ w.chan = c /\ w.state # "free"
    /\ r.pasv = "listening" => w.state = "nosocket"

DataInv ==
    /\ \A c \in Channels : chan[c].dc # NoDc => PointsTo(c, chan[c], dcs[chan[c].dc])
    /\ \A d \in Dcs : DataOk(dcs[d])

-----------------------------------------------------------------------------
(* One thing at a time: o are the numbers a client is owed replies to, and *)
(* what it sent is on the line, with the workers, in a completion, in a    *)
(* data channel or answered, and never in two of these places.             *)

Reqs(c) == {q \in requests : q.chan = c}
Thunks(c) == {t \in Range(thunks) : t.chan = c}
Once(c) == \A i, j \in DOMAIN thunks : thunks[i].chan = c /\ thunks[j].chan = c => i = j
Alive(w) == w.state \in {"open", "connecting", "nosocket"} /\ ~w.ended
LiveOf(c) == {d \in Dcs : dcs[d].chan = c /\ Alive(dcs[d])}
Active(c) == {dcs[d] : d \in LiveOf(c)}

NoFinal(out) == \A k \in DOMAIN out : out[k].code < 200

\* The last reply to a command is its last, and the second command's follow the first's.
OutInOrder(o, out) ==
    \A k, l \in DOMAIN out : k < l /\ out[k] # Bye /\ out[l] # Bye =>
        /\ out[k].code >= 200 => out[l].to # out[k].to
        /\ out[l].to = o[1] => out[k].to = o[1]

Nothing(ln, Q, T, A, out) ==
    ln = <<>> /\ Q = {} /\ T = {} /\ A = {} /\ \A k \in DOMAIN out : out[k] = Bye

OneThing(n, ln, Q, T, A, out) ==
    /\ ln # <<>> => ln[1].to = n /\ Q = {} /\ T = {} /\ A = {} /\ NoFinal(out)
    /\ Q # {} => T = {} /\ A = {} /\ NoFinal(out)
    /\ T # {} => A = {} /\ NoFinal(out)
    /\ A # {} => NoFinal(out)
    /\ \A p, q \in Q : p = q /\ q.to = n
    /\ \A t \in T : t.to = n
    /\ \A a \in A : a.to = n
    /\ \A k \in DOMAIN out : out[k] # Bye => out[k].to = n

Aborting(n, m, ln, Q, T, A, out) ==
    /\ n # m /\ Q = {} /\ T = {}
    /\ ln # <<>> => ln[1].to = m /\ ln[1].cmd.name = "ABOR" /\ \A k \in DOMAIN out : out[k] # Bye => out[k].to = n
    /\ A # {} => ln # <<>> /\ NoFinal(out)
    /\ \A a \in A : a.to = n /\ a.state = "open"
    /\ \A k \in DOMAIN out : out[k] # Bye => out[k].to = n \/ (out[k].to = m /\ out[k].code = 226)

Orderly(o, ln, Q, T, A, out) ==
    /\ Len(o) <= 2 /\ Len(ln) <= 1
    /\ Len(o) = 0 => Nothing(ln, Q, T, A, out)
    /\ Len(o) = 1 => OneThing(o[1], ln, Q, T, A, out)
    /\ Len(o) = 2 => Aborting(o[1], o[2], ln, Q, T, A, out)
    /\ Len(o) > 0 => OutInOrder(o, out)

OrderlyType(o, ln, Q, T, A, out) ==
    o \in Seq(Nat) /\ ln \in Seq(Command) /\ Q \subseteq Request /\ T \subseteq Thunk /\ A \subseteq Data /\ out \in Seq(Reply)

LEMMA UpToTwo == \A n \in Nat : n <= 2 => n \in {0, 1, 2} /\ (n # 0 => n \in {1, 2})
OBVIOUS

LEMMA ReplyFacts ==
    ASSUME NEW out \in Seq(Reply), NEW x \in Reply
    PROVE  /\ Append(out, x) \in Seq(Reply)
           /\ Len(out) \in Nat /\ DOMAIN out = 1 .. Len(out)
           /\ DOMAIN Append(out, x) = 1 .. Len(out) + 1
           /\ \A k \in 1 .. Len(out) : Append(out, x)[k] = out[k] /\ out[k] \in Reply
           /\ Append(out, x)[Len(out) + 1] = x
BY AppendRange, ListRange

LEMMA ReplyIs ==
    /\ Bye \in Reply /\ Bye.code = 0
    /\ \A x \in Reply : x.code \in Nat /\ (x.code = 0 <=> x = Bye) /\ (x # Bye => x.code \in Codes /\ x.to \in Nat)
    /\ \A n \in Nat, k \in Codes : /\ [to |-> n, code |-> k] \in Reply /\ [to |-> n, code |-> k] # Bye
BY FtpAssumption DEF Reply, Bye, Codes
-----------------------------------------------------------------------------
(* How each kind of step keeps one thing at a time.                        *)

\* A client that is owed nothing sends a command.
LEMMA SendStep ==
    ASSUME NEW o, NEW ln, NEW Q, NEW T, NEW A, NEW out, OrderlyType(o, ln, Q, T, A, out),
           Orderly(o, ln, Q, T, A, out), o = <<>>, NEW n \in Nat, NEW m \in Messages
    PROVE  Orderly(Append(o, n), Append(ln, [to |-> n, cmd |-> m]), Q, T, A, out)
<1>1. Len(o) = 0 /\ Nothing(ln, Q, T, A, out)
  BY DEF Orderly
<1>2. Len(Append(o, n)) = 1 /\ Append(o, n)[1] = n
  BY <1>1, AppendRange DEF OrderlyType
<1>3. ln = <<>> /\ ln \in Seq(Command) /\ [to |-> n, cmd |-> m] \in Command
  BY <1>1 DEF Nothing, OrderlyType, Command
<1>4. /\ Len(Append(ln, [to |-> n, cmd |-> m])) = 1
      /\ Append(ln, [to |-> n, cmd |-> m])[1] = [to |-> n, cmd |-> m]
  BY <1>3, AppendRange
<1>5. NoFinal(out)
  BY <1>1, ReplyIs DEF NoFinal, Nothing
<1>6. OneThing(n, Append(ln, [to |-> n, cmd |-> m]), Q, T, A, out)
  BY <1>1, <1>4, <1>5 DEF OneThing, Nothing
<1>7. OutInOrder(Append(o, n), out)
  BY <1>1 DEF OutInOrder, Nothing
<1> QED BY <1>2, <1>4, <1>6, <1>7 DEF Orderly

LEMMA AppendOwed ==
    ASSUME NEW o \in Seq(Nat), NEW n \in Nat
    PROVE  /\ Append(o, n) \in Seq(Nat) /\ Append(o, n) # <<>>
           /\ Len(Append(o, n)) = Len(o) + 1
           /\ \A i \in 1 .. Len(o) : Append(o, n)[i] = o[i]
           /\ Append(o, n)[Len(o) + 1] = n
BY AppendRange

\* ABOR while a transfer is going on
LEMMA SendAborStep ==
    ASSUME NEW o, NEW ln, NEW Q, NEW T, NEW A, NEW out, OrderlyType(o, ln, Q, T, A, out),
           Orderly(o, ln, Q, T, A, out), Len(o) = 1, A # {}, \A a \in A : a.state = "open",
           NEW n \in Nat, n # o[1], NEW m \in Messages, m.name = "ABOR"
    PROVE  Orderly(Append(o, n), Append(ln, [to |-> n, cmd |-> m]), Q, T, A, out)
<1>1. OneThing(o[1], ln, Q, T, A, out) /\ OutInOrder(o, out)
  BY DEF Orderly
<1>2. /\ Len(Append(o, n)) = 2 /\ Append(o, n)[1] = o[1] /\ Append(o, n)[2] = n
  <2>1. o \in Seq(Nat) /\ 1 \in 1 .. Len(o)
    BY DEF OrderlyType
  <2>2. /\ Len(Append(o, n)) = Len(o) + 1
        /\ \A i \in 1 .. Len(o) : Append(o, n)[i] = o[i]
        /\ Append(o, n)[Len(o) + 1] = n
    BY <2>1, AppendOwed
  <2>3. Len(o) + 1 = 2
    OBVIOUS
  <2> QED BY <2>1, <2>2, <2>3
<1>3. ln = <<>> /\ ln \in Seq(Command) /\ [to |-> n, cmd |-> m] \in Command
  BY <1>1 DEF OneThing, OrderlyType, Command
<1>4. /\ Len(Append(ln, [to |-> n, cmd |-> m])) = 1
      /\ Append(ln, [to |-> n, cmd |-> m])[1] = [to |-> n, cmd |-> m]
  BY <1>3, AppendRange
<1>5. Aborting(o[1], n, Append(ln, [to |-> n, cmd |-> m]), Q, T, A, out)
  BY <1>1, <1>4 DEF OneThing, Aborting
<1>6. OutInOrder(Append(o, n), out)
  BY <1>1, <1>2 DEF OutInOrder
<1> QED BY <1>2, <1>4, <1>5, <1>6 DEF Orderly

LEMMA NoFinalAppend ==
    ASSUME NEW out \in Seq(Reply), NEW x \in Reply, NoFinal(out), x.code < 200
    PROVE  NoFinal(Append(out, x))
BY ReplyFacts DEF NoFinal

LEMMA OutAppend ==
    ASSUME NEW o \in Seq(Nat), NEW out \in Seq(Reply), NEW x \in Reply, OutInOrder(o, out),
           \/ x = Bye
           \/ NoFinal(out) /\ \A k \in DOMAIN out : out[k] # Bye => out[k].to = o[1]
           \/ x.to # o[1] /\ \A k \in DOMAIN out : out[k] # Bye => out[k].to # x.to
    PROVE  OutInOrder(o, Append(out, x))
<1> DEFINE y == Append(out, x)
<1>1. Len(out) \in Nat /\ DOMAIN out = 1 .. Len(out) /\ DOMAIN y = 1 .. Len(out) + 1
  BY ReplyFacts
<1>2. /\ \A k \in 1 .. Len(out) : y[k] = out[k]
      /\ y[Len(out) + 1] = x
  BY ReplyFacts
<1>3. ASSUME NEW k \in DOMAIN y, NEW l \in DOMAIN y, k < l, y[k] # Bye, y[l] # Bye
      PROVE  /\ y[k].code >= 200 => y[l].to # y[k].to
             /\ y[l].to = o[1] => y[k].to = o[1]
  <2>1. k \in 1 .. Len(out) /\ y[k] = out[k]
    BY <1>1, <1>2, <1>3
  <2>2. CASE l \in 1 .. Len(out)
    BY <1>1, <1>2, <1>3, <2>1, <2>2 DEF OutInOrder
  <2>3. CASE l = Len(out) + 1
    <3>1. out[k].code \in Nat
      BY <2>1, <1>1, ReplyIs, ReplyFacts
    <3> QED BY <1>1, <1>2, <1>3, <2>1, <2>3, <3>1 DEF NoFinal
  <2> QED BY <2>2, <2>3, <1>1
<1> QED BY <1>3 DEF OutInOrder

\* The end is told, whatever is going on.
LEMMA ByeStep ==
    ASSUME NEW o, NEW ln, NEW Q, NEW T, NEW A, NEW out, OrderlyType(o, ln, Q, T, A, out),
           Orderly(o, ln, Q, T, A, out)
    PROVE  Orderly(o, ln, Q, T, A, Append(out, Bye))
<1> DEFINE y == Append(out, Bye)
<1>0. o \in Seq(Nat) /\ out \in Seq(Reply) /\ Bye \in Reply /\ Bye.code = 0
  BY ReplyIs DEF OrderlyType
<1>1. Len(out) \in Nat /\ DOMAIN out = 1 .. Len(out) /\ DOMAIN y = 1 .. Len(out) + 1
  BY <1>0, ReplyFacts
<1>2. /\ \A k \in 1 .. Len(out) : y[k] = out[k]
      /\ y[Len(out) + 1] = Bye
  BY <1>0, ReplyFacts
<1>3. NoFinal(out) => NoFinal(y)
  BY <1>0, NoFinalAppend
<1>4. \A k \in DOMAIN y : y[k] # Bye => k \in DOMAIN out /\ y[k] = out[k]
  BY <1>1, <1>2
<1>5. OutInOrder(o, out) => OutInOrder(o, y)
  BY <1>0, OutAppend
<1> HIDE DEF y
<1>6. ASSUME Len(o) = 0 PROVE Orderly(o, ln, Q, T, A, y)
  BY <1>6, <1>4 DEF Orderly, Nothing
<1>7. ASSUME Len(o) = 1 PROVE Orderly(o, ln, Q, T, A, y)
  <2>1. OneThing(o[1], ln, Q, T, A, out) /\ OutInOrder(o, out)
    BY <1>7 DEF Orderly
  <2>2. OneThing(o[1], ln, Q, T, A, y) /\ Len(ln) <= 1
    BY <2>1, <1>3, <1>4 DEF OneThing, Orderly
  <2> QED BY <2>1, <2>2, <1>5, <1>7 DEF Orderly
<1>8. ASSUME Len(o) = 2 PROVE Orderly(o, ln, Q, T, A, y)
  <2>1. Aborting(o[1], o[2], ln, Q, T, A, out) /\ OutInOrder(o, out)
    BY <1>8 DEF Orderly
  <2>2. Aborting(o[1], o[2], ln, Q, T, A, y) /\ Len(ln) <= 1
    BY <2>1, <1>3, <1>4 DEF Aborting, Orderly
  <2> QED BY <2>1, <2>2, <1>5, <1>8 DEF Orderly
<1>9. Len(o) \in {0, 1, 2}
  <2>1. Len(o) \in Nat /\ Len(o) <= 2
    BY <1>0 DEF Orderly
  <2> QED BY <2>1, UpToTwo
<1> QED BY <1>6, <1>7, <1>8, <1>9 DEF y

\* Who is owed one reply: what was going on is replaced by what is given, and out by more.
LEMMA OneStep ==
    ASSUME NEW o, NEW ln, NEW Q, NEW T, NEW A, NEW out, OrderlyType(o, ln, Q, T, A, out),
           Orderly(o, ln, Q, T, A, out), Len(o) = 1, NoFinal(out),
           NEW ln2, NEW Q2, NEW T2, NEW A2, Len(ln2) <= 1, NEW x \in Reply, x.to = o[1] \/ x = Bye,
           OneThing(o[1], ln2, Q2, T2, A2, <<>>),
           x.code >= 200 => ln2 = <<>> /\ Q2 = {} /\ T2 = {} /\ A2 = {}
    PROVE  Orderly(o, ln2, Q2, T2, A2, out) /\ Orderly(o, ln2, Q2, T2, A2, Append(out, x))
<1> DEFINE y == Append(out, x)
<1>0. o \in Seq(Nat) /\ out \in Seq(Reply) /\ x.code \in Nat
  BY ReplyIs DEF OrderlyType
<1>1. OneThing(o[1], ln, Q, T, A, out) /\ OutInOrder(o, out)
  BY DEF Orderly
<1>2. \A k \in DOMAIN out : out[k] # Bye => out[k].to = o[1]
  BY <1>1 DEF OneThing
<1>3. OutInOrder(o, y)
  BY <1>0, <1>1, <1>2, OutAppend
<1>4. \A k \in DOMAIN y : y[k] # Bye => y[k].to = o[1]
  BY <1>0, <1>2, ReplyFacts
<1>5. x.code < 200 => NoFinal(y)
  BY <1>0, NoFinalAppend
<1> HIDE DEF y
<1>6. OneThing(o[1], ln2, Q2, T2, A2, out)
  BY <1>2 DEF OneThing
<1>7. OneThing(o[1], ln2, Q2, T2, A2, y)
  BY <1>0, <1>4, <1>5, <1>6 DEF OneThing
<1> QED BY <1>1, <1>3, <1>6, <1>7 DEF Orderly, y

\* A data channel ends with a reply, whether ABOR is on its way or not.
LEMMA DataEndStep ==
    ASSUME NEW o, NEW ln, NEW Q, NEW T, NEW A, NEW out, OrderlyType(o, ln, Q, T, A, out),
           Orderly(o, ln, Q, T, A, out), NEW a \in A, NEW x \in Reply, x.to = a.to, x # Bye
    PROVE  Orderly(o, ln, Q, T, {}, out) /\ Orderly(o, ln, Q, T, {}, Append(out, x))
<1> DEFINE y == Append(out, x)
<1>0. o \in Seq(Nat) /\ out \in Seq(Reply) /\ x.code \in Nat /\ ln \in Seq(Command)
  BY ReplyIs DEF OrderlyType
<1>1. Len(o) \in {1, 2}
  <2>1. Len(o) \in Nat /\ Len(o) <= 2 /\ Len(o) # 0
    BY <1>0 DEF Orderly, Nothing
  <2> QED BY <2>1, UpToTwo
<1>2. OutInOrder(o, out) /\ NoFinal(out) /\ x.to = o[1]
  BY <1>1 DEF Orderly, OneThing, Aborting
<1>3. \A k \in DOMAIN out : out[k] # Bye => out[k].to = o[1]
  BY <1>1 DEF Orderly, OneThing, Aborting
<1>4. OutInOrder(o, y)
  BY <1>0, <1>2, <1>3, OutAppend
<1>5. \A k \in DOMAIN y : y[k] # Bye => y[k].to = o[1]
  BY <1>0, <1>2, <1>3, ReplyFacts
<1> HIDE DEF y
<1>6. CASE Len(o) = 1
  <2>1. OneThing(o[1], ln, Q, T, A, out)
    BY <1>6 DEF Orderly
  <2>2. ln = <<>> /\ Q = {} /\ T = {}
    BY <2>1 DEF OneThing
  <2>3. OneThing(o[1], ln, Q, T, {}, y) /\ OneThing(o[1], ln, Q, T, {}, out)
    BY <2>2, <1>3, <1>5 DEF OneThing
  <2> QED BY <2>3, <1>2, <1>4, <1>6 DEF Orderly, y
<1>7. CASE Len(o) = 2
  <2>1. Aborting(o[1], o[2], ln, Q, T, A, out)
    BY <1>7 DEF Orderly
  <2>2. Aborting(o[1], o[2], ln, Q, T, {}, y) /\ Aborting(o[1], o[2], ln, Q, T, {}, out)
    BY <2>1, <1>3, <1>5 DEF Aborting
  <2> QED BY <2>2, <1>2, <1>4, <1>7 DEF Orderly, y
<1> QED BY <1>1, <1>6, <1>7

\* ABOR is answered when the transfer is over.
LEMMA AborStep ==
    ASSUME NEW o, NEW ln, NEW Q, NEW T, NEW out, OrderlyType(o, ln, Q, T, {}, out),
           Orderly(o, ln, Q, T, {}, out), Len(o) = 2, ln # <<>>, NEW x \in Reply, x.to = ln[1].to, x.code = 226
    PROVE  Orderly(o, <<>>, Q, T, {}, Append(out, x))
<1> DEFINE y == Append(out, x)
<1>0. o \in Seq(Nat) /\ out \in Seq(Reply) /\ x.code \in Nat /\ ln \in Seq(Command)
  BY ReplyIs DEF OrderlyType
<1>1. Aborting(o[1], o[2], ln, Q, T, {}, out) /\ OutInOrder(o, out)
  BY DEF Orderly
<1>2. x.to = o[2] /\ x.to # o[1] /\ \A k \in DOMAIN out : out[k] # Bye => out[k].to = o[1]
  BY <1>1 DEF Aborting
<1>3. OutInOrder(o, y)
  BY <1>0, <1>1, <1>2, OutAppend, SMTT(30)
<1>4. \A k \in DOMAIN y : y[k] # Bye => y[k].to = o[1] \/ (y[k].to = o[2] /\ y[k].code = 226)
  BY <1>0, <1>2, ReplyFacts
<1> HIDE DEF y
<1>5. Aborting(o[1], o[2], <<>>, Q, T, {}, y)
  BY <1>1, <1>4 DEF Aborting
<1>6. Len(<<>>) = 0
  OBVIOUS
<1> QED BY <1>3, <1>5, <1>6 DEF Orderly, y

\* A data channel that is live is connected.
LEMMA ConnectStep ==
    ASSUME NEW o, NEW ln, NEW Q, NEW T, NEW A, NEW out, OrderlyType(o, ln, Q, T, A, out),
           Orderly(o, ln, Q, T, A, out), NEW A2, A2 # {} => A # {},
           \A b \in A2 : b.state = "open" /\ \A a \in A : b.to = a.to
    PROVE  Orderly(o, ln, Q, T, A2, out)
<1>1. Len(o) \in {0, 1, 2}
  <2>1. Len(o) \in Nat /\ Len(o) <= 2
    BY DEF Orderly, OrderlyType
  <2> QED BY <2>1, UpToTwo
<1>2. CASE Len(o) = 0
  BY <1>2 DEF Orderly, Nothing
<1>3. CASE Len(o) = 1
  BY <1>3 DEF Orderly, OneThing
<1>4. CASE Len(o) = 2
  BY <1>4 DEF Orderly, Aborting
<1> QED BY <1>1, <1>2, <1>3, <1>4

\* The client reads a reply: what is left to wait for.
LEMMA AfterIs ==
    ASSUME NEW o \in Seq(Nat), Len(o) \in {1, 2}, NEW n,
           Len(o) = 2 => o[1] # o[2], n \in Range(o)
    PROVE  /\ After(o, n) \in Seq(Nat)
           /\ Len(o) = 1 => n = o[1] /\ Len(After(o, n)) = 0
           /\ Len(o) = 2 /\ n = o[1] => Len(After(o, n)) = 1 /\ After(o, n)[1] = o[2]
           /\ Len(o) = 2 /\ n # o[1] => n = o[2] /\ Len(After(o, n)) = 0
<1>1. DOMAIN o = 1 .. Len(o) /\ Len(o) \in Nat
  OBVIOUS
<1> DEFINE k == CHOOSE i \in DOMAIN o : o[i] = n
<1>2. \E i \in DOMAIN o : o[i] = n
  BY DEF Range
<1>3. k \in DOMAIN o /\ o[k] = n
  BY <1>2
<1>4. After(o, n) = SubSeq(o, k + 1, Len(o))
  BY DEF After
<1> HIDE DEF k
<1>5. CASE Len(o) = 1
  <2>1. k = 1 /\ SubSeq(o, k + 1, Len(o)) = SubSeq(o, 2, 1)
    BY <1>1, <1>3, <1>5
  <2>2. SubSeq(o, 2, 1) \in Seq(Nat) /\ Len(SubSeq(o, 2, 1)) = 0
    OBVIOUS
  <2> QED BY <2>1, <2>2, <1>3, <1>4, <1>5
<1>6. CASE Len(o) = 2
  <2>1. k \in {1, 2}
    BY <1>1, <1>3, <1>6
  <2>2. CASE k = 1
    <3>1. SubSeq(o, k + 1, Len(o)) = SubSeq(o, 2, 2)
      BY <2>2, <1>6
    <3>2. SubSeq(o, 2, 2) \in Seq(Nat) /\ Len(SubSeq(o, 2, 2)) = 1 /\ SubSeq(o, 2, 2)[1] = o[2]
      <4>1. 2 \in 1 .. Len(o)
        BY <1>6
      <4>2. 2 <= 2 + 1 /\ 2 \in Int /\ 2 - 2 + 1 = 1 /\ 2 - 1 + 1 = 2
        OBVIOUS
      <4> QED BY <4>1, <4>2, <1>1, SubSeqProperties
    <3> QED BY <3>1, <3>2, <2>2, <1>3, <1>4, <1>6
  <2>3. CASE k = 2
    <3>1. SubSeq(o, k + 1, Len(o)) = SubSeq(o, 3, 2)
      BY <2>3, <1>6
    <3>2. SubSeq(o, 3, 2) \in Seq(Nat) /\ Len(SubSeq(o, 3, 2)) = 0
      OBVIOUS
    <3> QED BY <3>1, <3>2, <2>3, <1>3, <1>4, <1>6
  <2> QED BY <2>1, <2>2, <2>3
<1> QED BY <1>5, <1>6

LEMMA OutTail ==
    ASSUME NEW out \in Seq(Reply), out # <<>>
    PROVE  /\ Tail(out) \in Seq(Reply) /\ Head(out) \in Reply /\ 1 \in DOMAIN out /\ Head(out) = out[1]
           /\ \A k \in DOMAIN Tail(out) : k + 1 \in DOMAIN out /\ 1 < k + 1 /\ Tail(out)[k] = out[k + 1]
           /\ \A k, l \in DOMAIN Tail(out) : k < l => k + 1 < l + 1
<1>1. /\ Head(out) \in Reply /\ Tail(out) \in Seq(Reply)
      /\ Len(out) \in Nat \ {0} /\ Len(Tail(out)) = Len(out) - 1
      /\ Head(out) = out[1]
      /\ \A i \in 1 .. Len(Tail(out)) : Tail(out)[i] = out[i + 1]
  BY TailRange
<1>2. DOMAIN Tail(out) = 1 .. Len(out) - 1 /\ DOMAIN out = 1 .. Len(out)
  BY <1>1
<1> QED BY <1>1, <1>2

\* What is still owed when x was read.
Left(o, x) == IF x.code < 200 \/ x.to \notin ToSet(o) THEN o ELSE After(o, x.to)

LEMMA ReadStep ==
    ASSUME NEW o, NEW ln, NEW Q, NEW T, NEW A, NEW out, OrderlyType(o, ln, Q, T, A, out),
           Orderly(o, ln, Q, T, A, out), out # <<>>, Head(out) # Bye
    PROVE  /\ Left(o, Head(out)) \in Seq(Nat)
           /\ Orderly(Left(o, Head(out)), ln, Q, T, A, Tail(out))
           /\ Len(o) \in {1, 2} /\ Head(out).to \in ToSet(o)
           /\ Head(out).to = o[1] \/ (Len(o) = 2 /\ Head(out).to = o[2] /\ Head(out).code = 226)
<1> DEFINE x == Head(out)
           y == Tail(out)
<1>0. o \in Seq(Nat) /\ out \in Seq(Reply) /\ Len(o) \in Nat
  BY DEF OrderlyType
<1>1. /\ y \in Seq(Reply) /\ x \in Reply /\ 1 \in DOMAIN out /\ x = out[1]
      /\ \A k \in DOMAIN y : k + 1 \in DOMAIN out /\ 1 < k + 1 /\ y[k] = out[k + 1]
      /\ \A k, l \in DOMAIN y : k < l => k + 1 < l + 1
  BY <1>0, OutTail
<1>2. x.code \in Nat /\ x # Bye
  BY <1>1, ReplyIs
<1> HIDE DEF x, y
<1>3. Len(o) \in {1, 2}
  <2>1. Len(o) # 0
    BY <1>1, <1>2 DEF Orderly, Nothing
  <2>2. Len(o) <= 2
    BY DEF Orderly
  <2> QED BY <2>1, <2>2, <1>0, UpToTwo
<1>4. OutInOrder(o, out)
  BY <1>3 DEF Orderly
<1>5. Len(o) = 2 => o[1] # o[2]
  BY DEF Orderly, Aborting
<1>6. x.to = o[1] \/ (Len(o) = 2 /\ x.to = o[2] /\ x.code = 226)
  BY <1>1, <1>2, <1>3 DEF Orderly, OneThing, Aborting
<1>7. x.to \in Range(o) /\ ToSet(o) = Range(o)
  <2>1. 1 \in DOMAIN o /\ (Len(o) = 2 => 2 \in DOMAIN o)
    BY <1>0, <1>3
  <2> QED BY <2>1, <1>6 DEF Range, ToSet
<1>8. \A k \in DOMAIN y : y[k] \in Reply /\ y[k].code \in Nat
  BY <1>1, ReplyIs
<1>9. OutInOrder(o, y)
  BY <1>1, <1>4 DEF OutInOrder
<1>10. /\ NoFinal(out) => NoFinal(y)
  BY <1>1 DEF NoFinal
<1>11. ASSUME x.code < 200
       PROVE  Left(o, x) \in Seq(Nat) /\ Orderly(Left(o, x), ln, Q, T, A, y)
  <2>1. Left(o, x) = o
    BY <1>11 DEF Left
  <2>2. CASE Len(o) = 1
    <3>1. OneThing(o[1], ln, Q, T, A, out)
      BY <2>2 DEF Orderly
    <3>2. OneThing(o[1], ln, Q, T, A, y) /\ Len(ln) <= 1
      BY <3>1, <1>1, <1>10 DEF OneThing, Orderly
    <3> QED BY <3>2, <2>1, <2>2, <1>0, <1>9 DEF Orderly
  <2>3. CASE Len(o) = 2
    <3>1. Aborting(o[1], o[2], ln, Q, T, A, out)
      BY <2>3 DEF Orderly
    <3>2. Aborting(o[1], o[2], ln, Q, T, A, y) /\ Len(ln) <= 1
      BY <3>1, <1>1, <1>10 DEF Aborting, Orderly
    <3> QED BY <3>2, <2>1, <2>3, <1>0, <1>9 DEF Orderly
  <2> QED BY <2>2, <2>3, <1>3
<1>12. ASSUME ~(x.code < 200)
       PROVE  Left(o, x) \in Seq(Nat) /\ Orderly(Left(o, x), ln, Q, T, A, y)
  <2> DEFINE p == After(o, x.to)
  <2>1. Left(o, x) = p
    BY <1>12, <1>7 DEF Left
  <2>2. /\ p \in Seq(Nat)
        /\ Len(o) = 1 => x.to = o[1] /\ Len(p) = 0
        /\ Len(o) = 2 /\ x.to = o[1] => Len(p) = 1 /\ p[1] = o[2]
        /\ Len(o) = 2 /\ x.to # o[1] => x.to = o[2] /\ Len(p) = 0
    BY <1>0, <1>3, <1>5, <1>7, AfterIs
  <2>3. ~NoFinal(out) /\ x.code >= 200
    BY <1>1, <1>2, <1>12 DEF NoFinal
  <2>4. \A k \in DOMAIN y : y[k] # Bye => y[k].to # x.to /\ (y[k].to = o[1] => x.to = o[1])
    <3>1. TAKE k \in DOMAIN y
    <3>2. HAVE y[k] # Bye
    <3> QED BY <3>2, <2>3, <1>1, <1>2, <1>4 DEF OutInOrder
  <2> HIDE DEF p
  <2>5. CASE Len(o) = 1
    <3>1. OneThing(o[1], ln, Q, T, A, out)
      BY <2>5 DEF Orderly
    <3>2. Nothing(ln, Q, T, A, y) /\ Len(ln) <= 1
      BY <3>1, <2>2, <2>3, <2>4, <2>5, <1>1 DEF OneThing, Nothing, Orderly
    <3> QED BY <3>2, <2>1, <2>2, <2>5 DEF Orderly
  <2>6. CASE Len(o) = 2 /\ x.to = o[1]
    <3>1. Aborting(o[1], o[2], ln, Q, T, A, out)
      BY <2>6 DEF Orderly
    <3>2. \A k \in DOMAIN y : y[k] # Bye => y[k].to = o[2]
      BY <3>1, <2>4, <2>6, <1>1 DEF Aborting
    <3>3. A = {} /\ Q = {} /\ T = {}
      BY <3>1, <2>3 DEF Aborting
    <3>4. ln # <<>> => ln[1].to = o[2] /\ NoFinal(y)
      <4>1. HAVE ln # <<>>
      <4>2. ln[1].to = o[2] /\ \A k \in DOMAIN y : y[k] = Bye
        BY <4>1, <3>1, <3>2, <1>1, <1>5, <2>6 DEF Aborting
      <4> QED BY <4>2, ReplyIs DEF NoFinal
    <3>5. OneThing(o[2], ln, Q, T, A, y)
      BY <3>2, <3>3, <3>4 DEF OneThing
    <3>6. OutInOrder(p, y) /\ Len(p) = 1 /\ p[1] = o[2]
      BY <3>2, <2>2, <2>6, <1>9 DEF OutInOrder
    <3>7. Len(ln) <= 1
      BY DEF Orderly
    <3>8. Orderly(p, ln, Q, T, A, y)
      BY <3>5, <3>6, <3>7 DEF Orderly
    <3> QED BY <3>8, <2>1, <2>2
  <2>7. CASE Len(o) = 2 /\ x.to # o[1]
    <3>1. Aborting(o[1], o[2], ln, Q, T, A, out)
      BY <2>7 DEF Orderly
    <3>2. \A k \in DOMAIN y : y[k] = Bye
      BY <3>1, <2>2, <2>4, <2>7, <1>1 DEF Aborting
    <3>3. ln = <<>> /\ A = {} /\ Q = {} /\ T = {}
      BY <3>1, <2>3, <2>7, <1>1, <1>2 DEF Aborting
    <3>4. Nothing(ln, Q, T, A, y) /\ Len(ln) <= 1
      BY <3>2, <3>3 DEF Nothing, Orderly
    <3> QED BY <3>4, <2>1, <2>2, <2>7 DEF Orderly
  <2> QED BY <2>5, <2>6, <2>7, <1>3
<1> QED BY <1>3, <1>6, <1>7, <1>11, <1>12 DEF x, y
-----------------------------------------------------------------------------
(* What the server and the client know of each other.  The folder of the   *)
(* channel is the client's, unless the reply that moves the client is on   *)
(* its way; a request, a completion and a data channel carry what the      *)
(* client wants.                                                           *)

Asks(q, u, r) ==
    /\ r.at = NoPath
    /\ q.name \in {"CWD", "PASS"} => q.load[1] = u.going /\ u.going # NoPath
    /\ q.name \in {"RETR", "LIST", "STOR"} => u.want = <<q.to, q.load>>
    /\ q.name = "RETR" => r.producers = q.load
    /\ q.name = "PASS" => ~r.anonymous

Sends(e, u, r) ==
    LET m == e.cmd
    IN  /\ m.name = "PASS" => r.at = u.going
        /\ m.name # "PASS" => r.at = NoPath
        /\ m.name \in {"USER", "CWD"} => u.going = m.arg.path
        /\ m.name \in {"RETR", "LIST", "STOR"} => u.want = <<e.to, <<u.cwd, m.arg>>>>
        /\ m.name = "ABOR" => u.want = NoLoad \/ u.want[1] # e.to

Stored(t, u) == t.name = "STOR" /\ t.ok => u.got = t.load
Carries(a, u, r) == r.at = NoPath /\ u.want = <<a.to, a.load>>
Told(x, u, r) ==
    /\ x.code >= 200 => r.at = IF x.code = 331 THEN u.going ELSE NoPath
    /\ x.code = 226 /\ u.want # NoLoad /\ u.want[1] = x.to => u.got = u.want[2]

AllTold(out, u, r) == \A k \in DOMAIN out : Told(out[k], u, r)

Moved(u, out) == u.going # NoPath /\ \E k \in DOMAIN out : out[k].code \in {230, 250}

Knows(u, r, ln, Q, T, A) ==
    /\ u.owed = <<>> => r.at = u.going
    /\ ln # <<>> => Sends(ln[1], u, r)
    /\ \A q \in Q : Asks(q, u, r)
    /\ \A t \in T : Asks(t, u, r) /\ Stored(t, u)
    /\ \A a \in A : Carries(a, u, r)
    /\ AllTold(r.out, u, r)
    /\ r.path = IF Moved(u, r.out) THEN u.going ELSE u.cwd

GoodType(u, r, ln, Q, T, A) ==
    u \in Client /\ r \in Channel /\ OrderlyType(u.owed, ln, Q, T, A, r.out)

Good(u, r, ln, Q, T, A) == Orderly(u.owed, ln, Q, T, A, r.out) /\ Knows(u, r, ln, Q, T, A)

\* The client but for what it got
SameClient(u, v) == v.owed = u.owed /\ v.cwd = u.cwd /\ v.going = u.going /\ v.want = u.want

LEMMA GoodTypes ==
    ASSUME NEW u, NEW r, NEW ln, NEW Q, NEW T, NEW A, GoodType(u, r, ln, Q, T, A)
    PROVE  /\ r.out \in Seq(Reply) /\ Len(r.out) \in Nat /\ DOMAIN r.out = 1 .. Len(r.out)
           /\ \A k \in DOMAIN r.out : r.out[k] \in Reply /\ r.out[k].code \in Nat
           /\ u.owed \in Seq(Nat) /\ Len(u.owed) \in Nat
           /\ u.owed = <<>> <=> Len(u.owed) = 0
           /\ ln \in Seq(Command)
BY ReplyIs, EmptySeq DEF GoodType, OrderlyType, Client, Channel

LEMMA NotMoved ==
    ASSUME NEW u, NEW out \in Seq(Reply), NoFinal(out)
    PROVE  ~Moved(u, out)
BY DEF Moved, NoFinal

LEMMA QuietOut ==
    ASSUME NEW out \in Seq(Reply), NoFinal(out), NEW v, NEW s
    PROVE  AllTold(out, v, s)
<1>1. ASSUME NEW k \in DOMAIN out PROVE Told(out[k], v, s)
  <2>1. out[k].code \in Nat /\ out[k].code < 200
    BY ReplyIs, ReplyFacts DEF NoFinal
  <2> QED BY <2>1 DEF Told
<1> QED BY <1>1 DEF AllTold

\* What a reply changes of what is known.
LEMMA ToldMore ==
    ASSUME NEW out \in Seq(Reply), NEW x \in Reply, NEW u, NEW r, NEW v, NEW s,
           NoFinal(out) \/ (v = u /\ s.at = r.at), AllTold(out, u, r), Told(x, v, s)
    PROVE  AllTold(Append(out, x), v, s)
<1>1. /\ Len(out) \in Nat /\ DOMAIN out = 1 .. Len(out)
      /\ DOMAIN Append(out, x) = 1 .. Len(out) + 1
      /\ \A k \in 1 .. Len(out) : Append(out, x)[k] = out[k]
      /\ Append(out, x)[Len(out) + 1] = x
  BY ReplyFacts
<1>2. ASSUME NEW k \in DOMAIN out PROVE Told(out[k], v, s)
  <2>1. CASE NoFinal(out)
    BY <2>1, QuietOut DEF AllTold
  <2>2. CASE v = u /\ s.at = r.at
    BY <2>2 DEF Told, AllTold
  <2> QED BY <2>1, <2>2
<1>3. ASSUME NEW k \in DOMAIN Append(out, x) PROVE Told(Append(out, x)[k], v, s)
  BY <1>1, <1>2
<1> QED BY <1>3 DEF AllTold

LEMMA MovedMore ==
    ASSUME NEW out \in Seq(Reply), NEW x \in Reply, NEW u, NEW v, v.going = u.going
    PROVE  Moved(v, Append(out, x)) <=> (Moved(u, out) \/ (u.going # NoPath /\ x.code \in {230, 250}))
<1>1. /\ Len(out) \in Nat /\ DOMAIN out = 1 .. Len(out)
      /\ DOMAIN Append(out, x) = 1 .. Len(out) + 1
      /\ \A k \in 1 .. Len(out) : Append(out, x)[k] = out[k]
      /\ Append(out, x)[Len(out) + 1] = x
  BY ReplyFacts
<1>2. (\E k \in DOMAIN Append(out, x) : Append(out, x)[k].code \in {230, 250})
          <=> ((\E k \in DOMAIN out : out[k].code \in {230, 250}) \/ x.code \in {230, 250})
  BY <1>1
<1> QED BY <1>2 DEF Moved

\* Who is owed one reply: what was going on becomes Q2, T2 or A2, perhaps with a reply x.
LEMMA GoodMove ==
    ASSUME NEW u, NEW r, NEW ln, NEW Q, NEW T, NEW A, GoodType(u, r, ln, Q, T, A),
           Good(u, r, ln, Q, T, A), Len(u.owed) = 1, NoFinal(r.out),
           NEW v, NEW s, NEW Q2, NEW T2, NEW A2, SameClient(u, v),
           OneThing(u.owed[1], <<>>, Q2, T2, A2, <<>>),
           \A q \in Q2 : Asks(q, v, s),
           \A t \in T2 : Asks(t, v, s) /\ Stored(t, v),
           \A a \in A2 : Carries(a, v, s),
           NEW x \in Reply, x.to = u.owed[1], x # Bye,
           \/ s.out = r.out /\ s.path = r.path
           \/ /\ s.out = Append(r.out, x) /\ Told(x, v, s)
              /\ x.code >= 200 => Q2 = {} /\ T2 = {} /\ A2 = {}
              /\ s.path = IF x.code \in {230, 250} /\ u.going # NoPath THEN u.going ELSE r.path
    PROVE  Good(v, s, <<>>, Q2, T2, A2)
<1>1. /\ r.out \in Seq(Reply) /\ OrderlyType(u.owed, ln, Q, T, A, r.out)
      /\ \A k \in DOMAIN r.out : r.out[k] \in Reply /\ r.out[k].code \in Nat
      /\ u.owed = <<>> <=> Len(u.owed) = 0
  BY GoodTypes DEF GoodType
<1>2. Orderly(u.owed, ln, Q, T, A, r.out) /\ Knows(u, r, ln, Q, T, A)
  BY DEF Good
<1>3. Len(<<>>) <= 1 /\ x.code \in Nat /\ Bye.code = 0 /\ Bye \in Reply
  BY ReplyIs
<1>4. /\ ~Moved(u, r.out) /\ r.path = u.cwd
      /\ AllTold(r.out, u, r)
      /\ v.owed # <<>> /\ v.owed = u.owed /\ v.going = u.going /\ v.cwd = u.cwd
  BY <1>1, <1>2, NotMoved DEF Knows, SameClient
<1>5. CASE s.out = r.out /\ s.path = r.path
  <2>1. Orderly(u.owed, <<>>, Q2, T2, A2, r.out)
    BY <1>1, <1>2, <1>3, OneStep
  <2>2. AllTold(r.out, v, s)
    BY <1>1, QuietOut
  <2>3. ~Moved(v, r.out)
    BY <1>1, NotMoved
  <2>4. Knows(v, s, <<>>, Q2, T2, A2)
    BY <2>2, <2>3, <1>4, <1>5 DEF Knows
  <2> QED BY <2>1, <2>4, <1>4, <1>5 DEF Good
<1>6. CASE /\ s.out = Append(r.out, x) /\ Told(x, v, s)
           /\ x.code >= 200 => Q2 = {} /\ T2 = {} /\ A2 = {}
           /\ s.path = IF x.code \in {230, 250} /\ u.going # NoPath THEN u.going ELSE r.path
  <2>1. Orderly(u.owed, <<>>, Q2, T2, A2, Append(r.out, x))
    BY <1>1, <1>2, <1>3, <1>6, OneStep
  <2>2. /\ AllTold(s.out, v, s)
        /\ Moved(v, s.out) <=> (u.going # NoPath /\ x.code \in {230, 250})
    BY <1>1, <1>4, <1>6, ToldMore, MovedMore
  <2>3. s.path = IF Moved(v, s.out) THEN v.going ELSE v.cwd
    BY <2>2, <1>4, <1>6
  <2>4. Knows(v, s, <<>>, Q2, T2, A2)
    BY <2>2, <2>3, <1>4 DEF Knows
  <2> QED BY <2>1, <2>4, <1>4, <1>6 DEF Good
<1> QED BY <1>5, <1>6

\* The channel is to be closed when all is sent.
LEMMA GoodBye ==
    ASSUME NEW u, NEW r, NEW ln, NEW Q, NEW T, NEW A, GoodType(u, r, ln, Q, T, A),
           Good(u, r, ln, Q, T, A),
           NEW s, s.out = Append(r.out, Bye), s.at = r.at, s.path = r.path,
           s.producers = r.producers, s.anonymous = r.anonymous
    PROVE  Good(u, s, ln, Q, T, A)
<1>1. r.out \in Seq(Reply) /\ OrderlyType(u.owed, ln, Q, T, A, r.out) /\ Bye \in Reply /\ Bye.code = 0
  BY GoodTypes, ReplyIs DEF GoodType
<1>2. Orderly(u.owed, ln, Q, T, A, s.out)
  BY <1>1, ByeStep DEF Good
<1>3. Knows(u, r, ln, Q, T, A) /\ SameClient(u, u)
  BY DEF Good, SameClient
<1>4. Told(Bye, u, s)
  BY <1>1 DEF Told
<1>5. AllTold(r.out, u, r)
  BY <1>3 DEF Knows
<1>6. /\ AllTold(s.out, u, s)
      /\ Moved(u, s.out) <=> Moved(u, r.out)
  BY <1>1, <1>4, <1>5, ToldMore, MovedMore
<1>7. Knows(u, s, ln, Q, T, A)
  BY <1>3, <1>6 DEF Knows, Sends, Asks, Carries
<1> QED BY <1>2, <1>7 DEF Good

\* A data channel ends with a reply.
LEMMA GoodDataEnd ==
    ASSUME NEW u, NEW r, NEW ln, NEW Q, NEW T, NEW A, GoodType(u, r, ln, Q, T, A),
           Good(u, r, ln, Q, T, A), NEW a \in A,
           NEW v, NEW s, SameClient(u, v), s.at = r.at, s.path = r.path,
           s.producers = r.producers, s.anonymous = r.anonymous,
           NEW x \in Reply, s.out = Append(r.out, x), x.to = a.to, x.code \in {226, 426},
           x.code = 226 => v.got = a.load
    PROVE  Good(v, s, ln, Q, T, {})
<1>1. r.out \in Seq(Reply) /\ OrderlyType(u.owed, ln, Q, T, A, r.out) /\ x # Bye
  <2>1. x # Bye
    BY ReplyIs
  <2> QED BY <2>1, GoodTypes, ZenonT(40) DEF GoodType
<1>2. Orderly(u.owed, ln, Q, T, A, r.out) /\ Knows(u, r, ln, Q, T, A)
  BY DEF Good
<1>3. Orderly(u.owed, ln, Q, T, {}, s.out)
  BY <1>1, <1>2, DataEndStep
<1>4. Len(u.owed) \in Nat /\ (u.owed = <<>> <=> Len(u.owed) = 0)
  BY GoodTypes
<1>5. /\ NoFinal(r.out) /\ Q = {} /\ T = {} /\ Len(u.owed) # 0
  <2>1. Len(u.owed) \in {0, 1, 2}
    BY <1>2, <1>4, UpToTwo DEF Orderly
  <2> QED BY <1>2, <2>1 DEF Orderly, Nothing, OneThing, Aborting
<1>6. Carries(a, u, r) /\ AllTold(r.out, u, r)
  BY <1>2 DEF Knows
<1>7. Told(x, v, s)
  BY <1>6 DEF Told, Carries, SameClient
<1>8. /\ AllTold(s.out, v, s)
      /\ Moved(v, s.out) <=> Moved(u, r.out)
  <2>1. x.code \notin {230, 250}
    OBVIOUS
  <2> QED BY <2>1, <1>1, <1>5, <1>6, <1>7, ToldMore, MovedMore DEF SameClient
<1>9. ln # <<>> => Sends(ln[1], v, s)
  BY <1>2 DEF Knows, Sends, SameClient
<1>10. s.path = IF Moved(v, s.out) THEN v.going ELSE v.cwd
  BY <1>2, <1>8 DEF Knows, SameClient
<1>11. Knows(v, s, ln, Q, T, {})
  BY <1>4, <1>5, <1>8, <1>9, <1>10 DEF Knows, SameClient
<1> QED BY <1>3, <1>11 DEF Good, SameClient

\* Data channels end without a reply, or are connected.
LEMMA GoodConnect ==
    ASSUME NEW u, NEW r, NEW ln, NEW Q, NEW T, NEW A, GoodType(u, r, ln, Q, T, A),
           Good(u, r, ln, Q, T, A), NEW A2, A2 # {} => A # {},
           \A b \in A2 : b.state = "open" /\ \A a \in A : b.to = a.to /\ b.load = a.load,
           NEW s, s.at = r.at, s.path = r.path, s.out = r.out,
           s.producers = r.producers, s.anonymous = r.anonymous
    PROVE  Good(u, s, ln, Q, T, A2)
<1>1. OrderlyType(u.owed, ln, Q, T, A, r.out)
  BY DEF GoodType
<1>2. Orderly(u.owed, ln, Q, T, A, r.out) /\ Knows(u, r, ln, Q, T, A)
  BY DEF Good
<1>3. Orderly(u.owed, ln, Q, T, A2, s.out)
  BY <1>1, <1>2, ConnectStep
<1>4. Knows(u, s, ln, Q, T, A2)
  BY <1>2 DEF Knows, Sends, Asks, Carries, Told, AllTold
<1> QED BY <1>3, <1>4 DEF Good

\* ABOR is answered after the end of the transfer.
LEMMA GoodAbor ==
    ASSUME NEW u, NEW r, NEW ln, NEW Q, NEW T, GoodType(u, r, ln, Q, T, {}),
           Good(u, r, ln, Q, T, {}), Len(u.owed) = 2, ln # <<>>,
           NEW s, s.at = r.at, s.path = r.path,
           NEW x \in Reply, x.to = ln[1].to, x.code = 226, s.out = Append(r.out, x)
    PROVE  Good(u, s, <<>>, Q, T, {})
<1>1. r.out \in Seq(Reply) /\ OrderlyType(u.owed, ln, Q, T, {}, r.out)
  BY GoodTypes DEF GoodType
<1>2. Orderly(u.owed, ln, Q, T, {}, r.out) /\ Knows(u, r, ln, Q, T, {}) /\ SameClient(u, u)
  BY DEF Good, SameClient
<1>3. Orderly(u.owed, <<>>, Q, T, {}, s.out)
  BY <1>1, <1>2, AborStep
<1>4. Aborting(u.owed[1], u.owed[2], ln, Q, T, {}, r.out)
  BY <1>2 DEF Orderly
<1>5. Sends(ln[1], u, r) /\ ln[1].cmd.name = "ABOR" /\ Q = {} /\ T = {}
  BY <1>2, <1>4 DEF Knows, Aborting
<1>6. Told(x, u, s)
  BY <1>5 DEF Told, Sends
<1>7. /\ AllTold(s.out, u, s)
      /\ Moved(u, s.out) <=> Moved(u, r.out)
  <2>1. x.code \notin {230, 250} /\ AllTold(r.out, u, r)
    BY <1>2 DEF Knows
  <2> QED BY <2>1, <1>1, <1>2, <1>6, ToldMore, MovedMore
<1>8. u.owed # <<>>
  <2>1. u.owed = <<>> <=> Len(u.owed) = 0
    BY GoodTypes
  <2> QED BY <2>1
<1>9. Knows(u, s, <<>>, Q, T, {})
  BY <1>2, <1>5, <1>7, <1>8 DEF Knows
<1> QED BY <1>3, <1>9 DEF Good

\* The client sends a command.
LEMMA GoodSend ==
    ASSUME NEW u, NEW r, NEW ln, NEW Q, NEW T, NEW A, GoodType(u, r, ln, Q, T, A),
           Good(u, r, ln, Q, T, A), u.owed = <<>>, NEW n \in Nat, NEW m \in Messages,
           m.name = "PASS" \/ u.going = NoPath, m.name # "ABOR",
           NEW v, v.owed = Append(u.owed, n), v.cwd = u.cwd,
           v.going = IF m.name \in {"CWD", "USER"} THEN m.arg.path ELSE u.going,
           m.name \in {"RETR", "LIST", "STOR"} => v.want = <<n, <<u.cwd, m.arg>>>>
    PROVE  Good(v, r, Append(ln, [to |-> n, cmd |-> m]), Q, T, A)
<1> DEFINE e == [to |-> n, cmd |-> m]
           ln2 == Append(ln, e)
<1>1. /\ r.out \in Seq(Reply) /\ OrderlyType(u.owed, ln, Q, T, A, r.out)
      /\ u.owed \in Seq(Nat) /\ ln \in Seq(Command) /\ Len(u.owed) = 0
  BY GoodTypes DEF GoodType
<1>2. Orderly(u.owed, ln, Q, T, A, r.out) /\ Knows(u, r, ln, Q, T, A)
  BY DEF Good
<1>3. Orderly(v.owed, ln2, Q, T, A, r.out)
  BY <1>1, <1>2, SendStep
<1>4. Nothing(ln, Q, T, A, r.out)
  BY <1>1, <1>2 DEF Orderly
<1>5. ln = <<>> /\ Q = {} /\ T = {} /\ A = {} /\ \A k \in DOMAIN r.out : r.out[k] = Bye
  BY <1>4 DEF Nothing
<1>6. ln2 # <<>> /\ ln2[1] = e
  <2>1. e \in Command
    BY DEF Command
  <2>2. ln2 # <<>> /\ ln2[Len(ln) + 1] = e /\ Len(ln) = 0
    BY <2>1, <1>1, <1>5, AppendRange
  <2> QED BY <2>2
<1>7. v.owed # <<>>
  BY <1>1, AppendOwed
<1>8. r.at = u.going /\ ~Moved(u, r.out) /\ r.path = u.cwd /\ NoFinal(r.out)
  <2>1. NoFinal(r.out)
    BY <1>5, ReplyIs DEF NoFinal
  <2> QED BY <2>1, <1>1, <1>2, NotMoved DEF Knows
<1>9. Sends(e, v, r)
  BY <1>8 DEF Sends
<1>10. /\ AllTold(r.out, v, r)
       /\ ~Moved(v, r.out)
  BY <1>1, <1>8, NotMoved, QuietOut
<1> HIDE DEF e, ln2
<1>11. Knows(v, r, ln2, Q, T, A)
  BY <1>5, <1>6, <1>7, <1>8, <1>9, <1>10 DEF Knows
<1>12. Good(v, r, ln2, Q, T, A)
  BY <1>3, <1>11 DEF Good
<1> QED BY <1>12 DEF ln2, e

LEMMA GoodSendAbor ==
    ASSUME NEW u, NEW r, NEW ln, NEW Q, NEW T, NEW A, GoodType(u, r, ln, Q, T, A),
           Good(u, r, ln, Q, T, A), Len(u.owed) = 1, A # {}, \A a \in A : a.state = "open",
           NEW n \in Nat, n # u.owed[1], NEW m \in Messages, m.name = "ABOR",
           NEW v, v.owed = Append(u.owed, n), v.cwd = u.cwd, v.going = u.going, v.want = u.want, v.got = u.got
    PROVE  Good(v, r, Append(ln, [to |-> n, cmd |-> m]), Q, T, A)
<1> DEFINE e == [to |-> n, cmd |-> m]
           ln2 == Append(ln, e)
<1>1. /\ r.out \in Seq(Reply) /\ OrderlyType(u.owed, ln, Q, T, A, r.out)
      /\ u.owed \in Seq(Nat) /\ ln \in Seq(Command)
  BY GoodTypes DEF GoodType
<1>2. Orderly(u.owed, ln, Q, T, A, r.out) /\ Knows(u, r, ln, Q, T, A)
  BY DEF Good
<1>3. Orderly(v.owed, ln2, Q, T, A, r.out)
  BY <1>1, <1>2, SendAborStep
<1>4. OneThing(u.owed[1], ln, Q, T, A, r.out)
  BY <1>2 DEF Orderly
<1>5. ln = <<>> /\ Q = {} /\ T = {} /\ NoFinal(r.out) /\ \A a \in A : a.to = u.owed[1]
  BY <1>4 DEF OneThing
<1>6. ln2 # <<>> /\ ln2[1] = e
  <2>1. e \in Command
    BY DEF Command
  <2>2. ln2 # <<>> /\ ln2[Len(ln) + 1] = e /\ Len(ln) = 0
    BY <2>1, <1>1, <1>5, AppendRange
  <2> QED BY <2>2
<1>7. v.owed # <<>>
  BY <1>1, AppendOwed, SMTT(30)
<1>8. \A a \in A : Carries(a, u, r)
  BY <1>2 DEF Knows
<1>9. PICK a \in A : TRUE
  OBVIOUS
<1>10. Sends(e, v, r)
  <2>1. r.at = NoPath /\ u.want = <<a.to, a.load>> /\ a.to = u.owed[1]
    BY <1>5, <1>8, <1>9 DEF Carries
  <2> QED BY <2>1 DEF Sends
<1>11. /\ AllTold(r.out, v, r)
       /\ ~Moved(v, r.out) /\ ~Moved(u, r.out)
  BY <1>1, <1>5, NotMoved, QuietOut
<1>12. (\A b \in A : Carries(b, v, r)) /\ r.path = v.cwd
  BY <1>2, <1>8, <1>11 DEF Carries, Knows
<1> HIDE DEF e, ln2
<1>13. Knows(v, r, ln2, Q, T, A)
  BY <1>5, <1>6, <1>7, <1>10, <1>11, <1>12 DEF Knows
<1>14. Good(v, r, ln2, Q, T, A)
  BY <1>3, <1>13 DEF Good
<1> QED BY <1>14 DEF ln2, e

\* The client reads a reply.
LEMMA RestIs ==
    ASSUME NEW o, NEW ln, NEW Q, NEW T, NEW A, NEW out, OrderlyType(o, ln, Q, T, A, out),
           Orderly(o, ln, Q, T, A, out), out # <<>>, Head(out) # Bye, Head(out).code >= 200
    PROVE  /\ \A k \in DOMAIN Tail(out) : Tail(out)[k] = Bye \/ Tail(out)[k].code = 226
           /\ Q = {} /\ T = {} /\ A = {}
           /\ ln # <<>> => ln[1].cmd.name = "ABOR"
<1> DEFINE x == Head(out)
           y == Tail(out)
<1>0. o \in Seq(Nat) /\ out \in Seq(Reply) /\ Len(o) \in Nat
  BY DEF OrderlyType
<1>1. /\ y \in Seq(Reply) /\ x \in Reply /\ 1 \in DOMAIN out /\ x = out[1]
      /\ \A k \in DOMAIN y : k + 1 \in DOMAIN out /\ 1 < k + 1 /\ y[k] = out[k + 1]
  BY <1>0, OutTail
<1>2. Len(o) \in {1, 2} /\ (x.to = o[1] \/ (Len(o) = 2 /\ x.to = o[2]))
  BY ReadStep
<1>3. x.code \in Nat /\ x.code >= 200 /\ x # Bye
  BY <1>1, ReplyIs
<1> HIDE DEF x, y
<1>4. ~NoFinal(out)
  BY <1>1, <1>3 DEF NoFinal
<1>5. OutInOrder(o, out)
  BY <1>2 DEF Orderly
<1>6. \A k \in DOMAIN y : y[k] # Bye => y[k].to # x.to /\ (y[k].to = o[1] => x.to = o[1])
  BY <1>1, <1>3, <1>5 DEF OutInOrder
<1>7. CASE Len(o) = 1
  <2>1. OneThing(o[1], ln, Q, T, A, out)
    BY <1>7 DEF Orderly
  <2>2. \A k \in DOMAIN y : y[k] = Bye
    BY <2>1, <1>1, <1>2, <1>6, <1>7 DEF OneThing
  <2>3. Q = {} /\ T = {} /\ A = {} /\ ln = <<>>
    BY <2>1, <1>4 DEF OneThing
  <2> QED BY <2>2, <2>3 DEF y
<1>8. CASE Len(o) = 2
  <2>1. Aborting(o[1], o[2], ln, Q, T, A, out)
    BY <1>8 DEF Orderly
  <2>2. \A k \in DOMAIN y : y[k] = Bye \/ y[k].code = 226
    BY <2>1, <1>1, <1>2, <1>6, <1>8 DEF Aborting
  <2>3. Q = {} /\ T = {} /\ A = {} /\ (ln # <<>> => ln[1].cmd.name = "ABOR")
    BY <2>1, <1>4 DEF Aborting
  <2> QED BY <2>2, <2>3 DEF y
<1> QED BY <1>2, <1>7, <1>8

LEMMA ReadIs ==
    ASSUME NEW u \in Client, NEW x, x.to \in ToSet(u.owed)
    PROVE  /\ Read(u, x).owed = Left(u.owed, x)
           /\ x.code < 200 => Read(u, x) = u
           /\ ~(x.code < 200) =>
                /\ Read(u, x).cwd = IF x.code \in {230, 250} /\ u.going # NoPath THEN u.going ELSE u.cwd
                /\ Read(u, x).going = IF x.code = 331 THEN u.going ELSE NoPath
                /\ \/ Read(u, x).want = u.want /\ Read(u, x).got = u.got
                   \/ Read(u, x).want = NoLoad
BY DEF Read, Left, Client

LEMMA GoodRead ==
    ASSUME NEW u, NEW r, NEW ln, NEW Q, NEW T, NEW A, GoodType(u, r, ln, Q, T, A),
           Good(u, r, ln, Q, T, A), r.out # <<>>, Head(r.out) # Bye,
           NEW s, s.out = Tail(r.out), s.at = r.at, s.path = r.path,
           s.producers = r.producers, s.anonymous = r.anonymous
    PROVE  Good(Read(u, Head(r.out)), s, ln, Q, T, A)
<1> DEFINE x == Head(r.out)
           v == Read(u, x)
           o == u.owed
<1>0. OrderlyType(o, ln, Q, T, A, r.out) /\ r.out \in Seq(Reply) /\ u \in Client
  BY DEF GoodType, OrderlyType
<1>1. Orderly(o, ln, Q, T, A, r.out) /\ Knows(u, r, ln, Q, T, A)
  BY DEF Good
<1>2. /\ Orderly(Left(o, x), ln, Q, T, A, s.out)
      /\ x.to \in ToSet(o)
  BY <1>0, <1>1, ReadStep
<1>3. /\ s.out \in Seq(Reply) /\ x \in Reply /\ 1 \in DOMAIN r.out /\ x = r.out[1]
      /\ \A k \in DOMAIN s.out : k + 1 \in DOMAIN r.out /\ s.out[k] = r.out[k + 1]
  BY <1>0, OutTail
<1>4. x.code \in Nat /\ x # Bye
  BY <1>3, ReplyIs
<1>5. /\ v.owed = Left(o, x)
      /\ x.code < 200 => v = u
      /\ ~(x.code < 200) =>
                /\ v.cwd = IF x.code \in {230, 250} /\ u.going # NoPath THEN u.going ELSE u.cwd
                /\ v.going = IF x.code = 331 THEN u.going ELSE NoPath
                /\ (v.want = u.want /\ v.got = u.got) \/ v.want = NoLoad
  BY <1>0, <1>2, ReadIs
<1>6. AllTold(s.out, u, s) /\ Told(x, u, r)
  BY <1>1, <1>3 DEF Knows, AllTold, Told
<1>7. \A k \in DOMAIN r.out : k = 1 \/ \E l \in DOMAIN s.out : r.out[k] = s.out[l]
  <2>1. /\ Len(r.out) \in Nat \ {0} /\ Len(s.out) = Len(r.out) - 1
        /\ \A i \in 1 .. Len(s.out) : s.out[i] = r.out[i + 1]
    BY <1>0, TailRange
  <2>2. DOMAIN r.out = 1 .. Len(r.out) /\ DOMAIN s.out = 1 .. Len(r.out) - 1
    BY <2>1, <1>0, <1>3
  <2>3. ASSUME NEW k \in DOMAIN r.out, k # 1 PROVE k - 1 \in DOMAIN s.out /\ r.out[k] = s.out[k - 1]
    <3>1. k \in Int /\ k - 1 \in 1 .. Len(r.out) - 1 /\ (k - 1) + 1 = k
      BY <2>1, <2>2, <2>3
    <3> QED BY <3>1, <2>1, <2>2
  <2> QED BY <2>3
<1> HIDE DEF x, v, o
<1>8. ASSUME x.code < 200 PROVE Knows(v, s, ln, Q, T, A)
  <2>1. Moved(u, s.out) <=> Moved(u, r.out)
    BY <1>3, <1>4, <1>7, <1>8, SMTT(30) DEF Moved
  <2>2. v = u /\ v.owed = u.owed
    BY <1>5, <1>8
  <2> QED BY <2>1, <2>2, <1>1, <1>6 DEF Knows, Sends, Asks, Carries
<1>9. ASSUME x.code >= 200 PROVE Knows(v, s, ln, Q, T, A)
  <2>1. /\ \A k \in DOMAIN s.out : s.out[k] = Bye \/ s.out[k].code = 226
        /\ Q = {} /\ T = {} /\ A = {}
        /\ ln # <<>> => ln[1].cmd.name = "ABOR"
    BY <1>0, <1>1, <1>4, <1>9, RestIs DEF x
  <2>2. \A k \in DOMAIN s.out : s.out[k].code \notin {230, 250, 331}
    BY <2>1, ReplyIs
  <2>3. ~Moved(v, s.out) /\ ~Moved(u, s.out)
    BY <2>2 DEF Moved
  <2>4. Moved(u, r.out) <=> u.going # NoPath /\ x.code \in {230, 250}
    BY <2>2, <1>3, <1>7 DEF Moved
  <2>5. s.path = v.cwd
    BY <2>4, <1>1, <1>4, <1>5, <1>9 DEF Knows
  <2>6. r.at = v.going
    BY <1>4, <1>5, <1>6, <1>9 DEF Told
  <2>7. AllTold(s.out, v, s)
    BY <2>1, <2>2, <1>4, <1>5, <1>6, <1>9, ReplyIs DEF AllTold, Told
  <2>8. ln # <<>> => Sends(ln[1], v, s)
    BY <2>1, <1>1, <1>4, <1>5, <1>9 DEF Knows, Sends
  <2> QED BY <2>1, <2>3, <2>5, <2>6, <2>7, <2>8 DEF Knows
<1>10. Knows(v, s, ln, Q, T, A)
  BY <1>4, <1>8, <1>9
<1> QED BY <1>2, <1>5, <1>10 DEF Good, x, v, o
-----------------------------------------------------------------------------
(* Type correctness                                                        *)

\* What a channel keeps when something is said on it.
SameButOut(r, s) ==
    /\ s.state = r.state /\ s.authorized = r.authorized /\ s.anonymous = r.anonymous
    /\ s.userid = r.userid /\ s.as = r.as /\ s.at = r.at /\ s.path = r.path /\ s.pasv = r.pasv
    /\ s.dc = r.dc /\ s.producers = r.producers

LEMMA RespondIs ==
    ASSUME NEW r \in Channel, NEW n \in Nat, NEW k \in Codes
    PROVE  /\ Respond(r, n, k) \in Channel
           /\ Respond(r, n, k).out = Append(r.out, [to |-> n, code |-> k])
           /\ SameButOut(r, Respond(r, n, k))
<1>1. r.out \in Seq(Reply) /\ [to |-> n, code |-> k] \in Reply
  BY ReplyIs DEF Channel
<1>2. Append(r.out, [to |-> n, code |-> k]) \in Seq(Reply)
  BY <1>1, ReplyFacts
<1> QED BY <1>2 DEF Respond, Channel, SameButOut

LEMMA CloseIs ==
    ASSUME NEW r \in Channel
    PROVE  /\ CloseWhenDone(r) \in Channel
           /\ CloseWhenDone(r).out = Append(r.out, Bye)
           /\ SameButOut(r, CloseWhenDone(r))
<1>1. r.out \in Seq(Reply) /\ Bye \in Reply
  BY ReplyIs DEF Channel
<1>2. Append(r.out, Bye) \in Seq(Reply)
  BY <1>1, ReplyFacts
<1> QED BY <1>2 DEF CloseWhenDone, Channel, SameButOut

LEMMA NewChannelIs == NewChannel \in Channel
<1>1. <<>> \in Seq(Reply) /\ NoUser \in UserIds /\ NoPath \in Paths /\ Home \in Paths /\ FALSE \in Restarts
      /\ NoLoad \in Args /\ NoLoad \in Loads
  BY DEF UserIds, Paths, Restarts, Args, Loads
<1> QED BY <1>1 DEF NewChannel, Channel

LEMMA NoDataIs == NoData \in Data
<1>1. NoLoad \in Loads /\ NoId \in Nat
  BY FtpAssumption DEF Loads
<1> QED BY <1>1 DEF NoData, Data

LEMMA NewUserIs ==
    ASSUME NEW p \in SUBSET Messages
    PROVE  [NewUser EXCEPT !.plan = p] \in Client /\ NewUser \in Client
<1>1. <<>> \in Seq(Nat) /\ Home \in Paths /\ NoPath \in Paths /\ NoLoad \in Loads
  BY DEF Paths, Loads
<1> QED BY <1>1 DEF NewUser, Client

\* The first command on a line
LEMMA CommandIs ==
    ASSUME TypeInv, NEW c \in Channels, line[c] # <<>>
    PROVE  /\ Number(c) \in Nat /\ Head(line[c]).cmd \in Messages /\ Head(line[c]) = line[c][1]
           /\ Tail(line[c]) \in Seq(Command)
           /\ [line EXCEPT ![c] = Tail(@)] \in [Channels -> Seq(Command)]
           /\ Head(line[c]).cmd.name \in {"RETR", "STOR", "LIST", "RNFR"} => Arg(c) \in Args
           /\ Head(line[c]).cmd.name \in {"USER", "CWD"} => Arg(c).path \in Paths
           /\ Head(line[c]).cmd.name = "USER" => Arg(c).name \in UserIds
           /\ Head(line[c]).cmd.name = "REST" => Arg(c) \in Restarts
<1>1. line[c] \in Seq(Command) /\ line \in [Channels -> Seq(Command)]
  BY DEF TypeInv
<1>2. Head(line[c]) \in Command /\ Tail(line[c]) \in Seq(Command) /\ Head(line[c]) = line[c][1]
  BY <1>1, TailRange
<1>3. Number(c) \in Nat /\ Head(line[c]).cmd \in Messages
  BY <1>2 DEF Command, Number
<1> QED BY <1>1, <1>2, <1>3 DEF Arg, Args, Paths, UserIds, Restarts, Named

LEMMA AnsweredType ==
    ASSUME TypeInv, NEW c \in Channels, line[c] # <<>>, NEW r \in Channel, Answered(c, r)
    PROVE  TypeInv'
BY CommandIs DEF Answered, Consumed, TypeInv

LEMMA HandedType ==
    ASSUME TypeInv, NEW c \in Channels, NEW n \in Nat, NEW name \in ReqNames, NEW load \in Loads,
           name \in {"CWD", "PASS"} => load \in Paths \X Args
    PROVE  /\ [chan |-> c, to |-> n, name |-> name, load |-> load] \in Request
           /\ Handed(c, n, name, load) \subseteq Request /\ IsFiniteSet(Handed(c, n, name, load))
<1>1. [chan |-> c, to |-> n, name |-> name, load |-> load] \in Request
  BY DEF Request, HasFolder
<1>2. requests \subseteq Request /\ IsFiniteSet(requests)
  BY DEF TypeInv
<1> QED BY <1>1, <1>2, FS_AddElement DEF Handed

LEMMA AskedType ==
    ASSUME TypeInv, NEW c \in Channels, line[c] # <<>>, NEW r \in Channel,
           NEW name \in ReqNames, NEW load \in Loads, name \in {"CWD", "PASS"} => load \in Paths \X Args,
           Asked(c, r, name, load)
    PROVE  TypeInv'
<1>1. /\ Handed(c, Number(c), name, load) \subseteq Request
      /\ IsFiniteSet(Handed(c, Number(c), name, load))
  BY CommandIs, HandedType
<1> QED BY <1>1, CommandIs DEF Asked, Consumed, TypeInv

LEMMA ThunkIs ==
    ASSUME TypeInv, thunks # <<>>
    PROVE  /\ Head(thunks) \in Thunk /\ Head(thunks).chan \in Channels /\ Head(thunks).to \in Nat
           /\ Head(thunks).load \in Loads /\ chan[Head(thunks).chan] \in Channel
           /\ Head(thunks).name \in {"CWD", "PASS"} => Head(thunks).load[1] \in Paths
           /\ Tail(thunks) \in Seq(Thunk) /\ Head(thunks) \in Range(thunks) /\ thunks \in Seq(Thunk)
<1>1. thunks \in Seq(Thunk)
  BY DEF TypeInv
<1>2. Head(thunks) \in Thunk /\ Tail(thunks) \in Seq(Thunk) /\ Head(thunks) \in Range(thunks)
  BY <1>1, TailRange
<1> QED BY <1>1, <1>2 DEF Thunk, HasFolder, TypeInv

LEMMA CompletedType ==
    ASSUME TypeInv, thunks # <<>>, NEW r \in Channel, Completed(r)
    PROVE  TypeInv'
BY ThunkIs DEF Completed, TypeInv

LEMMA XmitClosedIs ==
    ASSUME TypeInv, NEW r \in Channel, NEW d \in Dcs, NEW done \in BOOLEAN
    PROVE  /\ XmitClosed(r, d, done) \in Channel
           /\ XmitClosed(r, d, done).dc = NoDc
           /\ SameButOut([r EXCEPT !.dc = NoDc], XmitClosed(r, d, done))
           /\ XmitClosed(r, d, done).out =
                 IF r.state = "open" THEN Append(r.out, [to |-> dcs[d].to, code |-> IF done THEN 226 ELSE 426]) ELSE r.out
<1> DEFINE g == [r EXCEPT !.dc = NoDc]
           k == IF done THEN 226 ELSE 426
<1>1. g \in Channel /\ g.dc = NoDc /\ g.out = r.out
  BY DEF Channel
<1>2. dcs[d].to \in Nat /\ k \in Codes
  BY DEF TypeInv, Data, Codes
<1>4. XmitClosed(r, d, done) = IF r.state = "open" THEN Respond(g, dcs[d].to, k) ELSE g
  BY DEF XmitClosed
<1>5. SameButOut(g, g)
  BY DEF SameButOut
<1> HIDE DEF g, k
<1>3. /\ Respond(g, dcs[d].to, k) \in Channel
      /\ Respond(g, dcs[d].to, k).out = Append(g.out, [to |-> dcs[d].to, code |-> k])
      /\ SameButOut(g, Respond(g, dcs[d].to, k))
  BY <1>1, <1>2, RespondIs
<1>6. CASE r.state = "open"
  BY <1>1, <1>3, <1>4, <1>6 DEF SameButOut, g, k
<1>7. CASE r.state # "open"
  BY <1>1, <1>4, <1>5, <1>7 DEF g
<1> QED BY <1>6, <1>7

LEMMA DataChanges ==
    \A w \in Data :
        /\ w.kind = "recv" => [w EXCEPT !.state = "shut"] \in Data
        /\ w.state # "free" => [w EXCEPT !.state = "open"] \in Data
        /\ w.state # "free" => [w EXCEPT !.ended = TRUE] \in Data
BY DEF Data

LEMMA ClosedDataType ==
    ASSUME TypeInv, NEW r \in Channel
    PROVE  /\ ClosedData(r) \in Channel
           /\ DcsWithout(r.dc) \in [Dcs -> Data]
<1>1. r.dc = NoDc \/ r.dc \in Dcs
  BY DEF Channel
<1>2. CASE r.dc = NoDc
  BY <1>2 DEF ClosedData, DcsWithout, TypeInv
<1>3. CASE r.dc \in Dcs /\ r.dc # NoDc
  <2>1. /\ XmitClosed(r, r.dc, FALSE) \in Channel
    BY <1>3, XmitClosedIs
  <2>2. dcs[r.dc].kind = "recv" => [dcs[r.dc] EXCEPT !.state = "shut"] \in Data
    <3>1. dcs[r.dc] \in Data
      BY <1>3 DEF TypeInv
    <3> QED BY <3>1, DataChanges
  <2>3. dcs[r.dc].kind \in {"xmit", "recv"}
    BY <1>3 DEF TypeInv, Data
  <2> QED BY <2>3, <1>3, <2>1, <2>2, NoDataIs DEF ClosedData, DcsWithout, TypeInv
<1> QED BY <1>1, <1>2, <1>3
-----------------------------------------------------------------------------
(* A new command gets a number that nothing else has.                      *)

LEMMA FiniteUpTo == \A n \in Nat : IsFiniteSet(1 .. n) /\ Cardinality(1 .. n) = n
<1> TAKE n \in Nat
<1>1. IsFiniteSet(1 .. n) /\ Cardinality(1 .. n) = IF 1 > n THEN 0 ELSE n - 1 + 1
  BY FS_Interval
<1> QED BY <1>1

LEMMA FiniteRange ==
    ASSUME NEW S, IsFiniteSet(S), NEW f, f = [x \in S |-> f[x]]
    PROVE  IsFiniteSet(Range(f))
<1> DEFINE T == Range(f)
<1>1. f \in Surjection(S, T)
  BY DEF Surjection, Range
<1> HIDE DEF T
<1>2. IsFiniteSet(T)
  BY <1>1, FS_Surjection
<1> QED BY <1>2 DEF T

LEMMA FiniteTos ==
    ASSUME NEW S, IsFiniteSet(S)
    PROVE  IsFiniteSet({x.to : x \in S})
<1> DEFINE f == [x \in S |-> x.to]
<1>1. f = [x \in S |-> f[x]]
  OBVIOUS
<1>2. {x.to : x \in S} = Range(f)
  BY DEF Range
<1> HIDE DEF f
<1>3. IsFiniteSet(Range(f))
  BY <1>1, FiniteRange
<1> QED BY <1>2, <1>3

LEMMA FiniteList ==
    ASSUME NEW S, NEW s \in Seq(S)
    PROVE  IsFiniteSet(ToSet(s)) /\ ToSet(s) = Range(s)
<1>1. Len(s) \in Nat /\ DOMAIN s = 1 .. Len(s) /\ s = [i \in 1 .. Len(s) |-> s[i]]
  OBVIOUS
<1>2. IsFiniteSet(1 .. Len(s))
  BY <1>1, FiniteUpTo
<1>3. IsFiniteSet(Range(s))
  BY <1>1, <1>2, FiniteRange
<1> QED BY <1>1, <1>3 DEF ToSet, Range

LEMMA NumbersFinite ==
    ASSUME TypeInv, NEW c \in Channels
    PROVE  IsFiniteSet(Numbers(c))
<1> DEFINE N1 == ToSet(user[c].owed)
           N2 == {x.to : x \in ToSet(chan[c].out)}
           N3 == {q.to : q \in {x \in requests : x.chan = c}}
           N4 == {t.to : t \in {x \in ToSet(thunks) : x.chan = c}}
           N5 == {dcs[d].to : d \in {x \in Dcs : dcs[x].chan = c /\ dcs[x].state # "free"}}
<1>1. IsFiniteSet(N1)
  <2>1. user[c].owed \in Seq(Nat)
    BY DEF TypeInv, Client
  <2> QED BY <2>1, FiniteList
<1>2. IsFiniteSet(N2)
  <2>1. chan[c].out \in Seq(Reply)
    BY DEF TypeInv, Channel
  <2> QED BY <2>1, FiniteList, FiniteTos
<1>3. IsFiniteSet(N3)
  <2>1. {x \in requests : x.chan = c} \in SUBSET requests /\ IsFiniteSet(requests)
    BY DEF TypeInv
  <2>2. IsFiniteSet({x \in requests : x.chan = c})
    BY <2>1, FS_Subset
  <2> QED BY <2>2, FiniteTos
<1>4. IsFiniteSet(N4)
  <2>1. IsFiniteSet(ToSet(thunks)) /\ {x \in ToSet(thunks) : x.chan = c} \in SUBSET ToSet(thunks)
    BY FiniteList DEF TypeInv
  <2>2. IsFiniteSet({x \in ToSet(thunks) : x.chan = c})
    BY <2>1, FS_Subset
  <2> QED BY <2>2, FiniteTos
<1>5. IsFiniteSet(N5)
  <2> DEFINE D == {x \in Dcs : dcs[x].chan = c /\ dcs[x].state # "free"}
             f == [d \in D |-> dcs[d].to]
  <2>1. IsFiniteSet(D)
    <3>1. D \in SUBSET Dcs /\ IsFiniteSet(Dcs)
      BY FtpAssumption
    <3> QED BY <3>1, FS_Subset
  <2>2. f = [d \in D |-> f[d]] /\ N5 = Range(f)
    BY DEF Range
  <2> HIDE DEF D, f, N5
  <2> QED BY <2>1, <2>2, FiniteRange
<1>6. Numbers(c) = UNION {N1, N2, N3, N4, N5}
  BY DEF Numbers
<1>7. Numbers(c) = N1 \cup (N2 \cup (N3 \cup (N4 \cup N5)))
  BY <1>6
<1> HIDE DEF N1, N2, N3, N4, N5
<1>8. IsFiniteSet(N4 \cup N5)
  BY <1>4, <1>5, FS_Union
<1>9. IsFiniteSet(N3 \cup (N4 \cup N5))
  BY <1>3, <1>8, FS_Union
<1>10. IsFiniteSet(N2 \cup (N3 \cup (N4 \cup N5)))
  BY <1>2, <1>9, FS_Union
<1> QED BY <1>1, <1>7, <1>10, FS_Union, ZenonT(40)

LEMMA FreshNumber ==
    ASSUME TypeInv, NEW c \in Channels
    PROVE  NewNumber(c) \in Nat /\ NewNumber(c) \notin ToSet(user[c].owed)
<1> DEFINE N == Numbers(c)
           k == Cardinality(N) + 1
           I == 1 .. k
<1>1. IsFiniteSet(N) /\ Cardinality(N) \in Nat /\ k \in Nat
  BY NumbersFinite, FS_CardinalityType
<1>2. IsFiniteSet(I) /\ Cardinality(I) = k /\ I \subseteq Nat
  BY <1>1, FiniteUpTo
<1>3. NewNumber(c) = CHOOSE n \in I : n \notin N
  BY DEF NewNumber
<1>4. ToSet(user[c].owed) \subseteq N
  BY DEF Numbers
<1>5. k > Cardinality(N)
  BY <1>1
<1> HIDE DEF N, k, I
<1>6. \E n \in I : n \notin N
  <2>1. SUFFICES ASSUME I \in SUBSET N PROVE FALSE
    OBVIOUS
  <2>2. Cardinality(I) <= Cardinality(N)
    BY <2>1, <1>1, FS_Subset
  <2> QED BY <2>2, <1>1, <1>2, <1>5
<1>7. NewNumber(c) \in I /\ NewNumber(c) \notin N
  BY <1>3, <1>6
<1> QED BY <1>2, <1>4, <1>7

-----------------------------------------------------------------------------
(* Every step keeps the types.                                             *)

LEMMA TypeInit == Init => TypeInv
<1> SUFFICES ASSUME Init PROVE TypeInv
  OBVIOUS
<1>1. [NewChannel EXCEPT !.state = "none"] \in Channel
  BY NewChannelIs DEF Channel
<1>2. PICK p \in Plans : user = [c \in Channels |-> [NewUser EXCEPT !.plan = p[c]]]
  BY DEF Init
<1>3. \A c \in Channels : p[c] \in SUBSET Messages
  BY DEF Messages
<1>4. user \in [Channels -> Client]
  BY <1>2, <1>3, NewUserIs
<1>5. IsFiniteSet(requests) /\ requests = {}
  BY FS_EmptySet DEF Init
<1>6. \A S : <<>> \in Seq(S)
  BY EmptySeq
<1> QED BY <1>1, <1>4, <1>5, <1>6, NoDataIs DEF Init, TypeInv

LEMMA LineIs ==
    ASSUME TypeInv, NEW c \in Channels, NEW names, Ready(c, names)
    PROVE  /\ line[c] # <<>> /\ Head(line[c]).cmd.name \in names /\ Number(c) \in Nat
           /\ chan[c] \in Channel /\ chan[c].state = "open"
BY CommandIs DEF Ready, TypeInv

LEMMA CodesAre ==
    /\ 150 \in Codes /\ 200 \in Codes /\ 213 \in Codes /\ 221 \in Codes /\ 226 \in Codes /\ 227 \in Codes
    /\ 230 \in Codes /\ 250 \in Codes /\ 331 \in Codes /\ 350 \in Codes /\ 421 \in Codes /\ 426 \in Codes
    /\ 451 \in Codes /\ 530 \in Codes /\ 550 \in Codes /\ 553 \in Codes
BY DEF Codes

\* Every reply can be said.
LEMMA SayTypes ==
    \A r \in Channel, n \in Nat :
          /\ Respond(r, n, 150) \in Channel
          /\ Respond(r, n, 200) \in Channel
          /\ Respond(r, n, 213) \in Channel
          /\ Respond(r, n, 221) \in Channel
          /\ Respond(r, n, 226) \in Channel
          /\ Respond(r, n, 227) \in Channel
          /\ Respond(r, n, 230) \in Channel
          /\ Respond(r, n, 250) \in Channel
          /\ Respond(r, n, 331) \in Channel
          /\ Respond(r, n, 350) \in Channel
          /\ Respond(r, n, 421) \in Channel
          /\ Respond(r, n, 426) \in Channel
          /\ Respond(r, n, 451) \in Channel
          /\ Respond(r, n, 530) \in Channel
          /\ Respond(r, n, 550) \in Channel
          /\ Respond(r, n, 553) \in Channel
<1> TAKE r \in Channel, n \in Nat
<1>1. \A k \in Codes : Respond(r, n, k) \in Channel
  BY RespondIs
<1> QED BY <1>1, CodesAre

LEMMA SimpleTypes ==
    ASSUME TypeInv, NEW c \in Channels,
           NotLoggedIn(c) \/ Cmd_noop(c) \/ Cmd_quit(c) \/ Cmd_rest(c) \/ Cmd_pasv(c) \/ Cmd_user(c)
    PROVE  TypeInv'
<1>1. ASSUME NotLoggedIn(c) PROVE TypeInv'
  <2>1. line[c] # <<>> /\ chan[c] \in Channel
    BY <1>1 DEF NotLoggedIn, TypeInv
  <2>2. Number(c) \in Nat
    BY <2>1, CommandIs
  <2>3. Respond(chan[c], Number(c), 530) \in Channel
    BY <2>1, <2>2, SayTypes
  <2> QED BY <1>1, <2>1, <2>3, AnsweredType DEF NotLoggedIn
<1>2. ASSUME Cmd_noop(c) PROVE TypeInv'
  <2>1. line[c] # <<>> /\ Respond(chan[c], Number(c), 200) \in Channel
    BY <1>2, LineIs, SayTypes DEF Cmd_noop
  <2> QED BY <1>2, <2>1, AnsweredType DEF Cmd_noop
<1>3. ASSUME Cmd_quit(c) PROVE TypeInv'
  <2>1. line[c] # <<>> /\ Respond(chan[c], Number(c), 221) \in Channel
    BY <1>3, LineIs, SayTypes DEF Cmd_quit
  <2>2. CloseWhenDone(Respond(chan[c], Number(c), 221)) \in Channel
    BY <2>1, CloseIs
  <2> QED BY <1>3, <2>1, <2>2, AnsweredType DEF Cmd_quit
<1>4. ASSUME Cmd_rest(c) PROVE TypeInv'
  <2>1. line[c] # <<>> /\ chan[c] \in Channel /\ Number(c) \in Nat /\ Arg(c) \in Restarts
    BY <1>4, LineIs, CommandIs DEF Cmd_rest
  <2>2. [chan[c] EXCEPT !.restart = Arg(c)] \in Channel
    BY <2>1 DEF Channel
  <2>3. Respond([chan[c] EXCEPT !.restart = Arg(c)], Number(c), 350) \in Channel
    BY <2>1, <2>2, SayTypes
  <2> QED BY <1>4, <2>1, <2>3, AnsweredType DEF Cmd_rest
<1>5. ASSUME Cmd_pasv(c) PROVE TypeInv'
  <2>1. line[c] # <<>> /\ chan[c] \in Channel /\ Number(c) \in Nat
    BY <1>5, LineIs DEF Cmd_pasv
  <2>2. [chan[c] EXCEPT !.pasv = "listening", !.dc = NoDc] \in Channel
    BY <2>1 DEF Channel
  <2>3. Respond([chan[c] EXCEPT !.pasv = "listening", !.dc = NoDc], Number(c), 227) \in Channel
    BY <2>1, <2>2, SayTypes
  <2> QED BY <1>5, <2>1, <2>3, AnsweredType DEF Cmd_pasv
<1>6. ASSUME Cmd_user(c) PROVE TypeInv'
  <2>1. line[c] # <<>> /\ chan[c] \in Channel /\ Number(c) \in Nat /\ Arg(c).name \in UserIds /\ Arg(c).path \in Paths
    BY <1>6, LineIs, CommandIs DEF Cmd_user
  <2>2. [chan[c] EXCEPT !.userid = Arg(c).name, !.at = Arg(c).path, !.as = NoUser] \in Channel
    BY <2>1 DEF Channel, UserIds
  <2>3. Respond([chan[c] EXCEPT !.userid = Arg(c).name, !.at = Arg(c).path, !.as = NoUser], Number(c), 331) \in Channel
    BY <2>1, <2>2, SayTypes
  <2> QED BY <1>6, <2>1, <2>3, AnsweredType DEF Cmd_user
<1> QED BY <1>1, <1>2, <1>3, <1>4, <1>5, <1>6

LEMMA PassType ==
    ASSUME TypeInv, NEW c \in Channels, Cmd_pass(c)
    PROVE  TypeInv'
<1> DEFINE r == chan[c]
           a == [r EXCEPT !.anonymous = FALSE, !.at = NoPath]
           b == [r EXCEPT !.authorized = TRUE, !.anonymous = TRUE]
<1>1. line[c] # <<>> /\ r \in Channel /\ Number(c) \in Nat
  BY LineIs DEF Cmd_pass
<1>2. a \in Channel /\ b \in Channel /\ r.at \in Paths /\ <<r.at, NoLoad>> \in Paths \X Args
  BY <1>1, ZenonT(40) DEF Channel, Paths, Args
<1>3. <<r.at, NoLoad>> \in Loads /\ "PASS" \in ReqNames
  BY <1>2 DEF Loads, ReqNames
<1>6. \/ Asked(c, a, "PASS", <<r.at, NoLoad>>)
      \/ Answered(c, Respond(b, Number(c), 230))
      \/ Answered(c, CloseWhenDone(Respond(r, Number(c), 421)))
  BY DEF Cmd_pass
<1> HIDE DEF a, b, r
<1>4. Respond(b, Number(c), 230) \in Channel /\ Respond(r, Number(c), 421) \in Channel
  BY <1>1, <1>2, SayTypes, SMTT(30)
<1>5. CloseWhenDone(Respond(r, Number(c), 421)) \in Channel
  BY <1>4, CloseIs
<1> QED BY <1>1, <1>2, <1>3, <1>4, <1>5, <1>6, AnsweredType, AskedType

LEMMA AskTypes ==
    ASSUME TypeInv, NEW c \in Channels,
           Cmd_ask(c) \/ Cmd_cwd(c) \/ Cmd_list(c) \/ Cmd_retr(c) \/ Cmd_rnfr(c)
    PROVE  TypeInv'
<1>0. chan[c] \in Channel /\ chan[c].path \in Paths /\ NoLoad \in Loads /\ NoLoad \in Args
  BY DEF TypeInv, Channel, Loads, Args
<1>1. ASSUME Cmd_ask(c) PROVE TypeInv'
  <2>1. line[c] # <<>> /\ "ASK" \in ReqNames
    BY <1>1, LineIs DEF Cmd_ask, ReqNames
  <2> QED BY <1>0, <1>1, <2>1, AskedType DEF Cmd_ask
<1>2. ASSUME Cmd_cwd(c) PROVE TypeInv'
  <2>1. line[c] # <<>> /\ "CWD" \in ReqNames /\ Arg(c).path \in Paths
    BY <1>2, LineIs, CommandIs DEF Cmd_cwd, ReqNames
  <2>2. <<Arg(c).path, NoLoad>> \in Paths \X Args /\ <<Arg(c).path, NoLoad>> \in Loads
    BY <1>0, <2>1 DEF Loads
  <2> QED BY <1>0, <1>2, <2>1, <2>2, AskedType DEF Cmd_cwd
<1>3. ASSUME Cmd_list(c) PROVE TypeInv'
  <2>1. line[c] # <<>> /\ "LIST" \in ReqNames /\ Arg(c) \in Args
    BY <1>3, LineIs, CommandIs DEF Cmd_list, ReqNames
  <2>2. <<chan[c].path, Arg(c)>> \in Loads
    BY <1>0, <2>1 DEF Loads
  <2> QED BY <1>0, <1>3, <2>1, <2>2, AskedType DEF Cmd_list
<1>4. ASSUME Cmd_retr(c) PROVE TypeInv'
  <2>1. line[c] # <<>> /\ "RETR" \in ReqNames /\ Arg(c) \in Args
    BY <1>4, LineIs, CommandIs DEF Cmd_retr, ReqNames
  <2>2. <<chan[c].path, Arg(c)>> \in Loads
    BY <1>0, <2>1 DEF Loads
  <2>3. [chan[c] EXCEPT !.producers = <<chan[c].path, Arg(c)>>] \in Channel
    BY <1>0, <2>2 DEF Channel
  <2> QED BY <1>4, <2>1, <2>2, <2>3, AskedType DEF Cmd_retr
<1>5. ASSUME Cmd_rnfr(c) PROVE TypeInv'
  <2>1. line[c] # <<>> /\ "RNFR" \in ReqNames /\ Arg(c) \in Args
    BY <1>5, LineIs, CommandIs DEF Cmd_rnfr, ReqNames
  <2>2. [chan[c] EXCEPT !.from = Arg(c)] \in Channel
    BY <1>0, <2>1 DEF Channel
  <2> QED BY <1>0, <1>5, <2>1, <2>2, AskedType DEF Cmd_rnfr
<1> QED BY <1>1, <1>2, <1>3, <1>4, <1>5

LEMMA NewDataIs ==
    ASSUME TypeInv, NEW c \in Channels, NEW r \in Channel, NEW kind \in {"xmit", "recv"}, NEW n \in Nat, NEW load \in Loads
    PROVE  NewData(c, r, kind, n, load) \in Data
<1>1. SocketOf(r.pasv) \in {"open", "connecting", "nosocket"}
  BY DEF SocketOf
<1> QED BY <1>1 DEF NewData, Data

LEMMA MadeIs ==
    ASSUME NEW r \in Channel, NEW d \in Dcs
    PROVE  /\ Made(r, d) \in Channel
           /\ Made(r, d).dc = d /\ Made(r, d).out = r.out
           /\ Made(r, d).pasv = IF r.pasv = "ready" THEN "none" ELSE r.pasv
           /\ SameButOut([r EXCEPT !.dc = d, !.pasv = Made(r, d).pasv], Made(r, d))
BY DEF Made, Channel, SameButOut

LEMMA UnusedIs ==
    ASSUME Unused # {}
    PROVE  (CHOOSE x \in Unused : TRUE) \in Unused /\ Unused \subseteq Dcs
BY DEF Unused

LEMMA StorType ==
    ASSUME TypeInv, NEW c \in Channels, Cmd_stor(c)
    PROVE  TypeInv'
<1> DEFINE r == chan[c]
           d == CHOOSE x \in Unused : TRUE
           load == <<r.path, Arg(c)>>
<1>1. line[c] # <<>> /\ r \in Channel /\ Number(c) \in Nat /\ Arg(c) \in Args /\ load \in Loads
  BY LineIs, CommandIs DEF Cmd_stor, Channel, Loads
<1>2. Respond(r, Number(c), 553) \in Channel /\ Respond(r, Number(c), 150) \in Channel
  <2> HIDE DEF r, load
  <2> QED BY <1>1, SayTypes
<1>3. CASE Answered(c, Respond(r, Number(c), 553))
  BY <1>1, <1>2, <1>3, AnsweredType
<1>4. CASE /\ Unused # {} /\ Consumed(c)
           /\ chan' = [chan EXCEPT ![c] = Made(Respond(r, Number(c), 150), d)]
           /\ dcs' = [dcs EXCEPT ![d] = NewData(c, r, "recv", Number(c), load)]
           /\ UNCHANGED <<requests, thunks, user>>
  <2>1. d \in Dcs
    BY <1>4, UnusedIs
  <2> HIDE DEF r, d, load
  <2>2. Made(Respond(r, Number(c), 150), d) \in Channel /\ NewData(c, r, "recv", Number(c), load) \in Data
    BY <1>1, <1>2, <2>1, MadeIs, NewDataIs, ZenonT(40)
  <2> QED BY <1>1, <1>4, <2>2, CommandIs DEF TypeInv, Consumed
<1> QED BY <1>3, <1>4 DEF Cmd_stor

LEMMA FailType ==
    ASSUME TypeInv, NEW c \in Channels, Cmd_abor(c) \/ Cmd_rnto(c)
    PROVE  TypeInv'
<1> DEFINE r == chan[c]
<1>1. line[c] # <<>> /\ r \in Channel /\ Number(c) \in Nat
  BY LineIs DEF Cmd_abor, Cmd_rnto
<1>2. ClosedData(r) \in Channel /\ DcsWithout(r.dc) \in [Dcs -> Data]
  BY <1>1, ClosedDataType
<1>3. /\ Respond(ClosedData(r), Number(c), 451) \in Channel
      /\ Respond(ClosedData(r), Number(c), 226) \in Channel
  BY <1>1, <1>2, SayTypes
<1>4. ASSUME Cmd_abor(c) PROVE TypeInv'
  <2>1. /\ Consumed(c) /\ dcs' = DcsWithout(r.dc) /\ UNCHANGED <<requests, thunks, user>>
        /\ \/ chan' = [chan EXCEPT ![c] = Respond(ClosedData(r), Number(c), 451)]
           \/ chan' = [chan EXCEPT ![c] = Respond(ClosedData(r), Number(c), 226)]
    BY <1>4 DEF Cmd_abor
  <2> HIDE DEF r
  <2>2. line' \in [Channels -> Seq(Command)]
    BY <1>1, <2>1, CommandIs DEF Consumed
  <2>3. chan' \in [Channels -> Channel]
    BY <1>3, <2>1, ZenonT(40) DEF TypeInv
  <2> QED BY <1>2, <2>1, <2>2, <2>3 DEF TypeInv
<1>5. ASSUME Failed(c) PROVE TypeInv'
  <2>1. /\ Consumed(c) /\ dcs' = DcsWithout(r.dc) /\ UNCHANGED <<requests, thunks, user>>
        /\ chan' = [chan EXCEPT ![c] = Respond(ClosedData(r), Number(c), 451)]
    BY <1>5 DEF Failed
  <2> HIDE DEF r
  <2>2. line' \in [Channels -> Seq(Command)]
    BY <1>1, <2>1, CommandIs DEF Consumed
  <2> QED BY <1>2, <1>3, <2>1, <2>2 DEF TypeInv
<1>6. ASSUME Asked(c, chan[c], "RNTO", NoLoad) PROVE TypeInv'
  <2>1. "RNTO" \in ReqNames /\ NoLoad \in Loads
    BY DEF ReqNames, Loads
  <2> QED BY <1>1, <1>6, <2>1, AskedType
<1> QED BY <1>4, <1>5, <1>6 DEF Cmd_rnto

LEMMA HandleType ==
    ASSUME TypeInv, NEW c \in Channels, Handle(c)
    PROVE  TypeInv'
BY SimpleTypes, PassType, AskTypes, StorType, FailType DEF Handle

LEMMA SendType ==
    ASSUME TypeInv, NEW c \in Channels, NEW m \in user[c].plan, Send(c, m)
    PROVE  /\ TypeInv' /\ m \in Messages
           /\ user[c].owed \in Seq(Nat) /\ Append(user[c].owed, NewNumber(c)) \in Seq(Nat)
<1> DEFINE n == NewNumber(c)
           u == user[c]
           v == [u EXCEPT !.owed = Append(@, n),
                          !.want = IF m.name \in {"RETR", "LIST", "STOR"} THEN <<n, <<u.cwd, m.arg>>>> ELSE @,
                          !.going = IF m.name \in {"CWD", "USER"} THEN m.arg.path ELSE @]
<1>1. u \in Client /\ m \in Messages
  BY DEF TypeInv, Client
<1>2. n \in Nat
  BY FreshNumber
<1> HIDE DEF n
<1>3. u.owed \in Seq(Nat) /\ Append(u.owed, n) \in Seq(Nat)
  BY <1>1, <1>2, AppendOwed DEF Client
<1>4. /\ m.name \in {"RETR", "LIST", "STOR"} => <<n, <<u.cwd, m.arg>>>> \in Nat \X (Paths \X Args)
      /\ m.name \in {"CWD", "USER"} => m.arg.path \in Paths
  BY <1>1, <1>2 DEF Client, Args, Paths, Named
<1>5. v \in Client
  <2>1. /\ u.owed \in Seq(Nat) /\ Append(u.owed, n) \in Seq(Nat)
        /\ (IF m.name \in {"RETR", "LIST", "STOR"} THEN <<n, <<u.cwd, m.arg>>>> ELSE u.want)
               \in {NoLoad} \cup (Nat \X (Paths \X Args))
        /\ (IF m.name \in {"CWD", "USER"} THEN m.arg.path ELSE u.going) \in Paths
    BY <1>1, <1>3, <1>4 DEF Client
  <2> QED BY <1>1, <2>1 DEF Client
<1>6. /\ line' = [line EXCEPT ![c] = Append(line[c], [to |-> n, cmd |-> m])]
      /\ user' = [user EXCEPT ![c] = v]
      /\ UNCHANGED <<chan, dcs, requests, thunks>>
  <2>1. line' = [line EXCEPT ![c] = Append(line[c], [to |-> n, cmd |-> m])] /\ UNCHANGED <<chan, dcs, requests, thunks>>
    BY Zenon DEF Send, n
  <2>2. user' = [user EXCEPT ![c] = v]
    BY Zenon DEF Send, n
  <2> QED BY <2>1, <2>2
<1> HIDE DEF v
<1>7. Append(line[c], [to |-> n, cmd |-> m]) \in Seq(Command)
  BY <1>1, <1>2, AppendRange DEF TypeInv, Command
<1> QED BY <1>1, <1>3, <1>5, <1>6, <1>7 DEF TypeInv, n

LEMMA ReadType ==
    ASSUME NEW u \in Client, NEW x \in Reply
    PROVE  Read(u, x) \in Client
<1>1. CASE x.code < 200 \/ x.to \notin ToSet(u.owed)
  BY <1>1 DEF Read
<1>2. CASE ~(x.code < 200 \/ x.to \notin ToSet(u.owed))
  <2> DEFINE k == CHOOSE i \in DOMAIN u.owed : u.owed[i] = x.to
  <2>1. u.owed \in Seq(Nat) /\ DOMAIN u.owed = 1 .. Len(u.owed) /\ Len(u.owed) \in Nat
    BY DEF Client
  <2>2. k \in DOMAIN u.owed
    BY <1>2 DEF ToSet
  <2> HIDE DEF k
  <2>3. SubSeq(u.owed, k + 1, Len(u.owed)) \in Seq(Nat)
    BY <2>1, <2>2
  <2>4. After(u.owed, x.to) \in Seq(Nat)
    BY <2>3 DEF After, k
  <2>5. NoPath \in Paths /\ NoLoad \in Loads
    BY DEF Paths, Loads
  <2> DEFINE done == u.want # NoLoad /\ u.want[1] = x.to
             going == IF x.code = 331 THEN u.going ELSE NoPath
             cwd == IF x.code \in {230, 250} /\ u.going # NoPath THEN u.going ELSE u.cwd
  <2>6. going \in Paths /\ cwd \in Paths
    BY <2>5 DEF Client
  <2>7. Read(u, x) = [u EXCEPT !.owed = After(u.owed, x.to), !.cwd = cwd, !.going = going,
                               !.want = IF done THEN NoLoad ELSE u.want, !.got = IF done THEN NoLoad ELSE u.got]
    BY <1>2 DEF Read
  <2> HIDE DEF done, going, cwd
  <2> QED BY <2>4, <2>5, <2>6, <2>7 DEF Client
<1> QED BY <1>1, <1>2

LEMMA ClientTypes ==
    ASSUME TypeInv, DataInv, NEW c \in Channels, Accept(c) \/ Flush(c) \/ Arrives(c)
    PROVE  TypeInv'
<1>0. chan[c] \in Channel /\ user[c] \in Client
  BY DEF TypeInv
<1>1. ASSUME Accept(c) PROVE TypeInv'
  BY <1>1, NewChannelIs DEF Accept, TypeInv
<1>2. ASSUME Flush(c) PROVE TypeInv'
  <2>1. chan[c].out \in Seq(Reply) /\ chan[c].out # <<>>
    BY <1>0, <1>2 DEF Flush, Channel
  <2>2. Tail(chan[c].out) \in Seq(Reply) /\ Head(chan[c].out) \in Reply
    BY <2>1, OutTail
  <2>3. [chan[c] EXCEPT !.out = Tail(@)] \in Channel
    BY <1>0, <2>2 DEF Channel
  <2>4. Read(user[c], Head(chan[c].out)) \in Client
    BY <1>0, <2>2, ReadType
  <2>5. /\ chan' = [chan EXCEPT ![c] = [chan[c] EXCEPT !.out = Tail(@)]]
        /\ user' = [user EXCEPT ![c] = Read(user[c], Head(chan[c].out))]
        /\ UNCHANGED <<dcs, requests, thunks, line>>
    BY <1>2 DEF Flush, TypeInv
  <2> QED BY <2>3, <2>4, <2>5 DEF TypeInv
<1>3. ASSUME Arrives(c) PROVE TypeInv'
  <2> DEFINE d == chan[c].dc
  <2>1. [chan[c] EXCEPT !.pasv = IF d = NoDc THEN "ready" ELSE "none"] \in Channel
    BY <1>0 DEF Channel
  <2>2. d = NoDc \/ d \in Dcs
    BY <1>0 DEF Channel
  <2>3. /\ chan' = [chan EXCEPT ![c] = [chan[c] EXCEPT !.pasv = IF d = NoDc THEN "ready" ELSE "none"]]
        /\ UNCHANGED <<requests, thunks, line, user>>
        /\ dcs' = IF d = NoDc THEN dcs ELSE [dcs EXCEPT ![d].state = "open"]
    BY <1>3 DEF Arrives, TypeInv
  <2>4. dcs' \in [Dcs -> Data]
    <3>1. CASE d = NoDc
      BY <2>3, <3>1 DEF TypeInv
    <3>2. CASE d # NoDc
      <4>1. dcs[d] \in Data /\ dcs[d].state # "free"
        BY <2>2, <3>2 DEF TypeInv, DataInv, PointsTo
      <4>2. [dcs[d] EXCEPT !.state = "open"] \in Data
        BY <4>1 DEF Data
      <4> QED BY <2>2, <2>3, <3>2, <4>2 DEF TypeInv
    <3> QED BY <3>1, <3>2
  <2> HIDE DEF d
  <2> QED BY <2>1, <2>3, <2>4 DEF TypeInv
<1> QED BY <1>1, <1>2, <1>3

LEMMA DataTypes ==
    ASSUME TypeInv, NEW d \in Dcs, Connected(d) \/ Transferred(d) \/ Lost(d) \/ Uploaded(d)
    PROVE  TypeInv'
<1> DEFINE c == dcs[d].chan
<1>0. dcs[d] \in Data /\ dcs[d].state # "free"
  BY DEF TypeInv, Connected, Transferred, Lost, Uploaded
<1>1. c \in Channels /\ dcs[d].to \in Nat /\ dcs[d].load \in Loads
  BY <1>0 DEF Data
<1>2. chan[c] \in Channel /\ user[c] \in Client
  BY <1>1 DEF TypeInv
<1>3. XmitClosed(chan[c], d, TRUE) \in Channel /\ XmitClosed(chan[c], d, FALSE) \in Channel
  BY <1>2, XmitClosedIs
<1>4. ASSUME Connected(d) PROVE TypeInv'
  BY <1>0, <1>4, DataChanges DEF Connected, TypeInv
<1>5. ASSUME Transferred(d) PROVE TypeInv'
  <2>1. [user[c] EXCEPT !.got = dcs[d].load] \in Client
    BY <1>1, <1>2 DEF Client
  <2>2. /\ chan' = [chan EXCEPT ![c] = XmitClosed(chan[c], d, TRUE)]
        /\ dcs' = [dcs EXCEPT ![d] = NoData]
        /\ user' = [user EXCEPT ![c] = [user[c] EXCEPT !.got = dcs[d].load]]
        /\ UNCHANGED <<requests, thunks, line>>
    BY <1>1, <1>5 DEF Transferred, TypeInv
  <2> HIDE DEF c
  <2> QED BY <1>1, <1>3, <2>1, <2>2, NoDataIs DEF TypeInv
<1>6. ASSUME Lost(d) PROVE TypeInv'
  <2>2. /\ chan' = [chan EXCEPT ![c] = XmitClosed(chan[c], d, FALSE)]
        /\ dcs' = [dcs EXCEPT ![d] = NoData]
        /\ UNCHANGED <<requests, thunks, line, user>>
    BY <1>1, <1>6 DEF Lost, TypeInv
  <2> HIDE DEF c
  <2> QED BY <1>1, <1>3, <2>2, NoDataIs DEF TypeInv
<1>7. ASSUME Uploaded(d) PROVE TypeInv'
  <2>1. /\ Handed(c, dcs[d].to, "STOR", dcs[d].load) \subseteq Request
        /\ IsFiniteSet(Handed(c, dcs[d].to, "STOR", dcs[d].load))
    <3>1. "STOR" \in ReqNames
      BY DEF ReqNames
    <3> QED BY <3>1, <1>1, HandedType
  <2> QED BY <1>0, <1>7, <2>1, DataChanges DEF Uploaded, TypeInv
<1> QED BY <1>4, <1>5, <1>6, <1>7

LEMMA WorkType ==
    ASSUME TypeInv, NEW q, NEW ok \in BOOLEAN, NEW odd \in BOOLEAN, Work(q, ok, odd)
    PROVE  /\ TypeInv' /\ q \in Request /\ q.chan \in Channels
           /\ [chan |-> q.chan, to |-> q.to, name |-> q.name, load |-> q.load, ok |-> ok, odd |-> odd] \in Thunk
<1> DEFINE t == [chan |-> q.chan, to |-> q.to, name |-> q.name, load |-> q.load, ok |-> ok, odd |-> odd]
<1>1. q \in requests /\ q \in Request /\ q.chan \in Channels /\ q.load \in Loads
  BY DEF Work, TypeInv, Request
<1>2. t \in Thunk
  BY <1>1 DEF Request, Thunk, HasFolder
<1>3. requests \ {q} \subseteq Request /\ IsFiniteSet(requests \ {q})
  BY FS_RemoveElement DEF TypeInv
<1>4. Append(thunks, t) \in Seq(Thunk)
  BY <1>2, AppendRange DEF TypeInv
<1>5. [user[q.chan] EXCEPT !.got = q.load] \in Client
  BY <1>1, ZenonT(40) DEF TypeInv, Client
<1>6. /\ requests' = requests \ {q} /\ thunks' = Append(thunks, t)
      /\ user' = user \/ user' = [user EXCEPT ![q.chan] = [user[q.chan] EXCEPT !.got = q.load]]
      /\ UNCHANGED <<chan, dcs, line>>
  BY <1>1 DEF Work, TypeInv
<1> HIDE DEF t
<1>7. user' \in [Channels -> Client]
  BY <1>1, <1>5, <1>6 DEF TypeInv
<1>8. TypeInv'
  BY <1>3, <1>4, <1>6, <1>7 DEF TypeInv
<1> QED BY <1>1, <1>2, <1>8 DEF t

LEMMA KnownIs ==
    ASSUME NEW r \in Channel
    PROVE  /\ Known(r) \in Channel /\ Known(r).out = r.out
           /\ SameButOut([r EXCEPT !.anonymous = Known(r).anonymous], Known(r))
           /\ ~r.anonymous => ~Known(r).anonymous
BY DEF Known, Channel, SameButOut

LEMMA OpenedType ==
    ASSUME TypeInv, thunks # <<>>, NEW r \in Channel, NEW load \in Loads,
           Opened(Head(thunks).chan, r, Head(thunks), load)
    PROVE  TypeInv'
<1> DEFINE t == Head(thunks)
           c == t.chan
           d == CHOOSE x \in Unused : TRUE
           s == IF load = NoLoad THEN Made(r, d) ELSE Respond(Made(r, d), t.to, 150)
<1>1. d \in Dcs /\ c \in Channels /\ t.to \in Nat /\ Tail(thunks) \in Seq(Thunk)
  BY ThunkIs, UnusedIs DEF Opened
<1>2. /\ chan' = [chan EXCEPT ![c] = s]
      /\ dcs' = [dcs EXCEPT ![d] = NewData(c, r, "xmit", t.to, load)]
      /\ thunks' = Tail(thunks) /\ UNCHANGED <<requests, line, user>>
  BY DEF Opened
<1> HIDE DEF d, c, t
<1>3. NewData(c, r, "xmit", t.to, load) \in Data /\ Made(r, d) \in Channel
  BY <1>1, MadeIs, NewDataIs
<1>4. s \in Channel
  <2> DEFINE made == Made(r, d)
             n == t.to
  <2>1. made \in Channel /\ n \in Nat
    BY <1>1, <1>3
  <2> HIDE DEF made, n
  <2>2. Respond(made, n, 150) \in Channel
    BY <2>1, SayTypes
  <2> QED BY <2>1, <2>2 DEF made, n
<1> HIDE DEF s
<1> QED BY <1>1, <1>2, <1>3, <1>4 DEF TypeInv

LEMMA ApplyType ==
    ASSUME TypeInv, Apply
    PROVE  TypeInv'
<1> DEFINE t == Head(thunks)
           r == chan[t.chan]
<1>0. thunks # <<>>
  BY DEF Apply, Ask_completion, Cwd_completion, Pass_completion, Listdir_completion, Retr_completion, Stor_completion, Done
<1>1. t.chan \in Channels /\ t.to \in Nat /\ r \in Channel /\ Tail(thunks) \in Seq(Thunk) /\ t.load \in Loads
  BY <1>0, ThunkIs
<1>2. \A k \in Codes : Respond(r, t.to, k) \in Channel
  <2> HIDE DEF t, r
  <2> QED BY <1>1, RespondIs
<1>3. ASSUME Ask_completion PROVE TypeInv'
  <2>1. PICK k \in Codes : Completed(Respond(r, t.to, k))
    BY <1>3, CodesAre DEF Ask_completion
  <2> QED BY <1>0, <1>2, <2>1, CompletedType
<1>4. ASSUME Cwd_completion PROVE TypeInv'
  <2>1. CASE Completed(Respond(r, t.to, 550))
    BY <1>0, <1>2, <2>1, CodesAre, CompletedType
  <2>2. CASE Completed(Known(Respond([r EXCEPT !.path = t.load[1]], t.to, 250)))
    <3>1. [r EXCEPT !.path = t.load[1]] \in Channel
      <4>1. t.load[1] \in Paths
        BY <1>0, <1>4, ThunkIs DEF Cwd_completion, Done
      <4> QED BY <1>1, <4>1 DEF Channel
    <3> HIDE DEF t, r
    <3>2. Respond([r EXCEPT !.path = t.load[1]], t.to, 250) \in Channel
      BY <1>1, <3>1, SayTypes
    <3>3. Known(Respond([r EXCEPT !.path = t.load[1]], t.to, 250)) \in Channel
      BY <3>2, KnownIs
    <3> QED BY <1>0, <2>2, <3>3, CompletedType
  <2> QED BY <1>4, <2>1, <2>2 DEF Cwd_completion
<1>5. ASSUME Pass_completion PROVE TypeInv'
  <2>1. t.load[1] \in Paths
    BY <1>0, <1>5, ThunkIs DEF Pass_completion, Done
  <2> DEFINE in == [r EXCEPT !.path = t.load[1], !.authorized = TRUE, !.as = r.userid, !.anonymous = (r.userid = "anonymous")]
  <2>2. in \in Channel
    BY <1>1, <2>1 DEF Channel
  <2>3. Completed(Passed(r, t))
    BY <1>5 DEF Pass_completion
  <2>4. /\ Passed(r, t) \in {Respond(r, t.to, 530), Respond(CloseWhenDone(r), t.to, 421), Respond(in, t.to, 230)}
    BY DEF Passed
  <2> HIDE DEF t, r, in
  <2>5. /\ Respond(r, t.to, 530) \in Channel /\ Respond(CloseWhenDone(r), t.to, 421) \in Channel
        /\ Respond(in, t.to, 230) \in Channel
    <3> DEFINE n == t.to
               b == CloseWhenDone(r)
    <3>1. b \in Channel /\ n \in Nat
      BY <1>1, CloseIs
    <3> HIDE DEF b, n
    <3>2. Respond(r, n, 530) \in Channel
      BY <1>1, <3>1, SayTypes
    <3>3. Respond(b, n, 421) \in Channel
      BY <3>1, SayTypes
    <3>4. Respond(in, n, 230) \in Channel
      BY <2>2, <3>1, SayTypes
    <3> QED BY <3>2, <3>3, <3>4 DEF b, n
  <2>6. Passed(r, t) \in Channel
    BY <2>4, <2>5
  <2> QED BY <1>0, <2>3, <2>6, CompletedType
<1>6. ASSUME Listdir_completion PROVE TypeInv'
  <2>1. CASE Completed(Respond(r, t.to, 550))
    BY <1>0, <1>2, <2>1, CodesAre, CompletedType
  <2>2. CASE Opened(t.chan, Known(r), t, t.load)
    <3>1. Known(r) \in Channel
      BY <1>1, KnownIs
    <3> HIDE DEF r
    <3> QED BY <1>0, <1>1, <2>2, <3>1, OpenedType
  <2> QED BY <1>6, <2>1, <2>2 DEF Listdir_completion
<1>7. ASSUME Retr_completion PROVE TypeInv'
  <2>1. CASE Completed(Respond(r, t.to, 550))
    BY <1>0, <1>2, <2>1, CodesAre, CompletedType
  <2> DEFINE s == IF Streamed(r, t) = NoLoad THEN r ELSE [r EXCEPT !.producers = NoLoad]
  <2>2. CASE Opened(t.chan, s, t, Streamed(r, t))
    <3>1. s \in Channel /\ Streamed(r, t) \in Loads
      BY <1>1, ZenonT(40) DEF Channel, Loads, Streamed
    <3> HIDE DEF r, s
    <3> QED BY <1>0, <2>2, <3>1, OpenedType
  <2> QED BY <1>7, <2>1, <2>2 DEF Retr_completion
<1>8. ASSUME Stor_completion PROVE TypeInv'
  <2> DEFINE told == Respond(r, t.to, IF t.ok THEN 226 ELSE 426)
  <2>1. told \in Channel /\ told.dc = r.dc
    <3> DEFINE k == IF t.ok THEN 226 ELSE 426
    <3>1. k \in Codes
      BY CodesAre
    <3> HIDE DEF r, t, k
    <3>2. Respond(r, t.to, k) \in Channel /\ Respond(r, t.to, k).dc = r.dc
      BY <1>1, <3>1, RespondIs DEF SameButOut
    <3> QED BY <3>2 DEF k
  <2>2. CASE Completed(r)
    BY <1>0, <1>1, <2>2, CompletedType
  <2>3. CASE /\ chan' = [chan EXCEPT ![t.chan] = ClosedData(told)]
             /\ dcs' = DcsWithout(r.dc)
             /\ thunks' = Tail(thunks) /\ UNCHANGED <<requests, line, user>>
    <3>1. ClosedData(told) \in Channel /\ DcsWithout(r.dc) \in [Dcs -> Data]
      <4> HIDE DEF told
      <4> QED BY <2>1, ClosedDataType
    <3> HIDE DEF told, r
    <3> QED BY <1>1, <2>3, <3>1 DEF TypeInv
  <2> QED BY <1>8, <2>2, <2>3 DEF Stor_completion
<1> QED BY <1>3, <1>4, <1>5, <1>6, <1>7, <1>8 DEF Apply

LEMMA CloseType ==
    ASSUME TypeInv, NEW c \in Channels, Close(c)
    PROVE  TypeInv'
<1> DEFINE r == chan[c]
           g == ClosedData([r EXCEPT !.state = "closed"])
           s == [g EXCEPT !.state = IF Raises(r.dc) THEN "stuck" ELSE "closed",
                          !.pasv = IF @ = "listening" THEN "dead" ELSE @, !.out = <<>>]
<1>1. r \in Channel
  BY DEF TypeInv
<1>2. [r EXCEPT !.state = "closed"] \in Channel
  BY <1>1 DEF Channel
<1>3. g \in Channel /\ DcsWithout(r.dc) \in [Dcs -> Data]
  <2> HIDE DEF r
  <2> QED BY <1>1, <1>2, ClosedDataType
<1>4. /\ chan' = [chan EXCEPT ![c] = s] /\ dcs' = DcsWithout(r.dc)
      /\ line' = [line EXCEPT ![c] = <<>>] /\ user' = [user EXCEPT ![c] = NewUser]
      /\ UNCHANGED <<requests, thunks>>
  BY DEF Close
<1> HIDE DEF g, r
<1>5. s \in Channel
  <2>1. <<>> \in Seq(Reply)
    BY EmptySeq
  <2> QED BY <1>3, <2>1 DEF Channel
<1>6. NewUser \in Client /\ <<>> \in Seq(Command)
  BY NewUserIs, EmptySeq
<1> HIDE DEF s
<1> QED BY <1>3, <1>4, <1>5, <1>6 DEF TypeInv

LEMMA TypeStep ==
    ASSUME TypeInv, DataInv, [Next]_vars
    PROVE  TypeInv'
<1>1. ASSUME NEW c \in Channels, Accept(c) \/ Flush(c) \/ Arrives(c) PROVE TypeInv'
  BY <1>1, ClientTypes
<1>2. ASSUME NEW c \in Channels, NEW m \in user[c].plan, Send(c, m) PROVE TypeInv'
  BY <1>2, SendType
<1>3. ASSUME NEW c \in Channels, Handle(c) PROVE TypeInv'
  BY <1>3, HandleType
<1>4. ASSUME NEW d \in Dcs, Connected(d) \/ Transferred(d) \/ Lost(d) \/ Uploaded(d) PROVE TypeInv'
  BY <1>4, DataTypes
<1>5. ASSUME NEW c \in Channels, Served(c) PROVE TypeInv'
  BY <1>5, WorkType DEF Served
<1>6. ASSUME Apply PROVE TypeInv'
  BY <1>6, ApplyType
<1>7. ASSUME NEW c \in Channels, Close(c) PROVE TypeInv'
  BY <1>7, CloseType
<1>8. CASE UNCHANGED vars
  BY <1>8 DEF vars, TypeInv
<1> QED BY <1>1, <1>2, <1>3, <1>4, <1>5, <1>6, <1>7, <1>8 DEF Next


-----------------------------------------------------------------------------
(* What the commands make of a channel                                     *)

\* A channel keeps who was let in, and stays what it is.
SameLogin(r, s) ==
    s.state = r.state /\ s.authorized = r.authorized /\ s.as = r.as /\ s.userid = r.userid

\* A data channel is left as it is, or forgotten.
SameData(r, s) == s.dc = NoDc \/ (s.dc = r.dc /\ s.pasv = r.pasv)

SaidTo(c, r, s, k) ==
    LET name == Head(line[c]).cmd.name
    IN  /\ s.out = Append(r.out, [to |-> Number(c), code |-> k])
        /\ s.state = r.state /\ s.authorized = r.authorized /\ s.anonymous = r.anonymous
        /\ s.path = r.path /\ s.producers = r.producers
        /\ k \notin {226, 230, 250} /\ SameData(r, s)
        /\ IF name = "USER" THEN s.at = Arg(c).path /\ k = 331 /\ s.as = NoUser
           ELSE s.at = r.at /\ k # 331 /\ s.as = r.as /\ s.userid = r.userid
        /\ name # "PASS" /\ (name = "ABOR" => ~r.authorized)

Simple(c) == NotLoggedIn(c) \/ Cmd_noop(c) \/ Cmd_quit(c) \/ Cmd_rest(c) \/ Cmd_pasv(c) \/ Cmd_user(c)

LEMMA SimpleEffect ==
    ASSUME TypeInv, NEW c \in Channels, Simple(c)
    PROVE  /\ line[c] # <<>> /\ chan[c].state = "open"
           /\ \E s \in Channel, k \in Codes :
                 SaidTo(c, chan[c], s, k) /\ (Answered(c, s) \/ Answered(c, CloseWhenDone(s)))
<1> DEFINE r == chan[c]
           n == Number(c)
           name == Head(line[c]).cmd.name
<1>1. line[c] # <<>> /\ r.state = "open"
  BY DEF Simple, NotLoggedIn, Cmd_noop, Cmd_quit, Cmd_rest, Cmd_pasv, Cmd_user, Ready
<1>2. r \in Channel /\ n \in Nat
  BY <1>1, CommandIs DEF TypeInv
<1>3. \A k \in Codes :
        /\ Respond(r, n, k) \in Channel
        /\ Respond(r, n, k).out = Append(r.out, [to |-> n, code |-> k])
        /\ SameButOut(r, Respond(r, n, k))
  <2> HIDE DEF r, n
  <2> QED BY <1>2, RespondIs
<1>4. ASSUME NEW k \in Codes \ {226, 230, 250, 331}, name \notin {"USER", "PASS"}, name = "ABOR" => ~r.authorized
      PROVE  Respond(r, n, k) \in Channel /\ SaidTo(c, r, Respond(r, n, k), k)
  <2> HIDE DEF r
  <2>1. /\ Respond(r, n, k) \in Channel /\ Respond(r, n, k).out = Append(r.out, [to |-> n, code |-> k])
        /\ SameButOut(r, Respond(r, n, k))
    BY <1>3
  <2> HIDE DEF n
  <2> DEFINE s == Respond(r, n, k)
  <2> HIDE DEF s
  <2> QED BY <2>1, <1>4 DEF SaidTo, SameButOut, SameData, s, n
<1>5. ASSUME NotLoggedIn(c) \/ Cmd_noop(c) \/ Cmd_quit(c)
      PROVE  \E s \in Channel, k \in Codes : SaidTo(c, r, s, k) /\ (Answered(c, s) \/ Answered(c, CloseWhenDone(s)))
  <2>1. name \notin {"USER", "PASS"} /\ (name = "ABOR" => ~r.authorized)
    BY <1>5 DEF NotLoggedIn, Cmd_noop, Cmd_quit, Ready
  <2>2. \/ Answered(c, Respond(r, n, 530)) \/ Answered(c, Respond(r, n, 200))
        \/ Answered(c, CloseWhenDone(Respond(r, n, 221)))
    BY <1>5 DEF NotLoggedIn, Cmd_noop, Cmd_quit
  <2>3. /\ 530 \in Codes \ {226, 230, 250, 331} /\ 200 \in Codes \ {226, 230, 250, 331}
        /\ 221 \in Codes \ {226, 230, 250, 331}
    BY CodesAre
  <2> HIDE DEF r, n, name
  <2> QED BY <2>1, <2>2, <2>3, <1>4
<1>6. ASSUME Cmd_rest(c)
      PROVE  \E s \in Channel, k \in Codes : SaidTo(c, r, s, k) /\ (Answered(c, s) \/ Answered(c, CloseWhenDone(s)))
  <2> DEFINE g == [r EXCEPT !.restart = Arg(c)]
             s == Respond(g, n, 350)
  <2>1. name = "REST" /\ Arg(c) \in Restarts /\ Answered(c, s)
    BY <1>1, <1>6, CommandIs DEF Cmd_rest, Ready
  <2>2. g \in Channel /\ g.out = r.out /\ SameButOut(r, g)
    BY <1>2, <2>1 DEF Channel, SameButOut
  <2> HIDE DEF g, n, r
  <2>3. s \in Channel /\ s.out = Append(r.out, [to |-> n, code |-> 350]) /\ SameButOut(r, s)
    <3>1. 350 \in Codes
      BY CodesAre
    <3>2. s \in Channel /\ s.out = Append(g.out, [to |-> n, code |-> 350]) /\ SameButOut(g, s)
      BY <1>2, <2>2, <3>1, RespondIs
    <3> HIDE DEF s
    <3> QED BY <2>2, <3>2 DEF SameButOut
  <2> HIDE DEF s
  <2>4. SaidTo(c, r, s, 350)
    BY <2>1, <2>3 DEF SaidTo, SameButOut, SameData, n
  <2> QED BY <2>1, <2>3, <2>4, CodesAre
<1>7. ASSUME Cmd_pasv(c)
      PROVE  \E s \in Channel, k \in Codes : SaidTo(c, r, s, k) /\ (Answered(c, s) \/ Answered(c, CloseWhenDone(s)))
  <2> DEFINE g == [r EXCEPT !.pasv = "listening", !.dc = NoDc]
             s == Respond(g, n, 227)
  <2>1. name = "PASV" /\ Answered(c, s)
    BY <1>7 DEF Cmd_pasv, Ready
  <2>2. g \in Channel /\ g.out = r.out /\ g.dc = NoDc /\ SameButOut([r EXCEPT !.pasv = "listening", !.dc = NoDc], g)
    BY <1>2 DEF Channel, SameButOut
  <2> DEFINE h == [r EXCEPT !.pasv = "listening", !.dc = NoDc]
  <2>3. /\ h.state = r.state /\ h.authorized = r.authorized /\ h.anonymous = r.anonymous
        /\ h.userid = r.userid /\ h.as = r.as /\ h.at = r.at /\ h.path = r.path /\ h.producers = r.producers
    BY <1>2 DEF Channel
  <2> HIDE DEF g, n, r
  <2>4. s \in Channel /\ s.out = Append(r.out, [to |-> n, code |-> 227]) /\ SameButOut(g, s)
    <3>1. 227 \in Codes
      BY CodesAre
    <3>2. s \in Channel /\ s.out = Append(g.out, [to |-> n, code |-> 227]) /\ SameButOut(g, s)
      BY <1>2, <2>2, <3>1, RespondIs
    <3> HIDE DEF s
    <3> QED BY <2>2, <3>2
  <2> HIDE DEF s
  <2>5. SaidTo(c, r, s, 227)
    BY <2>1, <2>2, <2>3, <2>4 DEF SaidTo, SameButOut, SameData, n
  <2> QED BY <2>1, <2>4, <2>5, CodesAre
<1>8. ASSUME Cmd_user(c)
      PROVE  \E s \in Channel, k \in Codes : SaidTo(c, r, s, k) /\ (Answered(c, s) \/ Answered(c, CloseWhenDone(s)))
  <2> DEFINE g == [r EXCEPT !.userid = Arg(c).name, !.at = Arg(c).path, !.as = NoUser]
             s == Respond(g, n, 331)
  <2>1. name = "USER" /\ Answered(c, s) /\ Arg(c).path \in Paths /\ Arg(c).name \in UserIds
    BY <1>1, <1>8, CommandIs DEF Cmd_user, Ready
  <2>2. g \in Channel /\ g.out = r.out /\ g.at = Arg(c).path /\ g.as = NoUser
    BY <1>2, <2>1 DEF Channel, UserIds
  <2>3. /\ g.state = r.state /\ g.authorized = r.authorized /\ g.anonymous = r.anonymous
        /\ g.dc = r.dc /\ g.pasv = r.pasv /\ g.path = r.path /\ g.producers = r.producers
    BY <1>2 DEF Channel
  <2> HIDE DEF g, n, r
  <2>4. s \in Channel /\ s.out = Append(r.out, [to |-> n, code |-> 331]) /\ SameButOut(g, s)
    <3>1. 331 \in Codes
      BY CodesAre
    <3>2. s \in Channel /\ s.out = Append(g.out, [to |-> n, code |-> 331]) /\ SameButOut(g, s)
      BY <1>2, <2>2, <3>1, RespondIs
    <3> HIDE DEF s
    <3> QED BY <2>2, <3>2
  <2> HIDE DEF s
  <2>5. SaidTo(c, r, s, 331)
    BY <2>1, <2>2, <2>3, <2>4 DEF SaidTo, SameButOut, SameData, n
  <2> QED BY <2>1, <2>4, <2>5, CodesAre
<1> QED BY <1>1, <1>5, <1>6, <1>7, <1>8 DEF Simple

\* A command that is asked of Zope
AskedOf(c, r, s, name, load) ==
    LET m == Head(line[c]).cmd
    IN  /\ SameLogin(r, s) /\ SameData(r, s) /\ s.out = r.out
        /\ s.at = r.at /\ s.path = r.path /\ s.anonymous = r.anonymous
        /\ m.name \notin {"PASS", "ABOR"} /\ name \notin {"PASS", "STOR"}
        /\ name = "CWD" => m.name = "CWD" /\ load[1] = m.arg.path
        /\ name \in {"RETR", "LIST"} => m.name = name /\ load = <<r.path, m.arg>>
        /\ name = "RETR" => s.producers = load

Asking(c) ==
    \/ Cmd_ask(c) \/ Cmd_cwd(c) \/ Cmd_list(c) \/ Cmd_retr(c) \/ Cmd_rnfr(c)
    \/ Cmd_rnto(c) /\ chan[c].from # NoLoad

LEMMA AskingEffect ==
    ASSUME TypeInv, NEW c \in Channels, Asking(c)
    PROVE  /\ line[c] # <<>> /\ chan[c].state = "open" /\ chan[c].authorized
           /\ \E s \in Channel, name \in ReqNames, load \in Loads :
                 /\ AskedOf(c, chan[c], s, name, load) /\ Asked(c, s, name, load)
                 /\ name = "CWD" => load \in Paths \X Args
<1> DEFINE r == chan[c]
           m == Head(line[c]).cmd
<1>1. line[c] # <<>> /\ r.state = "open" /\ r.authorized
  BY DEF Asking, Cmd_ask, Cmd_cwd, Cmd_list, Cmd_retr, Cmd_rnfr, Cmd_rnto, Ready
<1>2. r \in Channel /\ r.path \in Paths /\ Arg(c) = m.arg
  BY DEF TypeInv, Channel, Arg
<1>3. /\ NoLoad \in Loads /\ NoLoad \in Args
      /\ "ASK" \in ReqNames /\ "CWD" \in ReqNames /\ "LIST" \in ReqNames /\ "RETR" \in ReqNames
      /\ "RNFR" \in ReqNames /\ "RNTO" \in ReqNames
  BY DEF Loads, ReqNames, Args
<1>4. /\ m.name \in {"LIST", "RETR", "RNFR"} => m.arg \in Args
      /\ m.name = "CWD" => m.arg.path \in Paths
  BY <1>1, <1>2, CommandIs
<1>5. ASSUME Cmd_ask(c) \/ (Cmd_rnto(c) /\ r.from # NoLoad)
      PROVE  \E s \in Channel, name \in ReqNames, load \in Loads :
                 /\ AskedOf(c, r, s, name, load) /\ Asked(c, s, name, load)
                 /\ name = "CWD" => load \in Paths \X Args
  <2>1. PICK name \in {"ASK", "RNTO"} : Asked(c, r, name, NoLoad) /\ m.name \in {"ASK", "RNTO"}
    BY <1>5 DEF Cmd_ask, Cmd_rnto, Ready
  <2>2. AskedOf(c, r, r, name, NoLoad)
    BY <2>1 DEF AskedOf, SameLogin, SameData
  <2> QED BY <1>2, <1>3, <2>1, <2>2
<1>6. ASSUME Cmd_cwd(c)
      PROVE  \E s \in Channel, name \in ReqNames, load \in Loads :
                 /\ AskedOf(c, r, s, name, load) /\ Asked(c, s, name, load)
                 /\ name = "CWD" => load \in Paths \X Args
  <2> DEFINE load == <<m.arg.path, NoLoad>>
  <2>1. m.name = "CWD" /\ Asked(c, r, "CWD", load)
    BY <1>6, <1>2 DEF Cmd_cwd, Ready
  <2>2. load \in Paths \X Args /\ load \in Loads /\ load[1] = m.arg.path
    BY <1>3, <1>4, <2>1 DEF Loads
  <2> HIDE DEF load
  <2>3. AskedOf(c, r, r, "CWD", load)
    BY <2>1, <2>2 DEF AskedOf, SameLogin, SameData
  <2> QED BY <1>2, <1>3, <2>1, <2>2, <2>3
<1>7. ASSUME Cmd_list(c)
      PROVE  \E s \in Channel, name \in ReqNames, load \in Loads :
                 /\ AskedOf(c, r, s, name, load) /\ Asked(c, s, name, load)
                 /\ name = "CWD" => load \in Paths \X Args
  <2> DEFINE load == <<r.path, m.arg>>
  <2>1. m.name = "LIST" /\ Asked(c, r, "LIST", load)
    BY <1>7, <1>2 DEF Cmd_list, Ready
  <2>2. load \in Loads
    BY <1>2, <1>4, <2>1 DEF Loads
  <2>3. AskedOf(c, r, r, "LIST", load)
    BY <2>1, <2>2 DEF AskedOf, SameLogin, SameData
  <2> QED BY <1>2, <1>3, <2>1, <2>2, <2>3
<1>8. ASSUME Cmd_retr(c)
      PROVE  \E s \in Channel, name \in ReqNames, load \in Loads :
                 /\ AskedOf(c, r, s, name, load) /\ Asked(c, s, name, load)
                 /\ name = "CWD" => load \in Paths \X Args
  <2> DEFINE load == <<r.path, m.arg>>
             s == [r EXCEPT !.producers = load]
  <2>1. m.name = "RETR" /\ Asked(c, s, "RETR", load)
    BY <1>8, <1>2 DEF Cmd_retr, Ready
  <2>2. load \in Loads
    BY <1>2, <1>4, <2>1 DEF Loads
  <2>3. s \in Channel /\ AskedOf(c, r, s, "RETR", load)
    BY <1>2, <2>1, <2>2 DEF AskedOf, SameLogin, SameData, Channel
  <2> QED BY <1>2, <1>3, <2>1, <2>2, <2>3
<1>9. ASSUME Cmd_rnfr(c)
      PROVE  \E s \in Channel, name \in ReqNames, load \in Loads :
                 /\ AskedOf(c, r, s, name, load) /\ Asked(c, s, name, load)
                 /\ name = "CWD" => load \in Paths \X Args
  <2> DEFINE s == [r EXCEPT !.from = m.arg]
  <2>1. m.name = "RNFR" /\ Asked(c, s, "RNFR", NoLoad)
    BY <1>9, <1>2 DEF Cmd_rnfr, Ready
  <2>3. s \in Channel /\ AskedOf(c, r, s, "RNFR", NoLoad)
    BY <1>2, <1>4, <2>1 DEF AskedOf, SameLogin, SameData, Channel
  <2> QED BY <1>2, <1>3, <2>1, <2>3
<1> QED BY <1>1, <1>5, <1>6, <1>7, <1>8, <1>9 DEF Asking

\* PASS: the folder that USER named asks for it, or the channel is let in or closed at once.
PassAsked(c, r, s, load) ==
    /\ Asked(c, s, "PASS", load) /\ load \in Paths \X Args /\ load[1] = r.at /\ r.at # NoPath
    /\ s.at = NoPath /\ ~s.anonymous /\ s.out = r.out /\ s.path = r.path /\ SameLogin(r, s) /\ SameData(r, s)
PassLetIn(c, r, s) ==
    /\ Answered(c, s) /\ r.at = NoPath /\ CheckLimit(r)
    /\ s.out = Append(r.out, [to |-> Number(c), code |-> 230])
    /\ s.state = r.state /\ s.authorized /\ s.as = r.as /\ s.userid = r.userid
    /\ s.at = r.at /\ s.path = r.path /\ SameData(r, s)
PassRefused(c, r, s) ==
    /\ Answered(c, CloseWhenDone(s)) /\ r.at = NoPath
    /\ s.out = Append(r.out, [to |-> Number(c), code |-> 421]) /\ SameButOut(r, s)

LEMMA PassEffect ==
    ASSUME TypeInv, NEW c \in Channels, Cmd_pass(c)
    PROVE  /\ line[c] # <<>> /\ chan[c].state = "open" /\ Head(line[c]).cmd.name = "PASS"
           /\ \E s \in Channel :
                 \/ \E load \in Loads : PassAsked(c, chan[c], s, load)
                 \/ PassLetIn(c, chan[c], s)
                 \/ PassRefused(c, chan[c], s)
<1> DEFINE r == chan[c]
           n == Number(c)
           a == [r EXCEPT !.anonymous = FALSE, !.at = NoPath]
           b == [r EXCEPT !.authorized = TRUE, !.anonymous = TRUE]
           load == <<r.at, NoLoad>>
<1>1. line[c] # <<>> /\ r.state = "open" /\ Head(line[c]).cmd.name = "PASS"
  BY DEF Cmd_pass, Ready
<1>2. r \in Channel /\ n \in Nat /\ r.at \in Paths
  BY <1>1, CommandIs DEF TypeInv, Channel
<1>3. \/ r.at # NoPath /\ Asked(c, a, "PASS", load)
      \/ r.at = NoPath /\ CheckLimit(r) /\ Answered(c, Respond(b, n, 230))
      \/ r.at = NoPath /\ Answered(c, CloseWhenDone(Respond(r, n, 421)))
  BY DEF Cmd_pass
<1>4. a \in Channel /\ b \in Channel /\ load \in Paths \X Args /\ load \in Loads /\ load[1] = r.at
  <2>1. a \in Channel /\ b \in Channel
    BY <1>2 DEF Channel, Paths
  <2>2. load \in Paths \X Args /\ load[1] = r.at
    BY <1>2 DEF Args
  <2> QED BY <2>1, <2>2 DEF Loads
<1>5. /\ a.at = NoPath /\ ~a.anonymous /\ a.out = r.out /\ a.path = r.path /\ SameLogin(r, a) /\ SameData(r, a)
      /\ b.out = r.out /\ b.state = r.state /\ b.authorized /\ b.as = r.as /\ b.userid = r.userid
      /\ b.at = r.at /\ b.path = r.path /\ b.dc = r.dc /\ b.pasv = r.pasv
  BY <1>2 DEF Channel, SameLogin, SameData
<1> HIDE DEF r, n, a, b, load
<1>6. 230 \in Codes /\ 421 \in Codes
  BY CodesAre
<1> DEFINE s == Respond(b, n, 230)
           w == Respond(r, n, 421)
<1>7. /\ s \in Channel /\ s.out = Append(b.out, [to |-> n, code |-> 230]) /\ SameButOut(b, s)
      /\ w \in Channel /\ w.out = Append(r.out, [to |-> n, code |-> 421]) /\ SameButOut(r, w)
  <2>1. s \in Channel /\ s.out = Append(b.out, [to |-> n, code |-> 230]) /\ SameButOut(b, s)
    BY <1>2, <1>4, <1>6, RespondIs
  <2>2. w \in Channel /\ w.out = Append(r.out, [to |-> n, code |-> 421]) /\ SameButOut(r, w)
    BY <1>2, <1>4, <1>6, RespondIs
  <2> QED BY <2>1, <2>2
<1> HIDE DEF s, w
<1>8. CASE r.at # NoPath /\ Asked(c, a, "PASS", load)
  <2>1. PassAsked(c, r, a, load)
    BY <1>4, <1>5, <1>8 DEF PassAsked
  <2> QED BY <1>1, <1>4, <2>1 DEF r
<1>9. CASE r.at = NoPath /\ CheckLimit(r) /\ Answered(c, s)
  <2>1. PassLetIn(c, r, s)
    BY <1>5, <1>7, <1>9 DEF PassLetIn, SameButOut, SameData, n
  <2> QED BY <1>1, <1>7, <2>1 DEF r
<1>10. CASE r.at = NoPath /\ Answered(c, CloseWhenDone(w))
  <2>1. PassRefused(c, r, w)
    BY <1>7, <1>10 DEF PassRefused, n
  <2> QED BY <1>1, <1>7, <2>1 DEF r
<1> QED BY <1>3, <1>8, <1>9, <1>10 DEF s, w

\* A completion that is told to the client, and nothing else
TellsOf(t, r, s, k) ==
    /\ s.out = Append(r.out, [to |-> t.to, code |-> k]) /\ k \notin {226, 230, 331}
    /\ SameLogin(r, s) /\ SameData(r, s) /\ s.at = r.at
    /\ s.path = IF k = 250 THEN t.load[1] ELSE r.path
    /\ k = 250 => t.name = "CWD"

Telling ==
    \/ Ask_completion \/ Cwd_completion
    \/ (Listdir_completion \/ Retr_completion) /\ ~Head(thunks).ok

LEMMA TellingEffect ==
    ASSUME TypeInv, Telling
    PROVE  /\ thunks # <<>>
           /\ \E s \in Channel, k \in Codes : TellsOf(Head(thunks), chan[Head(thunks).chan], s, k) /\ Completed(s)
<1> DEFINE t == Head(thunks)
           r == chan[t.chan]
<1>0. thunks # <<>>
  BY DEF Telling, Ask_completion, Cwd_completion, Listdir_completion, Retr_completion, Done
<1>1. t.chan \in Channels /\ t.to \in Nat /\ r \in Channel
  BY <1>0, ThunkIs
<1>2. ASSUME NEW k \in Codes \ {226, 230, 250, 331}, Completed(Respond(r, t.to, k))
      PROVE  \E s \in Channel, l \in Codes : TellsOf(t, r, s, l) /\ Completed(s)
  <2> DEFINE s == Respond(r, t.to, k)
  <2>0. Completed(s)
    BY <1>2
  <2> HIDE DEF t, r
  <2>1. s \in Channel /\ s.out = Append(r.out, [to |-> t.to, code |-> k]) /\ SameButOut(r, s)
    BY <1>1, RespondIs
  <2> HIDE DEF s
  <2>2. TellsOf(t, r, s, k)
    BY <2>1 DEF TellsOf, SameButOut, SameLogin, SameData
  <2> QED BY <2>0, <2>1, <2>2
<1>3. /\ 550 \in Codes \ {226, 230, 250, 331} /\ 350 \in Codes \ {226, 230, 250, 331}
      /\ 213 \in Codes \ {226, 230, 250, 331} /\ 250 \in Codes
  BY CodesAre
<1>4. \/ Completed(Respond(r, t.to, 550)) \/ Completed(Respond(r, t.to, 350)) \/ Completed(Respond(r, t.to, 213))
      \/ t.name = "CWD" /\ Completed(Known(Respond([r EXCEPT !.path = t.load[1]], t.to, 250)))
  <2>1. CASE Ask_completion
    BY <2>1 DEF Ask_completion
  <2>2. CASE Cwd_completion
    BY <2>2 DEF Cwd_completion, Done
  <2>3. CASE Listdir_completion /\ ~t.ok
    BY <2>3 DEF Listdir_completion
  <2>4. CASE Retr_completion /\ ~t.ok
    BY <2>4 DEF Retr_completion
  <2> QED BY <2>1, <2>2, <2>3, <2>4 DEF Telling
<1>5. ASSUME t.name = "CWD" /\ Completed(Known(Respond([r EXCEPT !.path = t.load[1]], t.to, 250)))
      PROVE  \E s \in Channel, k \in Codes : TellsOf(t, r, s, k) /\ Completed(s)
  <2> DEFINE g == [r EXCEPT !.path = t.load[1]]
             w == Respond(g, t.to, 250)
             s == Known(w)
  <2>0. Completed(s) /\ t.name = "CWD"
    BY <1>5
  <2>1. t.load[1] \in Paths
    BY <1>0, <2>0, ThunkIs
  <2>2. /\ g \in Channel /\ g.out = r.out /\ SameLogin(r, g) /\ g.dc = r.dc /\ g.pasv = r.pasv /\ g.at = r.at
        /\ g.path = t.load[1]
    BY <1>1, <2>1 DEF Channel, SameLogin
  <2> HIDE DEF t, r, g
  <2>3. w \in Channel /\ w.out = Append(g.out, [to |-> t.to, code |-> 250]) /\ SameButOut(g, w)
    <3>1. g \in Channel /\ t.to \in Nat /\ 250 \in Codes
      BY <1>1, <1>3, <2>2
    <3> QED BY <3>1, RespondIs
  <2> HIDE DEF w
  <2>4. /\ s \in Channel /\ s.out = w.out /\ SameLogin(w, s) /\ s.dc = w.dc /\ s.pasv = w.pasv
        /\ s.at = w.at /\ s.path = w.path
    BY <2>3 DEF Known, Channel, SameLogin
  <2> HIDE DEF s
  <2>5. TellsOf(t, r, s, 250)
    BY <2>0, <2>2, <2>3, <2>4 DEF TellsOf, SameButOut, SameLogin, SameData
  <2> QED BY <1>3, <2>0, <2>4, <2>5
<1> HIDE DEF t, r
<1> DEFINE Goal == \E s \in Channel, k \in Codes : TellsOf(t, r, s, k) /\ Completed(s)
<1>6. Goal
  <2> HIDE DEF Goal
  <2>1. ASSUME NEW k \in Codes \ {226, 230, 250, 331}, Completed(Respond(r, t.to, k)) PROVE Goal
    BY <1>2, <2>1 DEF Goal
  <2>2. CASE Completed(Respond(r, t.to, 550))
    BY <1>3, <2>1, <2>2
  <2>3. CASE Completed(Respond(r, t.to, 350))
    BY <1>3, <2>1, <2>3
  <2>4. CASE Completed(Respond(r, t.to, 213))
    BY <1>3, <2>1, <2>4
  <2>5. CASE t.name = "CWD" /\ Completed(Known(Respond([r EXCEPT !.path = t.load[1]], t.to, 250)))
    BY <1>5, <2>5 DEF Goal
  <2> QED BY <1>4, <2>2, <2>3, <2>4, <2>5
<1> QED BY <1>0, <1>6 DEF t, r

\* The answer to PASS
Refused(t, r, s) ==
    /\ SameButOut(r, s)
    /\ \/ s.out = Append(r.out, [to |-> t.to, code |-> 530])
       \/ s.out = Append(Append(r.out, Bye), [to |-> t.to, code |-> 421])
LetIn(t, r, s) ==
    /\ t.ok /\ CheckLimit(r) /\ s.out = Append(r.out, [to |-> t.to, code |-> 230])
    /\ s.state = r.state /\ s.authorized /\ s.as = r.userid /\ s.userid = r.userid
    /\ s.at = r.at /\ s.path = t.load[1] /\ SameData(r, s)

LEMMA PassedEffect ==
    ASSUME TypeInv, Pass_completion
    PROVE  /\ thunks # <<>> /\ Head(thunks).name = "PASS"
           /\ \E s \in Channel :
                 /\ Completed(s)
                 /\ Refused(Head(thunks), chan[Head(thunks).chan], s) \/ LetIn(Head(thunks), chan[Head(thunks).chan], s)
<1> DEFINE t == Head(thunks)
           r == chan[t.chan]
           n == t.to
           g == CloseWhenDone(r)
           in == [r EXCEPT !.path = t.load[1], !.authorized = TRUE, !.as = r.userid, !.anonymous = (r.userid = "anonymous")]
           s1 == Respond(r, n, 530)
           s2 == Respond(g, n, 421)
           s3 == Respond(in, n, 230)
<1>0. thunks # <<>> /\ t.name = "PASS" /\ Completed(Passed(r, t))
  BY DEF Pass_completion, Done
<1>1. t.chan \in Channels /\ n \in Nat /\ r \in Channel /\ t.load[1] \in Paths
  BY <1>0, ThunkIs
<1>2. /\ in \in Channel /\ in.out = r.out /\ in.state = r.state /\ in.authorized /\ in.as = r.userid
      /\ in.userid = r.userid /\ in.at = r.at /\ in.path = t.load[1] /\ in.dc = r.dc /\ in.pasv = r.pasv
  BY <1>1 DEF Channel
<1>3. Passed(r, t) = s1 \/ Passed(r, t) = s2 \/ (t.ok /\ CheckLimit(r) /\ Passed(r, t) = s3)
  BY DEF Passed
<1>4. 530 \in Codes /\ 421 \in Codes /\ 230 \in Codes
  BY CodesAre
<1> HIDE DEF t, r, n, in
<1>5. g \in Channel /\ g.out = Append(r.out, Bye) /\ SameButOut(r, g)
  BY <1>1, CloseIs
<1> HIDE DEF g
<1>6. s1 \in Channel /\ s1.out = Append(r.out, [to |-> n, code |-> 530]) /\ SameButOut(r, s1)
  BY <1>1, <1>4, RespondIs
<1>7. s2 \in Channel /\ s2.out = Append(g.out, [to |-> n, code |-> 421]) /\ SameButOut(g, s2)
  <2>1. g \in Channel /\ n \in Nat /\ 421 \in Codes
    BY <1>1, <1>4, <1>5
  <2> QED BY <2>1, RespondIs
<1>8. s3 \in Channel /\ s3.out = Append(in.out, [to |-> n, code |-> 230]) /\ SameButOut(in, s3)
  BY <1>1, <1>2, <1>4, RespondIs, SMTT(30)
<1> HIDE DEF s1, s2, s3
<1>9. Refused(t, r, s1)
  BY <1>6 DEF Refused, n
<1>10. Refused(t, r, s2)
  BY <1>5, <1>7 DEF Refused, SameButOut, n
<1>11. t.ok /\ CheckLimit(r) => LetIn(t, r, s3)
  BY <1>2, <1>8 DEF LetIn, SameButOut, SameData, n
<1>12. \E s \in Channel : Completed(s) /\ (Refused(t, r, s) \/ LetIn(t, r, s))
  BY <1>0, <1>3, <1>6, <1>7, <1>8, <1>9, <1>10, <1>11
<1> QED BY <1>0, <1>12 DEF t, r

\* A completion that opens a data channel
OpensOf(t, r, s, d, load) ==
    /\ SameLogin(r, s) /\ s.dc = d /\ s.pasv = (IF r.pasv = "ready" THEN "none" ELSE r.pasv)
    /\ s.at = r.at /\ s.path = r.path
    /\ s.out = r.out \/ s.out = Append(r.out, [to |-> t.to, code |-> 150])
    /\ load = t.load \/ (load = r.producers /\ t.name = "RETR")

Opening == (Listdir_completion \/ Retr_completion) /\ Head(thunks).ok

LEMMA OpeningEffect ==
    ASSUME TypeInv, Opening
    PROVE  LET t == Head(thunks)
               r == chan[t.chan]
           IN  /\ thunks # <<>> /\ t.name \in {"LIST", "RETR"}
               /\ \E s \in Channel, load \in Loads, d \in Unused :
                     /\ OpensOf(t, r, s, d, load) /\ chan' = [chan EXCEPT ![t.chan] = s]
                     /\ dcs' = [dcs EXCEPT ![d] = NewData(t.chan, r, "xmit", t.to, load)]
                     /\ thunks' = Tail(thunks) /\ UNCHANGED <<requests, line, user>>
<1> DEFINE t == Head(thunks)
           r == chan[t.chan]
           d == CHOOSE x \in Unused : TRUE
           g == [r EXCEPT !.producers = NoLoad]
<1>0. thunks # <<>> /\ t.name \in {"LIST", "RETR"}
  BY DEF Opening, Listdir_completion, Retr_completion, Done
<1>1. t.chan \in Channels /\ t.to \in Nat /\ r \in Channel /\ t.load \in Loads
  BY <1>0, ThunkIs
<1>2. r.producers \in Loads /\ NoLoad \in Loads
  BY <1>1 DEF Channel, Loads
<1>3. PICK k \in Channel, load \in Loads :
        /\ Opened(t.chan, k, t, load)
        /\ k.out = r.out /\ SameLogin(r, k) /\ k.dc = r.dc /\ k.pasv = r.pasv /\ k.at = r.at /\ k.path = r.path
        /\ load = t.load \/ (load = r.producers /\ t.name = "RETR")
  <2>1. CASE Listdir_completion
    <3>1. Opened(t.chan, Known(r), t, t.load)
      BY <2>1 DEF Opening, Listdir_completion
    <3>2. /\ Known(r) \in Channel /\ Known(r).out = r.out /\ SameLogin(r, Known(r)) /\ Known(r).dc = r.dc
          /\ Known(r).pasv = r.pasv /\ Known(r).at = r.at /\ Known(r).path = r.path
      BY <1>1 DEF Known, Channel, SameLogin
    <3> QED BY <1>1, <3>1, <3>2
  <2>2. CASE Retr_completion
    <3> DEFINE z == Streamed(r, t)
               k == IF z = NoLoad THEN r ELSE g
    <3>1. Opened(t.chan, k, t, z) /\ t.name = "RETR"
      BY <2>2 DEF Opening, Retr_completion, Done
    <3>2. z \in {r.producers, t.load}
      BY DEF Streamed
    <3>3. /\ g \in Channel /\ g.out = r.out /\ SameLogin(r, g) /\ g.dc = r.dc
          /\ g.pasv = r.pasv /\ g.at = r.at /\ g.path = r.path
      BY <1>1, <1>2 DEF Channel, SameLogin
    <3> HIDE DEF z, g, r, t
    <3>4. /\ k \in Channel /\ k.out = r.out /\ SameLogin(r, k) /\ k.dc = r.dc
          /\ k.pasv = r.pasv /\ k.at = r.at /\ k.path = r.path
      BY <1>1, <3>3 DEF SameLogin
    <3>5. z \in Loads /\ (z = t.load \/ (z = r.producers /\ t.name = "RETR"))
      BY <1>1, <1>2, <3>1, <3>2
    <3> HIDE DEF k
    <3> QED BY <3>1, <3>4, <3>5
  <2> QED BY <2>1, <2>2, SMTT(30) DEF Opening
<1> DEFINE m == Made(k, d)
           s == IF load = NoLoad THEN m ELSE Respond(m, t.to, 150)
<1>4. /\ Unused # {} /\ chan' = [chan EXCEPT ![t.chan] = s]
      /\ dcs' = [dcs EXCEPT ![d] = NewData(t.chan, k, "xmit", t.to, load)]
      /\ thunks' = Tail(thunks) /\ UNCHANGED <<requests, line, user>>
  BY <1>3 DEF Opened
<1>5. NewData(t.chan, k, "xmit", t.to, load) = NewData(t.chan, r, "xmit", t.to, load)
  BY <1>3 DEF NewData
<1>6. d \in Unused /\ d \in Dcs
  BY <1>4, UnusedIs
<1> HIDE DEF t, r, d
<1>7. /\ m \in Channel /\ m.dc = d /\ m.out = k.out /\ m.pasv = (IF k.pasv = "ready" THEN "none" ELSE k.pasv)
      /\ SameLogin(k, m) /\ m.at = k.at /\ m.path = k.path
  BY <1>6 DEF Made, Channel, SameLogin
<1> HIDE DEF m
<1>8. 150 \in Codes
  BY CodesAre
<1>9. /\ Respond(m, t.to, 150) \in Channel
      /\ Respond(m, t.to, 150).out = Append(m.out, [to |-> t.to, code |-> 150])
      /\ SameButOut(m, Respond(m, t.to, 150))
  BY <1>1, <1>7, <1>8, RespondIs
<1>10. s \in Channel /\ OpensOf(t, r, s, d, load)
  <2>1. CASE load = NoLoad
    BY <2>1, <1>3, <1>7 DEF OpensOf, SameLogin
  <2>2. CASE load # NoLoad
    <3> DEFINE w == Respond(m, t.to, 150)
    <3> HIDE DEF w
    <3>1. s = w /\ w \in Channel /\ w.out = Append(m.out, [to |-> t.to, code |-> 150]) /\ SameButOut(m, w)
      BY <2>2, <1>9 DEF w
    <3> QED BY <3>1, <1>3, <1>7 DEF OpensOf, SameLogin, SameButOut
  <2> QED BY <2>1, <2>2
<1> HIDE DEF s
<1> DEFINE w == NewData(t.chan, r, "xmit", t.to, load)
<1>11. dcs' = [dcs EXCEPT ![d] = w]
  BY <1>4, <1>5
<1> HIDE DEF w
<1>12. \E s_1 \in Channel, l \in Loads, e \in Unused :
          /\ OpensOf(t, r, s_1, e, l) /\ chan' = [chan EXCEPT ![t.chan] = s_1]
          /\ dcs' = [dcs EXCEPT ![e] = NewData(t.chan, r, "xmit", t.to, l)]
          /\ thunks' = Tail(thunks) /\ UNCHANGED <<requests, line, user>>
  BY <1>4, <1>6, <1>10, <1>11 DEF w
<1> QED BY <1>0, <1>12 DEF t, r

-----------------------------------------------------------------------------
(* Data channels: each is one control channel's, and is what its socket    *)
(* and the acceptor make of it.                                            *)

\* The channel c becomes s; the data channels stay.
LEMMA DataSaid ==
    ASSUME TypeInv, DataInv, NEW c \in Channels, NEW s \in Channel,
           chan' = [chan EXCEPT ![c] = s], dcs' = dcs, s.state = chan[c].state, SameData(chan[c], s)
    PROVE  DataInv'
<1>1. chan'[c] = s /\ \A e \in Channels : e # c => chan'[e] = chan[e]
  BY DEF TypeInv
<1>2. ASSUME NEW e \in Channels, chan'[e].dc # NoDc PROVE PointsTo(e, chan'[e], dcs'[chan'[e].dc])
  <2>1. CASE e = c
    BY <1>1, <1>2, <2>1 DEF SameData, DataInv, PointsTo
  <2>2. CASE e # c
    BY <1>1, <1>2, <2>2 DEF DataInv
  <2> QED BY <2>1, <2>2
<1> QED BY <1>2 DEF DataInv

\* No channel but c has the data channel d.
Alone(c, d) == \A e \in Channels \ {c} : chan[e].dc # d

\* What s has for a data channel when d is w
Fits(c, s, d, w) ==
    \/ s.dc = NoDc
    \/ s.dc = d /\ PointsTo(c, s, w)
    \/ s.dc = chan[c].dc /\ s.dc # d /\ s.state = chan[c].state /\ s.pasv = chan[c].pasv

\* The channel c becomes s, and the data channel d, its own or unused, becomes w.
LEMMA DataChanged ==
    ASSUME TypeInv, DataInv, NEW c \in Channels, NEW s,
           chan' = [chan EXCEPT ![c] = s], NEW d \in Dcs, NEW w, dcs' = [dcs EXCEPT ![d] = w], DataOk(w),
           Alone(c, d), Fits(c, s, d, w)
    PROVE  DataInv'
<1>1. /\ chan'[c] = s /\ \A e \in Channels : e # c => chan'[e] = chan[e]
      /\ dcs'[d] = w /\ \A e \in Dcs : e # d => dcs'[e] = dcs[e]
      /\ \A e \in Channels : chan[e].dc # NoDc => chan[e].dc \in Dcs
  BY DEF TypeInv, Channel
<1>2. ASSUME NEW e \in Channels, chan'[e].dc # NoDc PROVE PointsTo(e, chan'[e], dcs'[chan'[e].dc])
  <2>1. CASE e = c
    BY <1>1, <1>2, <2>1 DEF DataInv, PointsTo, Fits
  <2>2. CASE e # c
    BY <1>1, <1>2, <2>2 DEF DataInv, Alone
  <2> QED BY <2>1, <2>2
<1>3. ASSUME NEW e \in Dcs PROVE DataOk(dcs'[e])
  BY <1>1 DEF DataInv
<1> QED BY <1>2, <1>3 DEF DataInv

LEMMA Pointing ==
    ASSUME TypeInv, DataInv, NEW c \in Channels, NEW e \in Channels, NEW d \in Dcs
    PROVE  /\ chan[e].dc = d => dcs[d].chan = e /\ dcs[d].state # "free" /\ d # NoDc
           /\ d \in Unused => chan[e].dc # d
           /\ DataOk(dcs[d])
BY FtpAssumption DEF DataInv, PointsTo, Unused

LEMMA NoDataOk == DataOk(NoData)
BY DEF DataOk, NoData

\* What is left of the data channel r.dc
LEMMA WithoutIs ==
    ASSUME TypeInv, DataInv, NEW c \in Channels, NEW d, d = chan[c].dc, d # NoDc
    PROVE  /\ d \in Dcs /\ Alone(c, d)
           /\ \E w \in Data : /\ DcsWithout(d) = [dcs EXCEPT ![d] = w] /\ DataOk(w)
                              /\ IF dcs[d].kind = "xmit" THEN w = NoData
                                 ELSE IF dcs[d].state = "nosocket" THEN w = dcs[d] ELSE w = [dcs[d] EXCEPT !.state = "shut"]
<1>1. d \in Dcs /\ dcs[d] \in Data
  BY DEF TypeInv, Channel
<1>2. Alone(c, d)
  BY <1>1, Pointing DEF Alone
<1>3. DataOk(dcs[d])
  BY <1>1 DEF DataInv
<1>4. CASE dcs[d].kind = "xmit"
  BY <1>1, <1>2, <1>4, NoDataOk, NoDataIs DEF DcsWithout
<1>5. CASE dcs[d].kind = "recv" /\ dcs[d].state = "nosocket"
  <2>1. dcs = [dcs EXCEPT ![d] = dcs[d]]
    BY <1>1 DEF TypeInv
  <2>2. DcsWithout(d) = dcs
    BY <1>5 DEF DcsWithout, Raises
  <2> QED BY <1>1, <1>2, <1>3, <1>5, <2>1, <2>2
<1>6. CASE dcs[d].kind = "recv" /\ dcs[d].state # "nosocket"
  <2> DEFINE w == [dcs[d] EXCEPT !.state = "shut"]
  <2>1. DcsWithout(d) = [dcs EXCEPT ![d] = w]
    BY <1>6 DEF DcsWithout, Raises
  <2>2. w \in Data /\ DataOk(w)
    BY <1>1, <1>6, DataChanges DEF DataOk, Data
  <2> QED BY <1>1, <1>2, <1>6, <2>1, <2>2
<1> QED BY <1>1, <1>4, <1>5, <1>6 DEF Data

\* A channel whose data channel is closed
LEMMA ClosedIs ==
    ASSUME TypeInv, NEW r \in Channel
    PROVE  /\ ClosedData(r) \in Channel
           /\ SameLogin(r, ClosedData(r)) /\ ClosedData(r).pasv = r.pasv /\ ClosedData(r).at = r.at
           /\ ClosedData(r).path = r.path /\ ClosedData(r).producers = r.producers
           /\ ClosedData(r).anonymous = r.anonymous
           /\ r.dc = NoDc \/ dcs[r.dc].kind = "recv" => ClosedData(r) = r
           /\ r.dc # NoDc /\ dcs[r.dc].kind = "xmit" =>
                 /\ ClosedData(r).dc = NoDc
                 /\ r.state = "open" => ClosedData(r).out = Append(r.out, [to |-> dcs[r.dc].to, code |-> 426])
<1>1. CASE r.dc = NoDc \/ dcs[r.dc].kind = "recv"
  <2>1. ClosedData(r) = r
    BY <1>1 DEF ClosedData
  <2>2. r.dc # NoDc => dcs[r.dc].kind # "xmit"
    BY <1>1
  <2> QED BY <2>1, <2>2 DEF SameLogin
<1>2. CASE ~(r.dc = NoDc \/ dcs[r.dc].kind = "recv")
  <2> DEFINE d == r.dc
             g == [r EXCEPT !.dc = NoDc]
             s == XmitClosed(r, d, FALSE)
  <2>1. d \in Dcs /\ ClosedData(r) = s
    BY <1>2 DEF ClosedData, Channel
  <2>2. /\ g.state = r.state /\ g.authorized = r.authorized /\ g.as = r.as /\ g.userid = r.userid
        /\ g.pasv = r.pasv /\ g.at = r.at /\ g.path = r.path /\ g.producers = r.producers /\ g.anonymous = r.anonymous
    BY DEF Channel
  <2> HIDE DEF d, g
  <2>3. /\ s \in Channel /\ s.dc = NoDc /\ SameButOut([r EXCEPT !.dc = NoDc], s)
        /\ s.out = IF r.state = "open" THEN Append(r.out, [to |-> dcs[d].to, code |-> IF FALSE THEN 226 ELSE 426]) ELSE r.out
    BY <2>1, XmitClosedIs
  <2> HIDE DEF s
  <2>4. SameButOut(g, s)
    BY <2>3 DEF g
  <2> QED BY <1>2, <2>1, <2>2, <2>3, <2>4 DEF SameButOut, SameLogin, d
<1> QED BY <1>1, <1>2

LEMMA DataClosed ==
    ASSUME TypeInv, DataInv, NEW c \in Channels, NEW s \in Channel,
           chan' = [chan EXCEPT ![c] = s], dcs' = DcsWithout(chan[c].dc),
           s.dc = ClosedData(chan[c]).dc, s.pasv = "listening" => s.pasv = chan[c].pasv
    PROVE  DataInv'
<1> DEFINE r == chan[c]
           d == chan[c].dc
<1>1. r \in Channel
  BY DEF TypeInv
<1>2. CASE d = NoDc
  <2>1. dcs' = dcs /\ s.dc = NoDc
    BY <1>1, <1>2, ClosedIs DEF DcsWithout
  <2>2. chan'[c] = s /\ \A e \in Channels : e # c => chan'[e] = chan[e]
    BY DEF TypeInv
  <2> QED BY <2>1, <2>2 DEF DataInv
<1>3. CASE d # NoDc
  <2>1. PICK w \in Data : /\ DcsWithout(d) = [dcs EXCEPT ![d] = w] /\ DataOk(w)
                          /\ IF dcs[d].kind = "xmit" THEN w = NoData
                             ELSE IF dcs[d].state = "nosocket" THEN w = dcs[d] ELSE w = [dcs[d] EXCEPT !.state = "shut"]
    BY <1>3, WithoutIs
  <2>2. d \in Dcs /\ Alone(c, d)
    BY <1>3, WithoutIs
  <2>3. dcs[d] \in Data /\ PointsTo(c, r, dcs[d])
    BY <1>3, <2>2 DEF TypeInv, DataInv
  <2>4. CASE dcs[d].kind = "xmit"
    <3>1. s.dc = NoDc
      BY <1>1, <1>3, <2>4, ClosedIs
    <3>2. dcs' = [dcs EXCEPT ![d] = w] /\ DataOk(w)
      BY <2>1
    <3>3. Fits(c, s, d, w)
      BY <3>1 DEF Fits
    <3> HIDE DEF d, r
    <3> QED BY <2>2, <3>2, <3>3, DataChanged
  <2>5. CASE dcs[d].kind = "recv"
    <3>1. s.dc = d
      BY <1>1, <1>3, <2>5, ClosedIs
    <3>2. w.chan = c /\ w.state # "free" /\ (s.pasv = "listening" => w.state = "nosocket")
      BY <2>1, <2>3, <2>5 DEF PointsTo, Data
    <3>3. PointsTo(c, s, w)
      BY <1>3, <3>1, <3>2 DEF PointsTo
    <3>4. dcs' = [dcs EXCEPT ![d] = w] /\ DataOk(w)
      BY <2>1
    <3> HIDE DEF d, r
    <3>5. Fits(c, s, d, w)
      BY <3>1, <3>3 DEF Fits
    <3> QED BY <2>2, <3>4, <3>5, DataChanged
  <2> QED BY <2>3, <2>4, <2>5 DEF Data
<1> QED BY <1>2, <1>3

LEMMA DataByHandle ==
    ASSUME TypeInv, DataInv, NEW c \in Channels, Handle(c)
    PROVE  DataInv'
<1> DEFINE r == chan[c]
<1>0. r \in Channel
  BY DEF TypeInv
<1>1. ASSUME NEW s \in Channel, SameData(r, s), s.state = r.state,
             chan' = [chan EXCEPT ![c] = s] \/ chan' = [chan EXCEPT ![c] = CloseWhenDone(s)], dcs' = dcs
      PROVE  DataInv'
  <2>1. CloseWhenDone(s) \in Channel /\ SameData(r, CloseWhenDone(s)) /\ CloseWhenDone(s).state = r.state
    BY <1>1, CloseIs DEF SameButOut, SameData
  <2> QED BY <1>1, <2>1, DataSaid
<1>2. CASE Simple(c)
  <2>1. PICK s \in Channel, k \in Codes :
           SaidTo(c, chan[c], s, k) /\ (Answered(c, s) \/ Answered(c, CloseWhenDone(s)))
    BY <1>2, SimpleEffect
  <2>2. SameData(r, s) /\ s.state = r.state
    BY <2>1 DEF SaidTo
  <2>3. dcs' = dcs /\ (chan' = [chan EXCEPT ![c] = s] \/ chan' = [chan EXCEPT ![c] = CloseWhenDone(s)])
    BY <2>1 DEF Answered
  <2> QED BY <2>2, <2>3, <1>1
<1>3. CASE Asking(c)
  <2>1. PICK s \in Channel, name \in ReqNames, load \in Loads : AskedOf(c, chan[c], s, name, load) /\ Asked(c, s, name, load)
    BY <1>3, AskingEffect
  <2>2. SameData(r, s) /\ s.state = r.state
    BY <2>1 DEF AskedOf, SameLogin
  <2>3. dcs' = dcs /\ chan' = [chan EXCEPT ![c] = s]
    BY <2>1 DEF Asked
  <2> QED BY <2>2, <2>3, <1>1
<1>4. CASE Cmd_pass(c)
  <2>1. PICK s \in Channel : \/ \E load \in Loads : PassAsked(c, chan[c], s, load)
                             \/ PassLetIn(c, chan[c], s)
                             \/ PassRefused(c, chan[c], s)
    BY <1>4, PassEffect
  <2>2. SameData(r, s) /\ s.state = r.state
    BY <2>1 DEF PassAsked, PassLetIn, PassRefused, SameLogin, SameData, SameButOut
  <2>3. dcs' = dcs /\ (chan' = [chan EXCEPT ![c] = s] \/ chan' = [chan EXCEPT ![c] = CloseWhenDone(s)])
    BY <2>1 DEF PassAsked, PassLetIn, PassRefused, Answered, Asked
  <2> QED BY <2>2, <2>3, <1>1
<1>5. CASE Cmd_stor(c)
  <2> DEFINE d == CHOOSE x \in Unused : TRUE
             n == Number(c)
             load == <<r.path, Arg(c)>>
             w == NewData(c, r, "recv", n, load)
  <2>0. line[c] # <<>> /\ n \in Nat /\ r.state = "open"
    BY <1>5, CommandIs DEF Cmd_stor, Ready
  <2>1. CASE Answered(c, Respond(r, n, 553))
    <3> DEFINE s == Respond(r, n, 553)
    <3>1. dcs' = dcs /\ chan' = [chan EXCEPT ![c] = s]
      BY <2>1 DEF Answered
    <3>2. 553 \in Codes
      BY CodesAre
    <3> HIDE DEF r, n, d, w, load
    <3>3. s \in Channel /\ SameButOut(r, s)
      <4>1. r \in Channel /\ n \in Nat
        BY <1>0, <2>0
      <4>2. \A k \in Codes : Respond(r, n, k) \in Channel /\ SameButOut(r, Respond(r, n, k))
        BY <4>1, RespondIs
      <4> QED BY <3>2, <4>2
    <3> HIDE DEF s
    <3> QED BY <1>1, <3>1, <3>3 DEF SameButOut, SameData
  <2>2. CASE /\ Unused # {} /\ chan' = [chan EXCEPT ![c] = Made(Respond(r, n, 150), d)]
             /\ dcs' = [dcs EXCEPT ![d] = w]
    <3>1. d \in Unused /\ d \in Dcs
      BY <2>2, UnusedIs
    <3>2. 150 \in Codes
      BY CodesAre
    <3> DEFINE g == Respond(r, n, 150)
               s == Made(g, d)
    <3>3. chan' = [chan EXCEPT ![c] = s] /\ dcs' = [dcs EXCEPT ![d] = w]
      BY <2>2
    <3>4. DataOk(w)
      BY DEF DataOk, NewData
    <3>5. w.chan = c /\ w.state # "free" /\ (r.pasv = "listening" => w.state = "nosocket")
      BY DEF NewData, SocketOf
    <3>6. Alone(c, d)
      BY <3>1, Pointing DEF Alone
    <3> HIDE DEF r, n, d, w
    <3>7. g \in Channel /\ SameButOut(r, g)
      BY <1>0, <2>0, <3>2, RespondIs, ZenonT(40)
    <3> HIDE DEF g
    <3>8. s.dc = d /\ s.pasv = (IF g.pasv = "ready" THEN "none" ELSE g.pasv) /\ s.state = g.state
      BY <3>7 DEF Made, Channel
    <3> HIDE DEF s
    <3>9. PointsTo(c, s, w)
      BY <2>0, <3>5, <3>7, <3>8 DEF PointsTo, SameButOut
    <3>10. Fits(c, s, d, w)
      BY <3>8, <3>9 DEF Fits
    <3> QED BY <3>1, <3>3, <3>4, <3>6, <3>10, DataChanged
  <2> QED BY <1>5, <2>1, <2>2 DEF Cmd_stor
<1>6. CASE Cmd_abor(c) \/ (Cmd_rnto(c) /\ chan[c].from = NoLoad)
  <2> DEFINE g == ClosedData(r)
             n == Number(c)
  <2>1. PICK k \in {451, 226} : chan' = [chan EXCEPT ![c] = Respond(g, n, k)] /\ dcs' = DcsWithout(r.dc)
    BY <1>6 DEF Cmd_abor, Cmd_rnto, Failed
  <2>2. line[c] # <<>> /\ n \in Nat
    BY <1>6, CommandIs DEF Cmd_abor, Cmd_rnto, Ready
  <2>3. k \in Codes
    BY CodesAre
  <2> DEFINE s == Respond(g, n, k)
  <2>4. g \in Channel /\ SameLogin(r, g) /\ g.pasv = r.pasv
    <3> HIDE DEF r
    <3> QED BY <1>0, ClosedIs
  <2> HIDE DEF g, n
  <2>5. s \in Channel /\ SameButOut(g, s)
    <3>1. g \in Channel /\ n \in Nat
      BY <2>2, <2>4
    <3> QED BY <2>3, <3>1, RespondIs
  <2>6. chan' = [chan EXCEPT ![c] = s]
    BY <2>1
  <2> HIDE DEF s
  <2>7. s.dc = g.dc /\ s.pasv = r.pasv /\ s.state = r.state
    BY <2>4, <2>5 DEF SameButOut, SameLogin
  <2>9. dcs' = DcsWithout(chan[c].dc) /\ s.dc = ClosedData(chan[c]).dc
    BY <2>1, <2>7 DEF g
  <2>10. s.pasv = "listening" => s.pasv = chan[c].pasv
    BY <2>7
  <2> HIDE DEF r
  <2> QED BY <2>5, <2>6, <2>9, <2>10, DataClosed
<1> QED BY <1>2, <1>3, <1>4, <1>5, <1>6 DEF Handle, Simple, Asking, Cmd_rnto

LEMMA DataByClient ==
    ASSUME TypeInv, DataInv, NEW c \in Channels, Accept(c) \/ Flush(c) \/ Arrives(c) \/ Close(c)
    PROVE  DataInv'
<1> DEFINE r == chan[c]
<1>0. r \in Channel
  BY DEF TypeInv
<1>1. CASE Accept(c)
  <2>1. chan' = [chan EXCEPT ![c] = NewChannel] /\ dcs' = dcs
    BY <1>1 DEF Accept
  <2>2. NewChannel.dc = NoDc
    BY DEF NewChannel
  <2> QED BY <2>1, <2>2 DEF DataInv, TypeInv
<1>2. CASE Flush(c)
  <2> DEFINE s == [r EXCEPT !.out = Tail(@)]
  <2>1. chan' = [chan EXCEPT ![c] = s] /\ dcs' = dcs
    BY <1>2 DEF Flush
  <2>2. s.dc = r.dc /\ s.state = r.state /\ s.pasv = r.pasv
    BY <1>0 DEF Channel
  <2>3. s \in Channel
    <3>1. r.out \in Seq(Reply) /\ r.out # <<>>
      BY <1>0, <1>2 DEF Flush, Channel
    <3>2. Tail(r.out) \in Seq(Reply)
      BY <3>1, OutTail
    <3> QED BY <1>0, <3>2 DEF Channel
  <2> HIDE DEF s
  <2> QED BY <2>1, <2>2, <2>3, DataSaid DEF SameData
<1>3. CASE Arrives(c)
  <2> DEFINE d == r.dc
             s == [r EXCEPT !.pasv = IF d = NoDc THEN "ready" ELSE "none"]
             w == [dcs[d] EXCEPT !.state = "open"]
  <2>1. /\ chan' = [chan EXCEPT ![c] = s] /\ r.pasv = "listening"
        /\ dcs' = IF d = NoDc THEN dcs ELSE [dcs EXCEPT ![d] = w]
    BY <1>3 DEF Arrives
  <2>2. s.dc = d /\ s.state = r.state /\ s.pasv # "listening"
    BY <1>0 DEF Channel
  <2> HIDE DEF s
  <2>3. CASE d = NoDc
    BY <2>1, <2>2, <2>3 DEF DataInv, TypeInv
  <2>4. CASE d # NoDc
    <3>1. d \in Dcs /\ dcs[d] \in Data /\ PointsTo(c, r, dcs[d]) /\ DataOk(dcs[d])
      BY <1>0, <2>4 DEF Channel, TypeInv, DataInv
    <3>2. DataOk(w) /\ w.chan = c /\ w.state = "open"
      BY <3>1 DEF DataOk, PointsTo, Data
    <3>3. Alone(c, d)
      BY <3>1, Pointing DEF Alone
    <3>5. dcs' = [dcs EXCEPT ![d] = w]
      BY <2>1, <2>4
    <3> HIDE DEF d, w
    <3>4. Fits(c, s, d, w)
      BY <2>2, <3>1, <3>2 DEF Fits, PointsTo
    <3> QED BY <2>1, <3>1, <3>2, <3>3, <3>4, <3>5, DataChanged
  <2> QED BY <2>3, <2>4
<1>4. CASE Close(c)
  <2> DEFINE z == [r EXCEPT !.state = "closed"]
             g == ClosedData(z)
             s == [g EXCEPT !.state = IF Raises(r.dc) THEN "stuck" ELSE "closed",
                            !.pasv = IF @ = "listening" THEN "dead" ELSE @, !.out = <<>>]
  <2>1. chan' = [chan EXCEPT ![c] = s] /\ dcs' = DcsWithout(chan[c].dc) /\ r.state = "open"
    BY <1>4 DEF Close
  <2>2. z \in Channel /\ z.dc = r.dc /\ z.pasv = r.pasv
    BY <1>0 DEF Channel
  <2>3. r \in Channel /\ (g \in Channel /\ g.pasv = z.pasv)
    <3> HIDE DEF z
    <3> QED BY <1>0, <2>2, ClosedIs
  <2>4. g.dc = ClosedData(r).dc
    <3>1. CASE z.dc = NoDc \/ dcs[z.dc].kind = "recv"
      BY <2>2, <3>1 DEF ClosedData
    <3>2. CASE ~(z.dc = NoDc \/ dcs[z.dc].kind = "recv")
      <4>1. z.dc \in Dcs /\ z.dc # NoDc
        BY <2>2, <3>2 DEF Channel
      <4> HIDE DEF z, r
      <4>2. g = XmitClosed(z, z.dc, FALSE) /\ ClosedData(r) = XmitClosed(r, r.dc, FALSE)
        BY <2>2, <3>2 DEF ClosedData
      <4>3. XmitClosed(z, z.dc, FALSE).dc = NoDc
        BY <2>2, <4>1, XmitClosedIs
      <4>4. XmitClosed(r, r.dc, FALSE).dc = NoDc
        BY <2>2, <2>3, <4>1, XmitClosedIs
      <4> QED BY <4>2, <4>3, <4>4
    <3> QED BY <3>1, <3>2
  <2> HIDE DEF g, z
  <2>5. s \in Channel /\ s.dc = g.dc /\ s.pasv # "listening"
    <3>1. <<>> \in Seq(Reply)
      BY EmptySeq
    <3> QED BY <2>3, <3>1, ZenonT(40) DEF Channel
  <2>6. /\ s.pasv = "listening" => s.pasv = chan[c].pasv
        /\ s.dc = ClosedData(chan[c]).dc
    BY <2>4, <2>5
  <2> HIDE DEF s, r
  <2> QED BY <2>1, <2>5, <2>6, DataClosed
<1> QED BY <1>1, <1>2, <1>3, <1>4

LEMMA DataByItself ==
    ASSUME TypeInv, DataInv, NEW d \in Dcs, Connected(d) \/ Transferred(d) \/ Lost(d) \/ Uploaded(d)
    PROVE  DataInv'
<1> DEFINE c == dcs[d].chan
           r == chan[c]
<1>0. dcs[d] \in Data /\ dcs[d].state \in {"open", "connecting"} /\ DataOk(dcs[d])
  BY DEF TypeInv, Connected, Transferred, Lost, Uploaded, DataInv
<1>1. c \in Channels /\ r \in Channel /\ Alone(c, d)
  BY <1>0, Pointing DEF Data, TypeInv, Alone
<1>2. ASSUME NEW w \in Data, w.chan = c, w.state \in {"open", "connecting"}, DataOk(w),
             dcs' = [dcs EXCEPT ![d] = w], UNCHANGED chan
      PROVE  DataInv'
  <2>1. chan' = [chan EXCEPT ![c] = r]
    BY <1>1, <1>2 DEF TypeInv
  <2>2. Fits(c, r, d, w)
    <3>1. CASE r.dc = d
      <4>1. PointsTo(c, r, dcs[d]) /\ r.dc # NoDc
        BY <1>1, <3>1, Pointing DEF DataInv
      <4> QED BY <1>0, <1>2, <3>1, <4>1 DEF PointsTo, Fits
    <3>2. CASE r.dc # d
      BY <3>2 DEF Fits
    <3> QED BY <3>1, <3>2
  <2> HIDE DEF c, r
  <2> QED BY <1>1, <1>2, <2>1, <2>2, DataChanged
<1>3. CASE Connected(d)
  <2> DEFINE w == [dcs[d] EXCEPT !.state = "open"]
  <2>1. w \in Data /\ w.chan = c /\ w.state = "open" /\ DataOk(w)
    BY <1>0, <1>1 DEF Data, DataOk
  <2>2. dcs' = [dcs EXCEPT ![d] = w] /\ UNCHANGED chan
    BY <1>3 DEF Connected
  <2> HIDE DEF w
  <2> QED BY <2>1, <2>2, <1>2
<1>4. CASE Uploaded(d)
  <2> DEFINE w == [dcs[d] EXCEPT !.ended = TRUE]
  <2>1. w \in Data /\ w.chan = c /\ w.state = dcs[d].state /\ DataOk(w)
    BY <1>0, <1>1, <1>4 DEF Data, DataOk, Uploaded
  <2>2. dcs' = [dcs EXCEPT ![d] = w] /\ UNCHANGED chan
    BY <1>4 DEF Uploaded
  <2> HIDE DEF w
  <2> QED BY <1>0, <2>1, <2>2, <1>2
<1>5. CASE Transferred(d) \/ Lost(d)
  <2>1. PICK done \in BOOLEAN : chan' = [chan EXCEPT ![c] = XmitClosed(chan[c], d, done)]
    BY <1>5 DEF Transferred, Lost
  <2>2. dcs' = [dcs EXCEPT ![d] = NoData]
    BY <1>5 DEF Transferred, Lost
  <2> DEFINE s == XmitClosed(r, d, done)
  <2>3. s.dc = NoDc
    BY <1>1, XmitClosedIs
  <2>4. chan' = [chan EXCEPT ![c] = s]
    BY <2>1
  <2> HIDE DEF s, c, r
  <2>5. Fits(c, s, d, NoData)
    BY <2>3 DEF Fits
  <2> QED BY <1>1, <2>2, <2>4, <2>5, NoDataOk, DataChanged
<1> QED BY <1>3, <1>4, <1>5

LEMMA DataByApply ==
    ASSUME TypeInv, DataInv, Apply
    PROVE  DataInv'
<1> DEFINE t == Head(thunks)
           c == t.chan
           r == chan[c]
<1>0. thunks # <<>>
  BY DEF Apply, Ask_completion, Cwd_completion, Pass_completion, Listdir_completion, Retr_completion, Stor_completion, Done
<1>1. c \in Channels /\ t.to \in Nat /\ r \in Channel /\ t.load \in Loads
  BY <1>0, ThunkIs
<1>2. ASSUME NEW s \in Channel, SameData(r, s), s.state = r.state, Completed(s) PROVE DataInv'
  <2>1. chan' = [chan EXCEPT ![c] = s] /\ dcs' = dcs
    BY <1>2 DEF Completed
  <2> HIDE DEF c
  <2> QED BY <1>1, <1>2, <2>1, DataSaid
<1>3. CASE Telling
  <2>1. PICK s \in Channel, k \in Codes : TellsOf(t, r, s, k) /\ Completed(s)
    BY <1>3, TellingEffect
  <2> QED BY <1>2, <2>1 DEF TellsOf, SameLogin
<1>4. CASE Pass_completion
  <2>1. PICK s \in Channel : Completed(s) /\ (Refused(t, r, s) \/ LetIn(t, r, s))
    BY <1>4, PassedEffect, SMTT(30)
  <2>2. SameData(r, s) /\ s.state = r.state
    BY <2>1, Zenon DEF Refused, LetIn, SameButOut, SameData
  <2> QED BY <1>2, <2>1, <2>2
<1>5. CASE Opening
  <2>1. PICK s \in Channel, load \in Loads, d \in Unused :
                     /\ OpensOf(t, r, s, d, load) /\ chan' = [chan EXCEPT ![c] = s]
                     /\ dcs' = [dcs EXCEPT ![d] = NewData(c, r, "xmit", t.to, load)]
    BY <1>5, OpeningEffect
  <2> DEFINE w == NewData(c, r, "xmit", t.to, load)
  <2>2. DataOk(w) /\ w.chan = c /\ w.state # "free" /\ (r.pasv = "listening" => w.state = "nosocket")
    BY DEF DataOk, NewData, SocketOf
  <2>3. d \in Dcs /\ Alone(c, d)
    BY <1>1, Pointing DEF Unused, Alone
  <2>4. dcs' = [dcs EXCEPT ![d] = w] /\ chan' = [chan EXCEPT ![c] = s] /\ OpensOf(t, r, s, d, load)
    BY <2>1
  <2> HIDE DEF w, r, c
  <2>5. Fits(c, s, d, w)
    BY <2>2, <2>4 DEF Fits, PointsTo, OpensOf
  <2> QED BY <1>1, <2>2, <2>3, <2>4, <2>5, DataChanged
<1>6. CASE Stor_completion
  <2> DEFINE k == IF t.ok THEN 226 ELSE 426
             told == Respond(r, t.to, k)
             s == ClosedData(told)
  <2>1. CASE Completed(r)
    BY <1>1, <1>2, <2>1 DEF SameData
  <2>2. CASE chan' = [chan EXCEPT ![c] = s] /\ dcs' = DcsWithout(r.dc) /\ r.dc # NoDc
    <3>1. k \in Codes
      BY CodesAre
    <3>2. chan' = [chan EXCEPT ![c] = s] /\ dcs' = DcsWithout(chan[c].dc)
      BY <2>2
    <3> HIDE DEF t, c, r, k
    <3>4. told \in Channel /\ SameButOut(r, told)
      BY <1>1, <3>1, RespondIs
    <3> HIDE DEF told
    <3>5. s \in Channel /\ SameLogin(told, s) /\ s.pasv = told.pasv
      BY <3>4, ClosedIs
    <3>6. s.dc = ClosedData(r).dc
      <4>1. CASE r.dc = NoDc \/ dcs[r.dc].kind = "recv"
        BY <3>4, <4>1 DEF ClosedData, SameButOut
      <4>2. CASE ~(r.dc = NoDc \/ dcs[r.dc].kind = "recv")
        <5>1. r.dc \in Dcs /\ told.dc = r.dc
          BY <1>1, <3>4, <4>2 DEF Channel, SameButOut
        <5>2. s = XmitClosed(told, r.dc, FALSE) /\ ClosedData(r) = XmitClosed(r, r.dc, FALSE)
          BY <4>2, <5>1 DEF ClosedData
        <5>3. XmitClosed(told, r.dc, FALSE).dc = NoDc
          BY <3>4, <5>1, XmitClosedIs
        <5>4. XmitClosed(r, r.dc, FALSE).dc = NoDc
          BY <1>1, <5>1, XmitClosedIs
        <5> QED BY <5>2, <5>3, <5>4
      <4> QED BY <4>1, <4>2
    <3>7. /\ s.pasv = "listening" => s.pasv = chan[c].pasv
          /\ s.dc = ClosedData(chan[c]).dc
      BY <3>4, <3>5, <3>6 DEF SameButOut, SameLogin, r
    <3> HIDE DEF s
    <3> QED BY <1>1, <3>2, <3>5, <3>7, DataClosed
  <2> QED BY <1>6, <2>1, <2>2 DEF Stor_completion
<1> QED BY <1>3, <1>4, <1>5, <1>6 DEF Apply, Telling, Opening

LEMMA DataStep ==
    ASSUME TypeInv, DataInv, [Next]_vars
    PROVE  DataInv'
<1>1. ASSUME NEW c \in Channels, Accept(c) \/ Flush(c) \/ Arrives(c) \/ Close(c) PROVE DataInv'
  BY <1>1, DataByClient
<1>2. ASSUME UNCHANGED <<chan, dcs>> PROVE DataInv'
  BY <1>2 DEF DataInv
<1>3. ASSUME NEW c \in Channels, NEW m \in user[c].plan, Send(c, m) PROVE DataInv'
  BY <1>2, <1>3 DEF Send
<1>4. ASSUME NEW c \in Channels, Handle(c) PROVE DataInv'
  BY <1>4, DataByHandle
<1>5. ASSUME NEW d \in Dcs, Connected(d) \/ Transferred(d) \/ Lost(d) \/ Uploaded(d) PROVE DataInv'
  BY <1>5, DataByItself
<1>6. ASSUME NEW c \in Channels, Served(c) PROVE DataInv'
  BY <1>2, <1>6 DEF Served, Work
<1>7. ASSUME Apply PROVE DataInv'
  BY <1>7, DataByApply
<1>8. CASE UNCHANGED vars
  BY <1>2, <1>8 DEF vars
<1> QED BY <1>1, <1>3, <1>4, <1>5, <1>6, <1>7, <1>8 DEF Next

LEMMA DataInit == Init => DataInv
BY DEF Init, DataInv, NewChannel, DataOk, NoData

-----------------------------------------------------------------------------
(* The invariant of a channel that has not ended, and what a step leaves   *)
(* alone of the other channels.                                            *)

Here(c) == chan[c].state \in {"none", "open"}

\* Who is not let in has nothing but PASS under way.
LetInFirst(c) ==
    ~chan[c].authorized =>
        Len(user[c].owed) # 2 /\ Active(c) = {} /\ \A q \in Reqs(c) \cup Thunks(c) : q.name = "PASS"

Begun(c) ==
    chan[c].state = "none" => user[c].owed = <<>> /\ user[c].cwd = Home /\ user[c].going = NoPath

ChannelInv(c) ==
    Here(c) =>
        /\ Good(user[c], chan[c], line[c], Reqs(c), Thunks(c), Active(c))
        /\ Once(c) /\ LiveOf(c) \subseteq {chan[c].dc}
        /\ Begun(c) /\ LetInFirst(c)

Untouched(e) ==
    /\ chan'[e] = chan[e] /\ line'[e] = line[e] /\ user'[e] = user[e]
    /\ Reqs(e)' = Reqs(e) /\ Thunks(e)' = Thunks(e) /\ (Once(e) => Once(e)')
    /\ LiveOf(e)' = LiveOf(e) /\ Active(e)' = Active(e)

LEMMA Frame ==
    ASSUME NEW e \in Channels, Untouched(e), ChannelInv(e)
    PROVE  ChannelInv(e)'
BY DEF Untouched, ChannelInv, Here, LetInFirst, Begun

LEMMA TypedGood ==
    ASSUME TypeInv, NEW c \in Channels
    PROVE  /\ GoodType(user[c], chan[c], line[c], Reqs(c), Thunks(c), Active(c))
           /\ user[c] \in Client /\ chan[c] \in Channel /\ line[c] \in Seq(Command)
<1>1. user[c] \in Client /\ chan[c] \in Channel /\ line[c] \in Seq(Command)
  BY DEF TypeInv
<1>2. Reqs(c) \subseteq Request
  BY DEF TypeInv, Reqs
<1>3. Thunks(c) \subseteq Thunk
  <2>1. Range(thunks) \subseteq Thunk
    BY ListRange DEF TypeInv
  <2> QED BY <2>1 DEF Thunks
<1>4. Active(c) \subseteq Data
  BY DEF Active, LiveOf, TypeInv
<1> QED BY <1>1, <1>2, <1>3, <1>4 DEF GoodType, OrderlyType, Client, Channel

\* Data channels

LEMMA LiveSame ==
    ASSUME dcs' = dcs
    PROVE  \A e \in Channels : LiveOf(e)' = LiveOf(e) /\ Active(e)' = Active(e)
BY DEF LiveOf, Active

LEMMA LiveChanged ==
    ASSUME TypeInv, NEW c \in Channels, NEW d \in Dcs, NEW w, dcs' = [dcs EXCEPT ![d] = w],
           Alive(w) => w.chan = c, Alive(dcs[d]) => dcs[d].chan = c
    PROVE  /\ \A e \in Channels \ {c} : LiveOf(e)' = LiveOf(e) /\ Active(e)' = Active(e)
           /\ LiveOf(c) \subseteq {d} =>
                 /\ Alive(w) => LiveOf(c)' = {d} /\ Active(c)' = {w}
                 /\ ~Alive(w) => LiveOf(c)' = {} /\ Active(c)' = {}
<1>1. dcs'[d] = w /\ \A e \in Dcs : e # d => dcs'[e] = dcs[e]
  BY DEF TypeInv
<1>2. ASSUME NEW e \in Channels \ {c} PROVE LiveOf(e)' = LiveOf(e) /\ Active(e)' = Active(e)
  <2>1. LiveOf(e)' = LiveOf(e) /\ d \notin LiveOf(e)
    BY <1>1 DEF LiveOf
  <2>2. \A x \in LiveOf(e) : x \in Dcs /\ x # d /\ dcs'[x] = dcs[x]
    BY <1>1, <2>1 DEF LiveOf
  <2> QED BY <2>1, <2>2 DEF Active
<1>3. ASSUME LiveOf(c) \subseteq {d}, Alive(w) PROVE LiveOf(c)' = {d} /\ Active(c)' = {w}
  <2>1. LiveOf(c)' = {d}
    BY <1>1, <1>3 DEF LiveOf
  <2> QED BY <1>1, <2>1 DEF Active
<1>4. ASSUME LiveOf(c) \subseteq {d}, ~Alive(w) PROVE LiveOf(c)' = {} /\ Active(c)' = {}
  <2>1. LiveOf(c)' = {}
    BY <1>1, <1>4 DEF LiveOf
  <2> QED BY <2>1 DEF Active
<1> QED BY <1>2, <1>3, <1>4

\* Requests and completions

LEMMA ReqsHanded ==
    ASSUME NEW c \in Channels, NEW n, NEW name, NEW load, requests' = Handed(c, n, name, load)
    PROVE  /\ Reqs(c)' = Reqs(c) \cup {[chan |-> c, to |-> n, name |-> name, load |-> load]}
           /\ \A e \in Channels \ {c} : Reqs(e)' = Reqs(e)
BY DEF Reqs, Handed

LEMMA ReqsTaken ==
    ASSUME NEW q \in requests, requests' = requests \ {q}
    PROVE  /\ Reqs(q.chan)' = Reqs(q.chan) \ {q}
           /\ \A e \in Channels \ {q.chan} : Reqs(e)' = Reqs(e)
BY DEF Reqs

LEMMA ThunksAdded ==
    ASSUME TypeInv, NEW t \in Thunk, thunks' = Append(thunks, t)
    PROVE  /\ Thunks(t.chan)' = Thunks(t.chan) \cup {t}
           /\ Thunks(t.chan) = {} => Once(t.chan)'
           /\ \A e \in Channels \ {t.chan} : Thunks(e)' = Thunks(e) /\ (Once(e) => Once(e)')
<1> DEFINE N == Len(thunks)
<1>1. thunks \in Seq(Thunk) /\ N \in Nat /\ DOMAIN thunks = 1 .. N
  BY DEF TypeInv
<1>2. /\ Range(thunks') = Range(thunks) \cup {t} /\ DOMAIN thunks' = 1 .. N + 1
      /\ \A i \in 1 .. N : thunks'[i] = thunks[i]
      /\ thunks'[N + 1] = t
  BY <1>1, AppendRange
<1>3. \A i \in DOMAIN thunks' : i \in DOMAIN thunks \/ i = N + 1
  BY <1>1, <1>2
<1>4. \A i \in DOMAIN thunks : thunks[i] \in Range(thunks) /\ thunks'[i] = thunks[i]
  BY <1>1, <1>2 DEF Range
<1> HIDE DEF N
<1>5. ASSUME Thunks(t.chan) = {} PROVE Once(t.chan)'
  BY <1>2, <1>3, <1>4, <1>5 DEF Thunks, Once
<1>6. ASSUME NEW e \in Channels \ {t.chan} PROVE Thunks(e)' = Thunks(e) /\ (Once(e) => Once(e)')
  BY <1>2, <1>3, <1>4, <1>6 DEF Thunks, Once
<1> QED BY <1>2, <1>5, <1>6 DEF Thunks

LEMMA ThunksTaken ==
    ASSUME TypeInv, thunks # <<>>, thunks' = Tail(thunks), NEW c, c = Head(thunks).chan
    PROVE  /\ Head(thunks) \in Thunks(c)
           /\ Once(c) => Thunks(c)' = {} /\ Once(c)'
           /\ \A e \in Channels \ {c} : Thunks(e)' = Thunks(e) /\ (Once(e) => Once(e)')
<1> DEFINE N == Len(thunks)
           t == Head(thunks)
<1>0. t.chan = c
  OBVIOUS
<1>1. thunks \in Seq(Thunk) /\ N \in Nat /\ DOMAIN thunks = 1 .. N
  BY DEF TypeInv
<1>2. /\ N \in Nat \ {0} /\ Len(thunks') = N - 1 /\ t = thunks[1]
      /\ \A i \in 1 .. Len(thunks') : thunks'[i] = thunks[i + 1]
      /\ thunks' \in Seq(Thunk) /\ t \in Range(thunks)
  BY <1>1, TailRange
<1>3. DOMAIN thunks' = 1 .. N - 1 /\ 1 \in DOMAIN thunks
  BY <1>1, <1>2
<1>4. \A i \in DOMAIN thunks' : i + 1 \in DOMAIN thunks /\ i + 1 # 1 /\ thunks'[i] = thunks[i + 1]
  BY <1>1, <1>2, <1>3
<1>5. ASSUME NEW i \in DOMAIN thunks, i # 1
      PROVE  \E j \in DOMAIN thunks' : i = j + 1 /\ thunks'[j] = thunks[i]
  <2>1. i - 1 \in 1 .. N - 1 /\ i = (i - 1) + 1
    BY <1>1, <1>2, <1>5
  <2> QED BY <2>1, <1>3, <1>4
<1>6. \A i, j \in DOMAIN thunks' : i + 1 = j + 1 => i = j
  BY <1>3
<1> HIDE DEF N, t
<1>7. t \in Thunks(c)
  BY <1>0, <1>2 DEF Thunks
<1>8. ASSUME Once(c) PROVE Thunks(c)' = {} /\ Once(c)'
  <2>1. \A i \in DOMAIN thunks' : thunks'[i].chan # c
    BY <1>0, <1>2, <1>3, <1>4, <1>8 DEF Once
  <2>2. Thunks(c)' = {}
    <3>1. \A x \in Range(thunks') : x.chan # c
      BY <2>1 DEF Range
    <3>2. Thunks(c)' = {x \in Range(thunks') : x.chan = c}
      BY DEF Thunks
    <3> QED BY <3>1, <3>2
  <2>3. Once(c)'
    BY <2>1 DEF Once
  <2> QED BY <2>2, <2>3
<1>9. ASSUME NEW e \in Channels \ {c} PROVE Thunks(e)' = Thunks(e) /\ (Once(e) => Once(e)')
  <2>1. thunks[1].chan # e
    BY <1>0, <1>2
  <2>2. Thunks(e)' = Thunks(e)
    <3>1. ASSUME NEW x \in Thunks(e) PROVE x \in Thunks(e)'
      BY <1>5, <2>1, <3>1 DEF Thunks, Range
    <3>2. ASSUME NEW x \in Thunks(e)' PROVE x \in Thunks(e)
      BY <1>4, <3>2 DEF Thunks, Range
    <3> QED BY <3>1, <3>2
  <2>3. Once(e) => Once(e)'
    BY <1>4, <1>6 DEF Once
  <2> QED BY <2>2, <2>3
<1> QED BY <1>7, <1>8, <1>9 DEF t

-----------------------------------------------------------------------------
(* Where one thing is, nothing else is.                                    *)

\* Nothing is under way for c but what it says.
Alone1(c) == Len(user[c].owed) = 1 /\ NoFinal(chan[c].out) /\ chan[c].path = user[c].cwd /\ chan[c].state = "open"

LEMMA OpenIfOwed ==
    ASSUME TypeInv, NEW c \in Channels, ChannelInv(c), Here(c), Len(user[c].owed) # 0
    PROVE  chan[c].state = "open"
BY DEF ChannelInv, Here, Begun

LEMMA OwedAre ==
    ASSUME TypeInv, NEW c \in Channels, ChannelInv(c), Here(c)
    PROVE  /\ Len(user[c].owed) \in {0, 1, 2}
           /\ Len(user[c].owed) = 0 => Nothing(line[c], Reqs(c), Thunks(c), Active(c), chan[c].out)
           /\ Len(user[c].owed) = 1 => OneThing(user[c].owed[1], line[c], Reqs(c), Thunks(c), Active(c), chan[c].out)
           /\ Len(user[c].owed) = 2 =>
                 Aborting(user[c].owed[1], user[c].owed[2], line[c], Reqs(c), Thunks(c), Active(c), chan[c].out)
           /\ Len(line[c]) <= 1
           /\ Knows(user[c], chan[c], line[c], Reqs(c), Thunks(c), Active(c))
<1>1. Orderly(user[c].owed, line[c], Reqs(c), Thunks(c), Active(c), chan[c].out)
  BY DEF ChannelInv, Good
<1>2. Len(user[c].owed) \in Nat
  BY TypedGood, GoodTypes
<1>3. Len(user[c].owed) \in {0, 1, 2}
  BY <1>1, <1>2, UpToTwo DEF Orderly
<1> QED BY <1>1, <1>3 DEF Orderly, ChannelInv, Good

LEMMA PathIs ==
    ASSUME TypeInv, NEW c \in Channels, ChannelInv(c), Here(c), NoFinal(chan[c].out), Len(user[c].owed) = 1
    PROVE  Alone1(c)
<1>1. chan[c].out \in Seq(Reply)
  BY TypedGood, GoodTypes
<1>2. Knows(user[c], chan[c], line[c], Reqs(c), Thunks(c), Active(c))
  BY OwedAre
<1>3. ~Moved(user[c], chan[c].out)
  BY <1>1, NotMoved
<1>4. chan[c].path = user[c].cwd
  BY <1>2, <1>3 DEF Knows
<1>5. chan[c].state = "open"
  BY OpenIfOwed
<1> QED BY <1>4, <1>5 DEF Alone1

LEMMA NoLive ==
    ASSUME NEW c, Active(c) = {}
    PROVE  LiveOf(c) = {}
BY DEF Active

\* A command is on the line.
LEMMA OneTail ==
    ASSUME NEW S, NEW s \in Seq(S), s # <<>>, Len(s) <= 1
    PROVE  Tail(s) = <<>>
<1> DEFINE N == Len(s)
           M == Len(Tail(s))
<1>1. N \in Nat \ {0} /\ M = N - 1 /\ Tail(s) \in Seq(S)
  BY TailRange
<1>2. N <= 1
  OBVIOUS
<1>3. M = 0
  <2> HIDE DEF N, M
  <2> QED BY <1>1, <1>2
<1> QED BY <1>1, <1>3, EmptySeq

LEMMA FrontFirst ==
    ASSUME TypeInv, NEW c \in Channels, ChannelInv(c), Here(c), line[c] # <<>>,
           Head(line[c]).cmd.name # "ABOR" \/ Len(user[c].owed) = 1
    PROVE  OneThing(user[c].owed[1], line[c], Reqs(c), Thunks(c), Active(c), chan[c].out) /\ Len(user[c].owed) = 1
<1>1. /\ Len(user[c].owed) = 0 => Nothing(line[c], Reqs(c), Thunks(c), Active(c), chan[c].out)
      /\ Len(user[c].owed) = 1 => OneThing(user[c].owed[1], line[c], Reqs(c), Thunks(c), Active(c), chan[c].out)
      /\ Len(user[c].owed) = 2 =>
            Aborting(user[c].owed[1], user[c].owed[2], line[c], Reqs(c), Thunks(c), Active(c), chan[c].out)
      /\ Len(user[c].owed) \in {0, 1, 2}
  BY OwedAre
<1>2. Head(line[c]) = line[c][1]
  BY CommandIs, TypedGood
<1>3. Len(user[c].owed) # 0
  BY <1>1 DEF Nothing
<1>4. Len(user[c].owed) # 2
  BY <1>1, <1>2 DEF Aborting
<1> QED BY <1>1, <1>3, <1>4

LEMMA FrontIs ==
    ASSUME TypeInv, NEW c \in Channels, ChannelInv(c), Here(c), line[c] # <<>>,
           Head(line[c]).cmd.name # "ABOR" \/ Len(user[c].owed) = 1
    PROVE  Alone1(c) /\ Number(c) = user[c].owed[1] /\ Tail(line[c]) = <<>>
<1>1. OneThing(user[c].owed[1], line[c], Reqs(c), Thunks(c), Active(c), chan[c].out) /\ Len(user[c].owed) = 1
  BY FrontFirst
<1>2. Head(line[c]) = line[c][1] /\ line[c] \in Seq(Command)
  BY CommandIs, TypedGood
<1>3. Number(c) = user[c].owed[1] /\ NoFinal(chan[c].out)
  BY <1>1, <1>2 DEF OneThing, Number
<1>4. Tail(line[c]) = <<>>
  <2>1. Len(line[c]) <= 1
    BY OwedAre
  <2> QED BY <1>2, <2>1, OneTail
<1>5. Alone1(c)
  BY <1>1, <1>3, PathIs
<1> QED BY <1>3, <1>4, <1>5

LEMMA FrontAlone ==
    ASSUME TypeInv, NEW c \in Channels, ChannelInv(c), Here(c), line[c] # <<>>,
           Head(line[c]).cmd.name # "ABOR" \/ Len(user[c].owed) = 1
    PROVE  /\ Reqs(c) = {} /\ Thunks(c) = {} /\ Active(c) = {} /\ LiveOf(c) = {}
           /\ Sends(Head(line[c]), user[c], chan[c])
<1>1. OneThing(user[c].owed[1], line[c], Reqs(c), Thunks(c), Active(c), chan[c].out)
  BY FrontFirst
<1>2. Head(line[c]) = line[c][1]
  BY CommandIs, TypedGood
<1>3. Reqs(c) = {} /\ Thunks(c) = {} /\ Active(c) = {}
  BY <1>1 DEF OneThing
<1>4. Sends(Head(line[c]), user[c], chan[c])
  BY <1>2, OwedAre DEF Knows
<1> QED BY <1>3, <1>4, NoLive

\* A worker has a request.
LEMMA Behind ==
    ASSUME TypeInv, NEW c \in Channels, ChannelInv(c), Here(c), NEW q \in Reqs(c)
    PROVE  /\ Alone1(c) /\ q.to = user[c].owed[1] /\ line[c] = <<>>
           /\ Reqs(c) = {q} /\ Thunks(c) = {} /\ Active(c) = {} /\ LiveOf(c) = {}
           /\ Asks(q, user[c], chan[c])
<1>1. /\ Len(user[c].owed) = 0 => Nothing(line[c], Reqs(c), Thunks(c), Active(c), chan[c].out)
      /\ Len(user[c].owed) = 1 => OneThing(user[c].owed[1], line[c], Reqs(c), Thunks(c), Active(c), chan[c].out)
      /\ Len(user[c].owed) = 2 =>
            Aborting(user[c].owed[1], user[c].owed[2], line[c], Reqs(c), Thunks(c), Active(c), chan[c].out)
      /\ Len(user[c].owed) \in {0, 1, 2}
      /\ Knows(user[c], chan[c], line[c], Reqs(c), Thunks(c), Active(c))
  BY OwedAre
<1>2. Len(user[c].owed) = 1
  BY <1>1 DEF Nothing, Aborting
<1>3. OneThing(user[c].owed[1], line[c], Reqs(c), Thunks(c), Active(c), chan[c].out)
  BY <1>1, <1>2
<1>4. /\ q.to = user[c].owed[1] /\ line[c] = <<>> /\ Thunks(c) = {} /\ Active(c) = {} /\ NoFinal(chan[c].out)
      /\ \A p \in Reqs(c) : p = q
  BY <1>3 DEF OneThing
<1>5. Asks(q, user[c], chan[c])
  BY <1>1 DEF Knows
<1> QED BY <1>2, <1>4, <1>5, PathIs, NoLive

\* A completion waits.
LEMMA Waiting ==
    ASSUME TypeInv, NEW c \in Channels, ChannelInv(c), Here(c), NEW t \in Thunks(c)
    PROVE  /\ Alone1(c) /\ t.to = user[c].owed[1] /\ line[c] = <<>>
           /\ Reqs(c) = {} /\ Active(c) = {} /\ LiveOf(c) = {}
           /\ Asks(t, user[c], chan[c]) /\ Stored(t, user[c])
<1>1. /\ Len(user[c].owed) = 0 => Nothing(line[c], Reqs(c), Thunks(c), Active(c), chan[c].out)
      /\ Len(user[c].owed) = 1 => OneThing(user[c].owed[1], line[c], Reqs(c), Thunks(c), Active(c), chan[c].out)
      /\ Len(user[c].owed) = 2 =>
            Aborting(user[c].owed[1], user[c].owed[2], line[c], Reqs(c), Thunks(c), Active(c), chan[c].out)
      /\ Len(user[c].owed) \in {0, 1, 2}
      /\ Knows(user[c], chan[c], line[c], Reqs(c), Thunks(c), Active(c))
  BY OwedAre
<1>2. Len(user[c].owed) = 1
  BY <1>1 DEF Nothing, Aborting
<1>3. OneThing(user[c].owed[1], line[c], Reqs(c), Thunks(c), Active(c), chan[c].out)
  BY <1>1, <1>2
<1>4. /\ t.to = user[c].owed[1] /\ line[c] = <<>> /\ Reqs(c) = {} /\ Active(c) = {} /\ NoFinal(chan[c].out)
  BY <1>3 DEF OneThing
<1>5. Asks(t, user[c], chan[c]) /\ Stored(t, user[c])
  BY <1>1 DEF Knows
<1> QED BY <1>2, <1>4, <1>5, PathIs, NoLive

\* A transfer goes on.
LEMMA Going ==
    ASSUME TypeInv, NEW c \in Channels, ChannelInv(c), Here(c), NEW d \in LiveOf(c)
    PROVE  /\ chan[c].state = "open" /\ chan[c].authorized /\ d = chan[c].dc
           /\ LiveOf(c) = {d} /\ Active(c) = {dcs[d]} /\ Reqs(c) = {} /\ Thunks(c) = {}
           /\ Len(user[c].owed) \in {1, 2} /\ Carries(dcs[d], user[c], chan[c])
           /\ Len(user[c].owed) = 1 => Alone1(c) /\ line[c] = <<>> /\ dcs[d].to = user[c].owed[1]
<1>1. /\ Len(user[c].owed) = 0 => Nothing(line[c], Reqs(c), Thunks(c), Active(c), chan[c].out)
      /\ Len(user[c].owed) = 1 => OneThing(user[c].owed[1], line[c], Reqs(c), Thunks(c), Active(c), chan[c].out)
      /\ Len(user[c].owed) = 2 =>
            Aborting(user[c].owed[1], user[c].owed[2], line[c], Reqs(c), Thunks(c), Active(c), chan[c].out)
      /\ Len(user[c].owed) \in {0, 1, 2}
      /\ Knows(user[c], chan[c], line[c], Reqs(c), Thunks(c), Active(c))
  BY OwedAre
<1>2. LiveOf(c) \subseteq {chan[c].dc} /\ LetInFirst(c)
  BY DEF ChannelInv
<1>3. d = chan[c].dc /\ LiveOf(c) = {d} /\ Active(c) = {dcs[d]}
  BY <1>2 DEF Active
<1>4. Len(user[c].owed) \in {1, 2} /\ chan[c].authorized
  BY <1>1, <1>2, <1>3 DEF Nothing, LetInFirst
<1>5. Reqs(c) = {} /\ Thunks(c) = {}
  BY <1>1, <1>3, <1>4 DEF OneThing, Aborting
<1>6. Carries(dcs[d], user[c], chan[c])
  BY <1>1, <1>3 DEF Knows
<1>7. ASSUME Len(user[c].owed) = 1 PROVE Alone1(c) /\ line[c] = <<>> /\ dcs[d].to = user[c].owed[1]
  BY <1>1, <1>3, <1>7, PathIs DEF OneThing
<1> QED BY <1>3, <1>4, <1>5, <1>6, <1>7, OpenIfOwed

\* Without a transfer nothing is told of the data channel, and nothing goes on.
LEMMA Idle ==
    ASSUME TypeInv, DataInv, NEW c \in Channels, LiveOf(c) = {}
    PROVE  /\ \A r \in Channel : r.dc = chan[c].dc => ClosedData(r) = r
           /\ ~Raises(chan[c].dc)
           /\ dcs' = DcsWithout(chan[c].dc) => \A e \in Channels : LiveOf(e)' = LiveOf(e) /\ Active(e)' = Active(e)
<1> DEFINE d == chan[c].dc
<1>1. CASE d = NoDc
  <2>1. \A r \in Channel : r.dc = d => ClosedData(r) = r
    BY <1>1 DEF ClosedData
  <2>2. ~Raises(d) /\ DcsWithout(d) = dcs
    BY <1>1 DEF Raises, DcsWithout
  <2> QED BY <2>1, <2>2, LiveSame
<1>2. CASE d # NoDc
  <2>1. d \in Dcs /\ dcs[d] \in Data /\ dcs[d].chan = c /\ dcs[d].state # "free" /\ DataOk(dcs[d])
    BY <1>2 DEF TypeInv, Channel, DataInv, PointsTo
  <2>2. ~Alive(dcs[d])
    BY <2>1 DEF LiveOf
  <2>3. dcs[d].kind = "recv" /\ dcs[d].state # "nosocket"
    BY <2>1, <2>2 DEF Alive, DataOk, Data
  <2>4. \A r \in Channel : r.dc = d => ClosedData(r) = r
    BY <2>3 DEF ClosedData
  <2> DEFINE w == [dcs[d] EXCEPT !.state = "shut"]
  <2>5. ~Raises(d) /\ DcsWithout(d) = [dcs EXCEPT ![d] = w]
    BY <1>2, <2>3 DEF Raises, DcsWithout
  <2>6. w.chan = c /\ ~Alive(w)
    BY <2>1 DEF Alive, Data
  <2>7. ASSUME dcs' = DcsWithout(d)
        PROVE  \A e \in Channels : LiveOf(e)' = LiveOf(e) /\ Active(e)' = Active(e)
    <3>1. dcs' = [dcs EXCEPT ![d] = w]
      BY <2>5, <2>7
    <3>2. LiveOf(c) \subseteq {d} /\ Active(c) = {}
      BY DEF Active
    <3> HIDE DEF w, d
    <3>3. /\ \A e \in Channels \ {c} : LiveOf(e)' = LiveOf(e) /\ Active(e)' = Active(e)
          /\ LiveOf(c)' = {} /\ Active(c)' = {}
      BY <2>1, <2>2, <2>6, <3>1, <3>2, LiveChanged
    <3> QED BY <3>2, <3>3
  <2> QED BY <2>4, <2>5, <2>7
<1> QED BY <1>1, <1>2

-----------------------------------------------------------------------------
(* What becomes of the channel a step is about, and of the others          *)

Kept(c) == ChannelInv(c)' /\ \A e \in Channels \ {c} : Untouched(e)

LEMMA Becomes ==
    ASSUME NEW c \in Channels, NEW v, NEW s, NEW ln, NEW Q, NEW T, NEW L, NEW A,
           user'[c] = v, chan'[c] = s, line'[c] = ln, Reqs(c)' = Q, Thunks(c)' = T, Once(c)',
           LiveOf(c)' = L, Active(c)' = A,
           Good(v, s, ln, Q, T, A), L \subseteq {s.dc}, s.state # "none",
           ~s.authorized => Len(v.owed) # 2 /\ A = {} /\ \A q \in Q \cup T : q.name = "PASS"
    PROVE  ChannelInv(c)'
BY DEF ChannelInv, Here, Begun, LetInFirst

LEMMA Rests ==
    ASSUME NEW c \in Channels, NEW v, NEW s,
           user'[c] = v, chan'[c] = s, line'[c] = <<>>, Reqs(c)' = {}, Thunks(c)' = {}, Once(c)',
           LiveOf(c)' = {}, Active(c)' = {}, Good(v, s, <<>>, {}, {}, {}), s.state = "open",
           ~s.authorized => Len(v.owed) # 2
    PROVE  ChannelInv(c)'
BY DEF ChannelInv, Here, Begun, LetInFirst

LEMMA GoodTypeOf ==
    ASSUME NEW u \in Client, NEW r \in Channel, NEW ln \in Seq(Command), NEW Q \in SUBSET Request,
           NEW T \in SUBSET Thunk, NEW A \in SUBSET Data
    PROVE  GoodType(u, r, ln, Q, T, A)
BY DEF GoodType, OrderlyType, Client, Channel

\* What leaves the data channels, the requests and the completions alone
LEMMA SameOthers ==
    ASSUME TypeInv, NEW c \in Channels, UNCHANGED <<dcs, requests, thunks>>
    PROVE  \A e \in Channels :
               /\ Reqs(e)' = Reqs(e) /\ Thunks(e)' = Thunks(e) /\ Once(e)' = Once(e)
               /\ LiveOf(e)' = LiveOf(e) /\ Active(e)' = Active(e)
BY DEF Reqs, Thunks, Once, LiveOf, Active

LEMMA SomeUntouched ==
    ASSUME TypeInv, NEW c \in Channels, NEW s, chan' = [chan EXCEPT ![c] = s],
           \A e \in Channels \ {c} : line'[e] = line[e],
           \A e \in Channels \ {c} : user'[e] = user[e],
           \A e \in Channels \ {c} : Reqs(e)' = Reqs(e) /\ Thunks(e)' = Thunks(e) /\ (Once(e) => Once(e)'),
           \A e \in Channels \ {c} : LiveOf(e)' = LiveOf(e) /\ Active(e)' = Active(e)
    PROVE  chan'[c] = s /\ \A e \in Channels \ {c} : Untouched(e)
BY DEF TypeInv, Untouched

LEMMA Consumes ==
    ASSUME TypeInv, NEW c \in Channels, Consumed(c)
    PROVE  line'[c] = Tail(line[c]) /\ \A e \in Channels \ {c} : line'[e] = line[e]
BY DEF TypeInv, Consumed

LEMMA AnsweredFrame ==
    ASSUME TypeInv, NEW c \in Channels, NEW s, Answered(c, s)
    PROVE  /\ chan'[c] = s /\ user'[c] = user[c] /\ line'[c] = Tail(line[c])
           /\ Reqs(c)' = Reqs(c) /\ Thunks(c)' = Thunks(c) /\ Once(c)' = Once(c)
           /\ LiveOf(c)' = LiveOf(c) /\ Active(c)' = Active(c)
           /\ \A e \in Channels \ {c} : Untouched(e)
<1>1. Consumed(c) /\ chan' = [chan EXCEPT ![c] = s] /\ UNCHANGED <<dcs, requests, thunks, user>>
  BY DEF Answered
<1>2. line'[c] = Tail(line[c]) /\ \A e \in Channels \ {c} : line'[e] = line[e]
  BY <1>1, Consumes
<1>3. \A e \in Channels :
          /\ Reqs(e)' = Reqs(e) /\ Thunks(e)' = Thunks(e) /\ Once(e)' = Once(e)
          /\ LiveOf(e)' = LiveOf(e) /\ Active(e)' = Active(e)
  BY <1>1, SameOthers
<1>4. chan'[c] = s /\ \A e \in Channels \ {c} : Untouched(e)
  BY <1>1, <1>2, <1>3, SomeUntouched
<1> QED BY <1>1, <1>2, <1>3, <1>4

\* The one command that is under way is answered, and nothing is under way any more.
LEMMA AnswerGood ==
    ASSUME TypeInv, NEW c \in Channels, ChannelInv(c), Here(c), line[c] # <<>>,
           Head(line[c]).cmd.name # "ABOR" \/ Len(user[c].owed) = 1,
           NEW s, NEW k \in Codes,
           s.out = Append(chan[c].out, [to |-> Number(c), code |-> k]),
           Told([to |-> Number(c), code |-> k], user[c], s),
           s.path = IF k \in {230, 250} /\ user[c].going # NoPath THEN user[c].going ELSE chan[c].path
    PROVE  Good(user[c], s, <<>>, {}, {}, {})
<1> DEFINE x == [to |-> Number(c), code |-> k]
<1>1. Alone1(c) /\ Number(c) = user[c].owed[1]
  BY FrontIs
<1>2. Number(c) \in Nat
  BY CommandIs
<1>3. x \in Reply /\ x # Bye /\ x.to = user[c].owed[1] /\ x.code = k
  BY <1>1, <1>2, ReplyIs
<1>4. /\ GoodType(user[c], chan[c], line[c], Reqs(c), Thunks(c), Active(c))
      /\ Good(user[c], chan[c], line[c], Reqs(c), Thunks(c), Active(c))
  BY TypedGood DEF ChannelInv
<1>5. SameClient(user[c], user[c]) /\ OneThing(user[c].owed[1], <<>>, {}, {}, {}, <<>>)
  BY DEF SameClient, OneThing, NoFinal
<1>6. Len(user[c].owed) = 1 /\ NoFinal(chan[c].out)
  BY <1>1 DEF Alone1
<1>7. s.out = Append(chan[c].out, x) /\ Told(x, user[c], s)
  OBVIOUS
<1>8. s.path = IF x.code \in {230, 250} /\ user[c].going # NoPath THEN user[c].going ELSE chan[c].path
  BY <1>3
<1> HIDE DEF x
<1> QED BY <1>3, <1>4, <1>5, <1>6, <1>7, <1>8, GoodMove

LEMMA AnswerStep ==
    ASSUME TypeInv, NEW c \in Channels, ChannelInv(c), line[c] # <<>>, chan[c].state = "open",
           Head(line[c]).cmd.name # "ABOR" \/ Len(user[c].owed) = 1,
           NEW s \in Channel, NEW k \in Codes, s.state = "open",
           s.out = Append(chan[c].out, [to |-> Number(c), code |-> k]),
           Told([to |-> Number(c), code |-> k], user[c], s),
           s.path = IF k \in {230, 250} /\ user[c].going # NoPath THEN user[c].going ELSE chan[c].path,
           Answered(c, s) \/ Answered(c, CloseWhenDone(s))
    PROVE  Kept(c)
<1>1. Here(c)
  BY DEF Here
<1>2. Good(user[c], s, <<>>, {}, {}, {})
  BY <1>1, AnswerGood
<1>3. /\ Alone1(c) /\ Tail(line[c]) = <<>>
      /\ Reqs(c) = {} /\ Thunks(c) = {} /\ Active(c) = {} /\ LiveOf(c) = {}
  BY <1>1, FrontIs, FrontAlone
<1>4. Len(user[c].owed) = 1 /\ user[c] \in Client /\ Once(c)
  BY <1>1, <1>3, TypedGood DEF Alone1, ChannelInv
<1>5. ASSUME NEW z, Answered(c, z), Good(user[c], z, <<>>, {}, {}, {}), z.state = "open" PROVE Kept(c)
  <2>1. /\ chan'[c] = z /\ user'[c] = user[c] /\ line'[c] = <<>>
        /\ Reqs(c)' = {} /\ Thunks(c)' = {} /\ Once(c)'
        /\ LiveOf(c)' = {} /\ Active(c)' = {}
        /\ \A e \in Channels \ {c} : Untouched(e)
    BY <1>3, <1>4, <1>5, AnsweredFrame
  <2>2. ChannelInv(c)'
    <3>1. ~z.authorized => Len(user[c].owed) # 2
      BY <1>4
    <3> QED BY <2>1, <3>1, <1>5, Rests
  <2> QED BY <2>1, <2>2 DEF Kept
<1>6. CASE Answered(c, s)
  BY <1>2, <1>5, <1>6
<1>7. CASE Answered(c, CloseWhenDone(s))
  <2> DEFINE z == CloseWhenDone(s)
  <2>1. z.out = Append(s.out, Bye) /\ SameButOut(s, z)
    BY CloseIs
  <2> HIDE DEF z
  <2>2. GoodType(user[c], s, <<>>, {}, {}, {})
    <3>1. <<>> \in Seq(Command)
      OBVIOUS
    <3> QED BY <3>1, <1>4, GoodTypeOf
  <2>3. Good(user[c], z, <<>>, {}, {}, {}) /\ z.state = "open"
    <3>1. /\ z.at = s.at /\ z.path = s.path /\ z.producers = s.producers /\ z.anonymous = s.anonymous
          /\ z.state = s.state
      BY <2>1 DEF SameButOut
    <3> QED BY <2>1, <2>2, <3>1, <1>2, GoodBye
  <2>4. Answered(c, z)
    BY <1>7 DEF z
  <2> QED BY <2>3, <2>4, <1>5
<1> QED BY <1>6, <1>7

\* Who is not let in has no second command.
LEMMA FirstOnly ==
    ASSUME TypeInv, NEW c \in Channels, ChannelInv(c), Here(c), line[c] # <<>>, ~chan[c].authorized
    PROVE  Len(user[c].owed) = 1
<1>1. Len(user[c].owed) \in {0, 1, 2} /\ Len(user[c].owed) # 0
  BY OwedAre DEF Nothing
<1>2. Len(user[c].owed) # 2
  BY DEF ChannelInv, LetInFirst
<1> QED BY <1>1, <1>2

LEMMA SimpleStep ==
    ASSUME TypeInv, NEW c \in Channels, ChannelInv(c), Simple(c)
    PROVE  Kept(c)
<1>1. /\ line[c] # <<>> /\ chan[c].state = "open"
      /\ \E s \in Channel, k \in Codes :
            SaidTo(c, chan[c], s, k) /\ (Answered(c, s) \/ Answered(c, CloseWhenDone(s)))
  BY SimpleEffect
<1>2. PICK s \in Channel, k \in Codes :
            SaidTo(c, chan[c], s, k) /\ (Answered(c, s) \/ Answered(c, CloseWhenDone(s)))
  BY <1>1
<1>3. Here(c)
  BY <1>1 DEF Here
<1> DEFINE m == Head(line[c]).cmd
           x == [to |-> Number(c), code |-> k]
<1>4. m.name # "PASS" /\ (m.name = "ABOR" => ~chan[c].authorized)
  BY <1>2 DEF SaidTo
<1>5. m.name # "ABOR" \/ Len(user[c].owed) = 1
  BY <1>1, <1>3, <1>4, FirstOnly
<1>6. Sends(Head(line[c]), user[c], chan[c])
  BY <1>1, <1>3, <1>5, FrontAlone
<1>7. /\ chan[c].at = NoPath
      /\ m.name = "USER" => user[c].going = Arg(c).path
  BY <1>4, <1>6 DEF Sends, Arg
<1>8. /\ s.state = chan[c].state /\ s.path = chan[c].path /\ k \notin {226, 230, 250}
      /\ s.out = Append(chan[c].out, x)
      /\ s.at = IF k = 331 THEN user[c].going ELSE NoPath
  BY <1>2, <1>7 DEF SaidTo
<1>9. Told(x, user[c], s)
  BY <1>8 DEF Told
<1> QED BY <1>1, <1>2, <1>5, <1>8, <1>9, AnswerStep

\* A request goes to the workers.
LEMMA AskStep ==
    ASSUME TypeInv, NEW c \in Channels, ChannelInv(c), line[c] # <<>>, chan[c].state = "open",
           Head(line[c]).cmd.name # "ABOR",
           NEW s \in Channel, NEW name \in ReqNames, NEW load \in Loads, Asked(c, s, name, load),
           s.state = "open", s.out = chan[c].out, s.path = chan[c].path,
           ~s.authorized => name = "PASS",
           Asks([chan |-> c, to |-> Number(c), name |-> name, load |-> load], user[c], s)
    PROVE  Kept(c)
<1> DEFINE q == [chan |-> c, to |-> Number(c), name |-> name, load |-> load]
<1>1. Here(c)
  BY DEF Here
<1>2. /\ Alone1(c) /\ Number(c) = user[c].owed[1] /\ Tail(line[c]) = <<>>
      /\ Reqs(c) = {} /\ Thunks(c) = {} /\ Active(c) = {} /\ LiveOf(c) = {}
  BY <1>1, FrontIs, FrontAlone
<1>3. Len(user[c].owed) = 1 /\ NoFinal(chan[c].out) /\ Number(c) \in Nat /\ Once(c)
  BY <1>1, <1>2, CommandIs DEF Alone1, ChannelInv
<1>4. Consumed(c) /\ chan' = [chan EXCEPT ![c] = s] /\ requests' = Handed(c, Number(c), name, load)
      /\ UNCHANGED <<dcs, thunks, user>>
  BY DEF Asked
<1>5. /\ Reqs(c)' = {q}
      /\ \A e \in Channels \ {c} : Reqs(e)' = Reqs(e)
  <2>1. /\ Reqs(c)' = Reqs(c) \cup {q}
        /\ \A e \in Channels \ {c} : Reqs(e)' = Reqs(e)
    BY <1>4, ReqsHanded
  <2> HIDE DEF q
  <2> QED BY <2>1, <1>2
<1>6. \A e \in Channels :
          /\ Thunks(e)' = Thunks(e) /\ Once(e)' = Once(e)
          /\ LiveOf(e)' = LiveOf(e) /\ Active(e)' = Active(e)
  BY <1>4 DEF Thunks, Once, LiveOf, Active
<1>7. line'[c] = <<>> /\ \A e \in Channels \ {c} : line'[e] = line[e]
  BY <1>2, <1>4, Consumes
<1>8. chan'[c] = s /\ \A e \in Channels \ {c} : Untouched(e)
  BY <1>4, <1>5, <1>6, <1>7, SomeUntouched
<1>9. Good(user[c], s, <<>>, {q}, {}, {})
  <2>1. /\ GoodType(user[c], chan[c], line[c], Reqs(c), Thunks(c), Active(c))
        /\ Good(user[c], chan[c], line[c], Reqs(c), Thunks(c), Active(c))
    BY <1>1, TypedGood DEF ChannelInv
  <2>2. q.to = user[c].owed[1] /\ Asks(q, user[c], s)
    BY <1>2
  <2> DEFINE x == [to |-> Number(c), code |-> 150]
             Q2 == {q}
  <2>3. x \in Reply /\ x # Bye /\ x.to = user[c].owed[1]
    BY <1>2, <1>3, ReplyIs, CodesAre, SMTT(30)
  <2> HIDE DEF q, x
  <2>4. \A p \in Q2 : p = q
    OBVIOUS
  <2> HIDE DEF Q2
  <2>5. OneThing(user[c].owed[1], <<>>, Q2, {}, {}, <<>>) /\ SameClient(user[c], user[c])
    BY <2>2, <2>4 DEF OneThing, NoFinal, SameClient
  <2>6. \A p \in Q2 : Asks(p, user[c], s)
    BY <2>2, <2>4
  <2>7. Good(user[c], s, <<>>, Q2, {}, {})
    BY <1>3, <2>1, <2>3, <2>5, <2>6, GoodMove
  <2> QED BY <2>7 DEF Q2
<1>10. ChannelInv(c)'
  <2>1. q.name = name
    OBVIOUS
  <2> DEFINE Q2 == {q}
  <2>2. Reqs(c)' = Q2 /\ Good(user[c], s, <<>>, Q2, {}, {}) /\ \A p \in Q2 : p.name = name
    BY <1>5, <1>9
  <2> HIDE DEF q, Q2
  <2>3. /\ Thunks(c)' = {} /\ Once(c)' /\ LiveOf(c)' = {} /\ Active(c)' = {} /\ user'[c] = user[c]
    BY <1>2, <1>3, <1>4, <1>6
  <2>4. ~s.authorized => Len(user[c].owed) # 2 /\ \A p \in Q2 \cup {} : p.name = "PASS"
    BY <2>2, <1>3
  <2> QED BY <2>2, <2>3, <2>4, <1>7, <1>8, Becomes
<1> QED BY <1>8, <1>10 DEF Kept

LEMMA FolderIs ==
    ASSUME NEW m \in Messages, m.name = "CWD"
    PROVE  m.arg.path # NoPath
BY FtpAssumption DEF Messages

LEMMA AskingStep ==
    ASSUME TypeInv, NEW c \in Channels, ChannelInv(c), Asking(c)
    PROVE  Kept(c)
<1>1. /\ line[c] # <<>> /\ chan[c].state = "open" /\ chan[c].authorized
      /\ \E s \in Channel, name \in ReqNames, load \in Loads :
            /\ AskedOf(c, chan[c], s, name, load) /\ Asked(c, s, name, load)
            /\ name = "CWD" => load \in Paths \X Args
  BY AskingEffect
<1>2. PICK s \in Channel, name \in ReqNames, load \in Loads :
            AskedOf(c, chan[c], s, name, load) /\ Asked(c, s, name, load)
  BY <1>1
<1>3. Here(c)
  BY <1>1 DEF Here
<1> DEFINE m == Head(line[c]).cmd
           q == [chan |-> c, to |-> Number(c), name |-> name, load |-> load]
<1>4. /\ m.name \notin {"PASS", "ABOR"} /\ name \notin {"PASS", "STOR"}
      /\ s.state = "open" /\ s.authorized /\ s.out = chan[c].out /\ s.path = chan[c].path /\ s.at = chan[c].at
      /\ name = "CWD" => m.name = "CWD" /\ load[1] = m.arg.path
      /\ name \in {"RETR", "LIST"} => m.name = name /\ load = <<chan[c].path, m.arg>>
      /\ name = "RETR" => s.producers = load
  BY <1>1, <1>2 DEF AskedOf, SameLogin
<1>5. /\ Sends(Head(line[c]), user[c], chan[c]) /\ Alone1(c)
      /\ m \in Messages /\ Head(line[c]).to = Number(c)
  BY <1>1, <1>3, <1>4, FrontIs, FrontAlone, CommandIs DEF Number
<1>6. /\ s.at = NoPath
      /\ name = "CWD" => load[1] = user[c].going /\ user[c].going # NoPath
      /\ name \in {"RETR", "LIST"} => user[c].want = <<Number(c), load>>
  <2>1. s.at = NoPath
    BY <1>4, <1>5 DEF Sends
  <2>2. name = "CWD" => load[1] = user[c].going /\ user[c].going # NoPath
    BY <1>4, <1>5, FolderIs DEF Sends
  <2>3. name \in {"RETR", "LIST"} => user[c].want = <<Number(c), load>>
    BY <1>4, <1>5 DEF Sends, Alone1
  <2> QED BY <2>1, <2>2, <2>3
<1>7. Asks(q, user[c], s)
  BY <1>4, <1>6 DEF Asks
<1> QED BY <1>1, <1>2, <1>4, <1>7, AskStep

LEMMA PassStep ==
    ASSUME TypeInv, NEW c \in Channels, ChannelInv(c), Cmd_pass(c)
    PROVE  Kept(c)
<1>1. /\ line[c] # <<>> /\ chan[c].state = "open" /\ Head(line[c]).cmd.name = "PASS"
      /\ \E s \in Channel :
            \/ \E load \in Loads : PassAsked(c, chan[c], s, load)
            \/ PassLetIn(c, chan[c], s)
            \/ PassRefused(c, chan[c], s)
  BY PassEffect
<1>2. PICK s \in Channel :
            \/ \E load \in Loads : PassAsked(c, chan[c], s, load)
            \/ PassLetIn(c, chan[c], s)
            \/ PassRefused(c, chan[c], s)
  BY <1>1
<1>3. Here(c) /\ Head(line[c]).cmd.name # "ABOR"
  BY <1>1 DEF Here
<1>4. chan[c].at = user[c].going
  BY <1>1, <1>3, FrontAlone DEF Sends
<1>5. ASSUME NEW load \in Loads, PassAsked(c, chan[c], s, load) PROVE Kept(c)
  <2> DEFINE q == [chan |-> c, to |-> Number(c), name |-> "PASS", load |-> load]
  <2>1. /\ Asked(c, s, "PASS", load) /\ load[1] = user[c].going /\ user[c].going # NoPath
        /\ s.at = NoPath /\ ~s.anonymous /\ s.out = chan[c].out /\ s.path = chan[c].path /\ s.state = "open"
    BY <1>1, <1>4, <1>5 DEF PassAsked, SameLogin
  <2>2. Asks(q, user[c], s)
    BY <2>1 DEF Asks
  <2>3. "PASS" \in ReqNames
    BY DEF ReqNames
  <2> QED BY <1>1, <1>3, <2>1, <2>2, <2>3, AskStep
<1>6. CASE PassLetIn(c, chan[c], s)
  <2>1. /\ Answered(c, s) /\ s.out = Append(chan[c].out, [to |-> Number(c), code |-> 230])
        /\ s.state = "open" /\ s.at = NoPath /\ s.path = chan[c].path /\ user[c].going = NoPath
    BY <1>1, <1>4, <1>6 DEF PassLetIn
  <2>2. Told([to |-> Number(c), code |-> 230], user[c], s)
    BY <2>1 DEF Told
  <2> QED BY <1>1, <1>3, <2>1, <2>2, CodesAre, AnswerStep, ZenonT(40)
<1>7. CASE PassRefused(c, chan[c], s)
  <2>1. /\ Answered(c, CloseWhenDone(s)) /\ s.out = Append(chan[c].out, [to |-> Number(c), code |-> 421])
        /\ s.state = "open" /\ s.at = NoPath /\ s.path = chan[c].path
    BY <1>1, <1>4, <1>7 DEF PassRefused, SameButOut
  <2>2. Told([to |-> Number(c), code |-> 421], user[c], s)
    BY <2>1 DEF Told
  <2>3. s.path = IF 421 \in {230, 250} /\ user[c].going # NoPath THEN user[c].going ELSE chan[c].path
    BY <2>1
  <2>4. 421 \in Codes
    BY CodesAre
  <2> QED BY <1>1, <1>3, <2>1, <2>2, <2>3, <2>4, AnswerStep
<1> QED BY <1>2, <1>5, <1>6, <1>7

\* The command is answered, whatever happens to a data channel that was not live.
LEMMA EndStep ==
    ASSUME TypeInv, NEW c \in Channels, ChannelInv(c), line[c] # <<>>, chan[c].state = "open",
           Head(line[c]).cmd.name # "ABOR" \/ Len(user[c].owed) = 1,
           NEW s, chan' = [chan EXCEPT ![c] = s], Consumed(c), UNCHANGED <<requests, thunks, user>>,
           \A e \in Channels : LiveOf(e)' = LiveOf(e) /\ Active(e)' = Active(e),
           Good(user[c], s, <<>>, {}, {}, {}), s.state = "open"
    PROVE  Kept(c)
<1>1. Here(c)
  BY DEF Here
<1>2. /\ Alone1(c) /\ Tail(line[c]) = <<>>
      /\ Reqs(c) = {} /\ Thunks(c) = {} /\ Active(c) = {} /\ LiveOf(c) = {}
  BY <1>1, FrontIs, FrontAlone
<1>3. Once(c) /\ (~s.authorized => Len(user[c].owed) # 2)
  BY <1>1, <1>2 DEF Alone1, ChannelInv
<1>4. \A e \in Channels : Reqs(e)' = Reqs(e) /\ Thunks(e)' = Thunks(e) /\ Once(e)' = Once(e)
  BY DEF Reqs, Thunks, Once
<1>5. line'[c] = <<>> /\ \A e \in Channels \ {c} : line'[e] = line[e]
  BY <1>2, Consumes
<1>6. chan'[c] = s /\ \A e \in Channels \ {c} : Untouched(e)
  BY <1>4, <1>5, SomeUntouched
<1>7. /\ Reqs(c)' = {} /\ Thunks(c)' = {} /\ Once(c)' /\ LiveOf(c)' = {} /\ Active(c)' = {}
      /\ user'[c] = user[c]
  BY <1>2, <1>3, <1>4
<1>8. ChannelInv(c)'
  BY <1>3, <1>5, <1>6, <1>7, Rests
<1> QED BY <1>6, <1>8 DEF Kept

LEMMA FailedStep ==
    ASSUME TypeInv, DataInv, NEW c \in Channels, ChannelInv(c), Cmd_rnto(c), Failed(c)
    PROVE  Kept(c)
<1> DEFINE r == chan[c]
           n == Number(c)
           s == Respond(r, n, 451)
<1>1. line[c] # <<>> /\ Head(line[c]).cmd.name = "RNTO" /\ n \in Nat /\ r \in Channel /\ r.state = "open"
  <2>1. Ready(c, {"RNTO"})
    BY DEF Cmd_rnto
  <2> QED BY <2>1, LineIs
<1>2. Here(c) /\ Head(line[c]).cmd.name # "ABOR"
  BY <1>1 DEF Here
<1>3. /\ LiveOf(c) = {} /\ r.at = NoPath
  BY <1>1, <1>2, FrontAlone DEF Sends
<1>4. /\ ClosedData(r) = r
      /\ dcs' = DcsWithout(r.dc) => \A e \in Channels : LiveOf(e)' = LiveOf(e) /\ Active(e)' = Active(e)
  BY <1>1, <1>3, Idle
<1>5. /\ Consumed(c) /\ chan' = [chan EXCEPT ![c] = s] /\ dcs' = DcsWithout(r.dc)
      /\ UNCHANGED <<requests, thunks, user>>
  BY <1>4 DEF Failed
<1>6. s.out = Append(r.out, [to |-> n, code |-> 451]) /\ s.state = "open" /\ s.at = NoPath /\ s.path = r.path
  <2>1. s.out = Append(r.out, [to |-> n, code |-> 451]) /\ SameButOut(r, s)
    <3>1. 451 \in Codes
      BY CodesAre
    <3> HIDE DEF r, n
    <3> QED BY <1>1, <3>1, RespondIs
  <2> HIDE DEF s
  <2> QED BY <2>1, <1>1, <1>3 DEF SameButOut
<1> HIDE DEF s
<1>7. Told([to |-> n, code |-> 451], user[c], s)
  BY <1>6 DEF Told
<1>8. Good(user[c], s, <<>>, {}, {}, {})
  <2>1. s.path = IF 451 \in {230, 250} /\ user[c].going # NoPath THEN user[c].going ELSE chan[c].path
    BY <1>6
  <2>2. 451 \in Codes
    BY CodesAre
  <2> QED BY <1>1, <1>2, <1>6, <1>7, <2>1, <2>2, AnswerGood
<1> QED BY <1>1, <1>2, <1>4, <1>5, <1>6, <1>8, EndStep

\* A data channel that is not live becomes c's.
LEMMA UnusedIsQuiet ==
    ASSUME TypeInv, NEW d \in Unused
    PROVE  d \in Dcs /\ ~Alive(dcs[d])
BY DEF Unused, Alive

LEMMA NewDataAlive ==
    ASSUME TypeInv, NEW c \in Channels, NEW r \in Channel, NEW kind, NEW n, NEW load
    PROVE  LET w == NewData(c, r, kind, n, load) IN Alive(w) /\ w.chan = c /\ w.to = n /\ w.load = load
BY DEF Alive, NewData, SocketOf, Channel

LEMMA StorStep ==
    ASSUME TypeInv, NEW c \in Channels, ChannelInv(c), Cmd_stor(c)
    PROVE  Kept(c)
<1> DEFINE r == chan[c]
           n == Number(c)
           m == Head(line[c]).cmd
           u == user[c]
           load == <<r.path, Arg(c)>>
<1>1. line[c] # <<>> /\ m.name = "STOR" /\ n \in Nat /\ r \in Channel /\ r.state = "open" /\ r.authorized
  <2>1. Ready(c, {"STOR"})
    BY DEF Cmd_stor
  <2>2. r.authorized
    BY <2>1 DEF Ready
  <2> QED BY <2>1, <2>2, LineIs
<1>2. Here(c) /\ m.name # "ABOR"
  BY <1>1 DEF Here
<1>3. /\ Alone1(c) /\ n = u.owed[1] /\ Tail(line[c]) = <<>>
      /\ Reqs(c) = {} /\ Thunks(c) = {} /\ Active(c) = {} /\ LiveOf(c) = {}
      /\ Sends(Head(line[c]), u, r)
  BY <1>1, <1>2, FrontIs, FrontAlone
<1>4. r.at = NoPath /\ u.want = <<n, load>>
  BY <1>1, <1>3 DEF Sends, Alone1, Number, Arg
<1>5. CASE r.restart
  <2> DEFINE s == Respond(r, n, 553)
  <2>1. Answered(c, s)
    BY <1>5 DEF Cmd_stor
  <2>2. 553 \in Codes
    BY CodesAre
  <2>3. s \in Channel /\ s.out = Append(r.out, [to |-> n, code |-> 553]) /\ SameButOut(r, s)
    <3> HIDE DEF r, n
    <3> QED BY <1>1, <2>2, RespondIs
  <2> HIDE DEF s
  <2>4. s.state = "open" /\ s.at = NoPath /\ s.path = r.path
    BY <1>1, <1>4, <2>3 DEF SameButOut
  <2>5. Told([to |-> n, code |-> 553], u, s)
    BY <2>4 DEF Told
  <2>6. s.path = IF 553 \in {230, 250} /\ u.going # NoPath THEN u.going ELSE r.path
    BY <2>4
  <2> QED BY <1>1, <1>2, <2>1, <2>2, <2>3, <2>4, <2>5, <2>6, AnswerStep
<1>6. CASE ~r.restart
  <2>1. PICK d \in Unused : /\ chan' = [chan EXCEPT ![c] = Made(Respond(r, n, 150), d)]
                            /\ dcs' = [dcs EXCEPT ![d] = NewData(c, r, "recv", n, load)]
                            /\ Consumed(c) /\ UNCHANGED <<requests, thunks, user>>
    BY <1>6, UnusedIs, ZenonT(40) DEF Cmd_stor
  <2> DEFINE g == Respond(r, n, 150)
             s == Made(g, d)
             w == NewData(c, r, "recv", n, load)
             x == [to |-> n, code |-> 150]
  <2>2. d \in Dcs /\ ~Alive(dcs[d])
    BY UnusedIsQuiet
  <2>3. 150 \in Codes
    BY CodesAre
  <2>4. g \in Channel /\ g.out = Append(r.out, x) /\ SameButOut(r, g)
    <3> HIDE DEF r, n
    <3> QED BY <1>1, <2>3, RespondIs
  <2>5. s.dc = d /\ s.out = g.out /\ SameButOut([g EXCEPT !.dc = d, !.pasv = s.pasv], s)
    <3> HIDE DEF g
    <3> QED BY <2>2, <2>4, MadeIs
  <2>6. Alive(w) /\ w.chan = c /\ w.to = n /\ w.load = load
    <3> HIDE DEF r, n, load
    <3> QED BY <1>1, NewDataAlive
  <2>7. s.out = Append(r.out, x) /\ s.at = NoPath /\ s.path = r.path /\ s.state = "open" /\ s.authorized
    <3> HIDE DEF s
    <3>1. s.at = g.at /\ s.path = g.path /\ s.state = g.state /\ s.authorized = g.authorized
      BY <2>4, <2>5 DEF SameButOut, Channel
    <3> HIDE DEF g
    <3> QED BY <3>1, <1>1, <1>4, <2>4, <2>5 DEF SameButOut
  <2>8. dcs' = [dcs EXCEPT ![d] = w] /\ chan' = [chan EXCEPT ![c] = s]
    BY <2>1
  <2>9. x \in Reply /\ x # Bye /\ x.to = u.owed[1] /\ x.code = 150
    BY <1>1, <1>3, <2>3, ReplyIs
  <2> HIDE DEF s, w, x, g
  <2> DEFINE A2 == {w}
  <2>10. /\ \A e \in Channels \ {c} : LiveOf(e)' = LiveOf(e) /\ Active(e)' = Active(e)
         /\ LiveOf(c)' = {d} /\ Active(c)' = A2
    <3>1. LiveOf(c) \subseteq {d}
      BY <1>3
    <3>2. /\ \A e \in Channels \ {c} : LiveOf(e)' = LiveOf(e) /\ Active(e)' = Active(e)
          /\ LiveOf(c) \subseteq {d} =>
                /\ Alive(w) => LiveOf(c)' = {d} /\ Active(c)' = {w}
                /\ ~Alive(w) => LiveOf(c)' = {} /\ Active(c)' = {}
      BY <2>2, <2>6, <2>8, LiveChanged
    <3> QED BY <3>1, <3>2, <2>6
  <2>11. \A a \in A2 : a = w
    OBVIOUS
  <2> HIDE DEF A2
  <2>12. Good(u, s, <<>>, {}, {}, A2)
    <3>1. OneThing(u.owed[1], <<>>, {}, {}, A2, <<>>) /\ SameClient(u, u)
      BY <1>3, <2>6, <2>11 DEF OneThing, NoFinal, SameClient
    <3>2. \A a \in A2 : Carries(a, u, s)
      BY <1>4, <2>6, <2>7, <2>11 DEF Carries
    <3>3. Told(x, u, s) /\ ~(x.code >= 200)
      BY <2>9 DEF Told
    <3>4. /\ GoodType(u, r, line[c], Reqs(c), Thunks(c), Active(c))
          /\ Good(u, r, line[c], Reqs(c), Thunks(c), Active(c))
          /\ Len(u.owed) = 1 /\ NoFinal(r.out)
      BY <1>2, <1>3, TypedGood DEF ChannelInv, Alone1
    <3>5. s.path = IF x.code \in {230, 250} /\ u.going # NoPath THEN u.going ELSE r.path
      BY <2>7, <2>9
    <3> HIDE DEF u, r
    <3> QED BY <2>7, <2>9, <3>1, <3>2, <3>3, <3>4, <3>5, GoodMove
  <2>13. \A e \in Channels : Reqs(e)' = Reqs(e) /\ Thunks(e)' = Thunks(e) /\ Once(e)' = Once(e)
    BY <2>1 DEF Reqs, Thunks, Once
  <2>14. line'[c] = <<>> /\ (\A e \in Channels \ {c} : line'[e] = line[e]) /\ user' = user
    BY <1>3, <2>1, Consumes
  <2>15. chan'[c] = s /\ \A e \in Channels \ {c} : Untouched(e)
    BY <2>8, <2>10, <2>13, <2>14, SomeUntouched
  <2>16. ChannelInv(c)'
    <3>1. Reqs(c)' = {} /\ Thunks(c)' = {} /\ Once(c)' /\ user'[c] = u
      BY <1>2, <1>3, <2>13, <2>14 DEF ChannelInv
    <3>2. {d} \subseteq {s.dc} /\ s.state # "none" /\ s.authorized
      BY <2>5, <2>7
    <3> QED BY <2>10, <2>12, <2>14, <2>15, <3>1, <3>2, Becomes
  <2> QED BY <2>15, <2>16 DEF Kept
<1> QED BY <1>5, <1>6

\* What ABOR leaves, whatever went on: nothing.
LEMMA AborEnds ==
    ASSUME TypeInv, NEW c \in Channels, ChannelInv(c), chan[c].state = "open", chan[c].authorized,
           line[c] # <<>>, Reqs(c) = {}, Thunks(c) = {},
           NEW s, s.state = "open", s.authorized,
           chan' = [chan EXCEPT ![c] = s], Consumed(c), UNCHANGED <<requests, thunks, user>>,
           \A e \in Channels \ {c} : LiveOf(e)' = LiveOf(e) /\ Active(e)' = Active(e),
           LiveOf(c)' = {}, Active(c)' = {},
           Good(user[c], s, <<>>, {}, {}, {})
    PROVE  Kept(c)
<1>1. Here(c)
  BY DEF Here
<1>2. Len(line[c]) <= 1 /\ line[c] \in Seq(Command)
  BY <1>1, OwedAre, TypedGood
<1>3. Tail(line[c]) = <<>>
  BY <1>2, OneTail
<1>4. line'[c] = <<>> /\ \A e \in Channels \ {c} : line'[e] = line[e]
  BY <1>3, Consumes
<1>5. \A e \in Channels : Reqs(e)' = Reqs(e) /\ Thunks(e)' = Thunks(e) /\ Once(e)' = Once(e)
  BY DEF Reqs, Thunks, Once
<1>6. chan'[c] = s /\ \A e \in Channels \ {c} : Untouched(e)
  BY <1>4, <1>5, SomeUntouched
<1>7. Reqs(c)' = {} /\ Thunks(c)' = {} /\ Once(c)' /\ user'[c] = user[c]
  BY <1>1, <1>5 DEF ChannelInv
<1>8. ChannelInv(c)'
  BY <1>4, <1>6, <1>7, Rests
<1> QED BY <1>6, <1>8 DEF Kept

\* The transfer was over.
LEMMA AborIdle ==
    ASSUME TypeInv, DataInv, NEW c \in Channels, ChannelInv(c), Cmd_abor(c), LiveOf(c) = {}, Active(c) = {}
    PROVE  Kept(c)
<1> DEFINE r == chan[c]
           n == Number(c)
           u == user[c]
           s == Respond(r, n, 226)
           x == [to |-> n, code |-> 226]
<1>1. /\ line[c] # <<>> /\ Head(line[c]).cmd.name = "ABOR" /\ n \in Nat /\ r \in Channel
      /\ r.state = "open" /\ r.authorized /\ Head(line[c]) = line[c][1]
  <2>1. Ready(c, {"ABOR"})
    BY DEF Cmd_abor
  <2>2. r.authorized
    BY <2>1 DEF Ready
  <2> QED BY <2>1, <2>2, LineIs, CommandIs
<1>2. Here(c)
  BY <1>1 DEF Here
<1>3. /\ ClosedData(r) = r /\ ~Raises(r.dc)
      /\ dcs' = DcsWithout(r.dc) => \A e \in Channels : LiveOf(e)' = LiveOf(e) /\ Active(e)' = Active(e)
  BY <1>1, Idle
<1>4. /\ Consumed(c) /\ chan' = [chan EXCEPT ![c] = s] /\ dcs' = DcsWithout(r.dc)
      /\ UNCHANGED <<requests, thunks, user>>
  BY <1>3 DEF Cmd_abor
<1>5. 226 \in Codes
  BY CodesAre
<1>6. s.out = Append(r.out, x) /\ SameButOut(r, s)
  <2> HIDE DEF r, n
  <2> QED BY <1>1, <1>5, RespondIs
<1> HIDE DEF s
<1>7. s.state = "open" /\ s.authorized /\ s.at = r.at /\ s.path = r.path
  BY <1>1, <1>6 DEF SameButOut
<1>8. Sends(Head(line[c]), u, r) /\ Len(u.owed) \in {1, 2}
  BY <1>1, <1>2, OwedAre DEF Knows, Nothing
<1>9. CASE Len(u.owed) = 1
  <2>1. Told(x, u, s)
    BY <1>1, <1>7, <1>8 DEF Told, Sends, Number
  <2>2. s.path = IF 226 \in {230, 250} /\ u.going # NoPath THEN u.going ELSE r.path
    BY <1>7
  <2>3. Good(u, s, <<>>, {}, {}, {})
    BY <1>1, <1>2, <1>5, <1>6, <1>9, <2>1, <2>2, AnswerGood
  <2> QED BY <1>1, <1>3, <1>4, <1>7, <1>9, <2>3, EndStep
<1>10. CASE Len(u.owed) = 2
  <2>1. Reqs(c) = {} /\ Thunks(c) = {}
    BY <1>2, <1>10, OwedAre DEF Aborting
  <2>2. /\ GoodType(u, r, line[c], {}, {}, {})
        /\ Good(u, r, line[c], {}, {}, {})
    BY <1>2, <2>1, TypedGood DEF ChannelInv
  <2>3. x \in Reply /\ x.to = line[c][1].to /\ x.code = 226
    BY <1>1, <1>5, ReplyIs DEF Number
  <2>4. Good(u, s, <<>>, {}, {}, {})
    <3> HIDE DEF u, r, x
    <3> QED BY <1>1, <1>6, <1>7, <1>10, <2>2, <2>3, GoodAbor
  <2>5. /\ \A e \in Channels \ {c} : LiveOf(e)' = LiveOf(e) /\ Active(e)' = Active(e)
        /\ LiveOf(c)' = {} /\ Active(c)' = {}
    BY <1>3, <1>4
  <2> QED BY <1>1, <1>4, <1>7, <2>1, <2>4, <2>5, AborEnds
<1> QED BY <1>8, <1>9, <1>10

\* The transfer is cut off: its end is told, then that of ABOR.
LEMMA AborGoing ==
    ASSUME TypeInv, DataInv, NEW c \in Channels, ChannelInv(c), Cmd_abor(c), NEW d \in LiveOf(c)
    PROVE  Kept(c)
<1> DEFINE r == chan[c]
           n == Number(c)
           u == user[c]
           g == ClosedData(r)
           s == Respond(g, n, 226)
           x == [to |-> n, code |-> 226]
<1>1. /\ line[c] # <<>> /\ Head(line[c]).cmd.name = "ABOR" /\ n \in Nat /\ r \in Channel
      /\ r.state = "open" /\ r.authorized /\ Head(line[c]) = line[c][1]
  <2>1. Ready(c, {"ABOR"})
    BY DEF Cmd_abor
  <2>2. r.authorized
    BY <2>1 DEF Ready
  <2> QED BY <2>1, <2>2, LineIs, CommandIs
<1>2. Here(c)
  BY <1>1 DEF Here
<1>3. /\ d = r.dc /\ LiveOf(c) = {d} /\ Active(c) = {dcs[d]} /\ Reqs(c) = {} /\ Thunks(c) = {}
      /\ Len(u.owed) \in {1, 2} /\ (Len(u.owed) = 1 => line[c] = <<>>)
  BY <1>2, Going
<1>4. Len(u.owed) = 2
  BY <1>1, <1>3
<1>5. dcs[d].state = "open" /\ d \in Dcs /\ dcs[d] \in Data /\ dcs[d].chan = c /\ d # NoDc
  <2>1. dcs[d].state = "open"
    BY <1>2, <1>3, <1>4, OwedAre DEF Aborting
  <2> QED BY <2>1, FtpAssumption DEF LiveOf, TypeInv
<1>6. ~Raises(d)
  BY <1>5 DEF Raises
<1>7. /\ Consumed(c) /\ chan' = [chan EXCEPT ![c] = s] /\ dcs' = DcsWithout(d)
      /\ UNCHANGED <<requests, thunks, user>>
  BY <1>3, <1>6 DEF Cmd_abor
<1>8. /\ g \in Channel /\ SameLogin(r, g) /\ g.at = r.at /\ g.path = r.path /\ g.producers = r.producers
      /\ g.anonymous = r.anonymous
      /\ dcs[d].kind = "recv" => g = r
      /\ dcs[d].kind = "xmit" => g.out = Append(r.out, [to |-> dcs[d].to, code |-> 426])
  <2> HIDE DEF r
  <2>1. r.dc = d /\ r \in Channel /\ d # NoDc /\ r.state = "open"
    BY <1>1, <1>3, <1>5
  <2> QED BY <2>1, ClosedIs
<1>9. 226 \in Codes /\ 426 \in Codes
  BY CodesAre
<1>10. s.out = Append(g.out, x) /\ SameButOut(g, s)
  <2> HIDE DEF g, n
  <2> QED BY <1>1, <1>8, <1>9, RespondIs, SMTT(30)
<1> HIDE DEF s
<1>11. \E w : dcs' = [dcs EXCEPT ![d] = w] /\ ~Alive(w)
  <2>1. CASE dcs[d].kind = "xmit"
    <3>1. dcs' = [dcs EXCEPT ![d] = NoData]
      BY <1>5, <1>7, <2>1 DEF DcsWithout
    <3>2. ~Alive(NoData)
      BY DEF Alive, NoData
    <3> QED BY <3>1, <3>2
  <2>2. CASE dcs[d].kind = "recv"
    <3> DEFINE w == [dcs[d] EXCEPT !.state = "shut"]
    <3>1. dcs' = [dcs EXCEPT ![d] = w]
      BY <1>5, <1>6, <1>7, <2>2 DEF DcsWithout
    <3>2. ~Alive(w)
      BY <1>5 DEF Alive, Data
    <3> HIDE DEF w
    <3> QED BY <3>1, <3>2
  <2> QED BY <1>5, <2>1, <2>2 DEF Data
<1>12. /\ \A e \in Channels \ {c} : LiveOf(e)' = LiveOf(e) /\ Active(e)' = Active(e)
       /\ LiveOf(c)' = {} /\ Active(c)' = {}
  <2>1. PICK w : dcs' = [dcs EXCEPT ![d] = w] /\ ~Alive(w)
    BY <1>11
  <2>2. /\ \A e \in Channels \ {c} : LiveOf(e)' = LiveOf(e) /\ Active(e)' = Active(e)
        /\ LiveOf(c) \subseteq {d} =>
              /\ Alive(w) => LiveOf(c)' = {d} /\ Active(c)' = {w}
              /\ ~Alive(w) => LiveOf(c)' = {} /\ Active(c)' = {}
    BY <1>5, <2>1, LiveChanged
  <2> QED BY <1>3, <2>1, <2>2
<1> DEFINE A == {dcs[d]}
<1>13. dcs[d] \in A /\ \A a \in A : a = dcs[d]
  OBVIOUS
<1>14. /\ GoodType(u, r, line[c], {}, {}, A)
       /\ Good(u, r, line[c], {}, {}, A)
  BY <1>2, <1>3, TypedGood DEF ChannelInv
<1> HIDE DEF A
<1>15. Good(u, g, line[c], {}, {}, {})
  <2>1. CASE dcs[d].kind = "xmit"
    <3> DEFINE y == [to |-> dcs[d].to, code |-> 426]
    <3>1. y \in Reply /\ y.to = dcs[d].to /\ y.code = 426
      BY <1>5, <1>9, ReplyIs DEF Data
    <3>2. g.out = Append(r.out, y)
      BY <1>8, <2>1
    <3>3. SameClient(u, u)
      BY DEF SameClient
    <3> HIDE DEF y, u, r, g
    <3> QED BY <1>8, <1>13, <1>14, <3>1, <3>2, <3>3, GoodDataEnd
  <2>2. CASE dcs[d].kind = "recv"
    <3>1. g = r
      BY <1>8, <2>2
    <3> HIDE DEF u, r, g
    <3> QED BY <1>14, <3>1, GoodConnect
  <2> QED BY <1>5, <2>1, <2>2 DEF Data
<1>16. GoodType(u, g, line[c], {}, {}, {})
  <2>1. u \in Client /\ line[c] \in Seq(Command)
    BY TypedGood
  <2> HIDE DEF u, g
  <2> QED BY <1>8, <2>1, GoodTypeOf
<1>17. s.at = g.at /\ s.path = g.path /\ s.state = "open" /\ s.authorized
  <2> HIDE DEF g
  <2> QED BY <1>1, <1>8, <1>10 DEF SameButOut, SameLogin
<1>18. Good(u, s, <<>>, {}, {}, {})
  <2>1. x \in Reply /\ x.to = line[c][1].to /\ x.code = 226
    BY <1>1, <1>9, ReplyIs DEF Number
  <2> HIDE DEF u, g, x
  <2> QED BY <1>1, <1>4, <1>10, <1>15, <1>16, <1>17, <2>1, GoodAbor
<1> QED BY <1>1, <1>3, <1>7, <1>12, <1>17, <1>18, AborEnds

LEMMA HandleStep ==
    ASSUME TypeInv, DataInv, NEW c \in Channels, ChannelInv(c), Handle(c)
    PROVE  Kept(c)
<1>1. CASE Simple(c)
  BY <1>1, SimpleStep
<1>2. CASE Asking(c)
  BY <1>2, AskingStep
<1>3. CASE Cmd_pass(c)
  BY <1>3, PassStep
<1>4. CASE Cmd_stor(c)
  BY <1>4, StorStep
<1>5. CASE Cmd_abor(c)
  <2>1. CASE LiveOf(c) = {}
    <3>1. Active(c) = {}
      BY <2>1 DEF Active
    <3> QED BY <1>5, <2>1, <3>1, AborIdle
  <2>2. CASE LiveOf(c) # {}
    <3>1. PICK d \in LiveOf(c) : TRUE
      BY <2>2
    <3> QED BY <1>5, <3>1, AborGoing
  <2> QED BY <2>1, <2>2
<1>6. CASE Cmd_rnto(c) /\ chan[c].from = NoLoad
  <2>1. Failed(c)
    BY <1>6 DEF Cmd_rnto
  <2> QED BY <1>6, <2>1, FailedStep
<1> QED BY <1>1, <1>2, <1>3, <1>4, <1>5, <1>6 DEF Handle, Simple, Asking

-----------------------------------------------------------------------------
(* The steps of the clients                                                *)

LEMMA SendKeeps ==
    ASSUME Urgent = FALSE, TypeInv, NEW c \in Channels, ChannelInv(c), NEW m \in user[c].plan, Send(c, m)
    PROVE  Kept(c)
<1> DEFINE u == user[c]
           n == NewNumber(c)
           ln2 == Append(line[c], [to |-> n, cmd |-> m])
           v == [u EXCEPT !.owed = Append(@, n),
                          !.want = IF m.name \in {"RETR", "LIST", "STOR"} THEN <<n, <<u.cwd, m.arg>>>> ELSE @,
                          !.going = IF m.name \in {"CWD", "USER"} THEN m.arg.path ELSE @]
<1>1. /\ chan[c].state = "open" /\ UNCHANGED <<chan, dcs, requests, thunks>>
      /\ IF m.name = "ABOR" THEN Len(u.owed) = 1 /\ Transferring(c)
         ELSE u.owed = <<>> /\ (m.name = "PASS" \/ u.going = NoPath)
  BY DEF Send
<1>2. Here(c) /\ m \in Messages /\ u \in Client /\ u.owed \in Seq(Nat) /\ n \in Nat /\ n \notin ToSet(u.owed)
  BY <1>1, SendType, TypedGood, FreshNumber DEF Here
<1>3. line' = [line EXCEPT ![c] = ln2] /\ user' = [user EXCEPT ![c] = v]
  <2>1. /\ line' = [line EXCEPT ![c] = Append(@, [to |-> n, cmd |-> m])]
        /\ user' = [user EXCEPT ![c] = v]
    BY DEF Send
  <2>2. line' = [line EXCEPT ![c] = ln2]
    BY <2>1
  <2> QED BY <2>1, <2>2
<1>4. /\ v.owed = Append(u.owed, n) /\ v.cwd = u.cwd /\ v.got = u.got
      /\ v.want = (IF m.name \in {"RETR", "LIST", "STOR"} THEN <<n, <<u.cwd, m.arg>>>> ELSE u.want)
      /\ v.going = (IF m.name \in {"CWD", "USER"} THEN m.arg.path ELSE u.going)
  <2> HIDE DEF u, n
  <2> QED BY <1>2 DEF Client
<1> HIDE DEF v, ln2
<1>5. /\ line'[c] = ln2 /\ user'[c] = v /\ chan'[c] = chan[c]
      /\ \A e \in Channels \ {c} : line'[e] = line[e] /\ user'[e] = user[e] /\ chan'[e] = chan[e]
  BY <1>1, <1>3 DEF TypeInv
<1>6. \A e \in Channels :
          /\ Reqs(e)' = Reqs(e) /\ Thunks(e)' = Thunks(e) /\ Once(e)' = Once(e)
          /\ LiveOf(e)' = LiveOf(e) /\ Active(e)' = Active(e)
  BY <1>1, SameOthers
<1>7. \A e \in Channels \ {c} : Untouched(e)
  BY <1>5, <1>6 DEF Untouched
<1>8. /\ GoodType(u, chan[c], line[c], Reqs(c), Thunks(c), Active(c))
      /\ Good(u, chan[c], line[c], Reqs(c), Thunks(c), Active(c))
      /\ Once(c) /\ LiveOf(c) \subseteq {chan[c].dc} /\ LetInFirst(c)
  BY <1>2, TypedGood DEF ChannelInv
<1>9. ASSUME Good(v, chan[c], ln2, Reqs(c), Thunks(c), Active(c)), ~chan[c].authorized => Len(v.owed) # 2
      PROVE  ChannelInv(c)'
  <2>1. ~chan[c].authorized =>
            Len(v.owed) # 2 /\ Active(c) = {} /\ \A q \in Reqs(c) \cup Thunks(c) : q.name = "PASS"
    BY <1>8, <1>9 DEF LetInFirst
  <2> QED BY <1>1, <1>5, <1>6, <1>8, <1>9, <2>1, Becomes
<1>10. Len(v.owed) = Len(u.owed) + 1
  BY <1>2, <1>4, AppendOwed
<1>11. CASE m.name # "ABOR"
  <2>1. u.owed = <<>> /\ (m.name = "PASS" \/ u.going = NoPath)
    BY <1>1, <1>11
  <2>2. Good(v, chan[c], ln2, Reqs(c), Thunks(c), Active(c))
    <3>1. m.name \in {"RETR", "LIST", "STOR"} => v.want = <<n, <<u.cwd, m.arg>>>>
      BY <1>4
    <3> HIDE DEF u, n
    <3> QED BY <1>2, <1>4, <1>8, <1>11, <2>1, <3>1, GoodSend DEF ln2
  <2>3. Len(v.owed) # 2
    <3>1. Len(u.owed) = 0
      BY <2>1
    <3> QED BY <1>10, <3>1
  <2> QED BY <1>7, <1>9, <2>2, <2>3 DEF Kept
<1>12. CASE m.name = "ABOR"
  <2>1. Len(u.owed) = 1 /\ Transferring(c)
    BY <1>1, <1>12
  <2>2. PICK d \in LiveOf(c) : dcs[d].state = "open"
    BY <2>1 DEF Transferring, LiveOf, Alive
  <2>3. Active(c) = {dcs[d]} /\ chan[c].authorized
    BY <1>2, <2>2, Going
  <2>4. n # u.owed[1]
    <3>1. 1 \in DOMAIN u.owed
      BY <1>2, <2>1
    <3>2. ToSet(u.owed) = Range(u.owed)
      BY <1>2, FiniteList
    <3> QED BY <1>2, <3>1, <3>2 DEF Range
  <2>5. Active(c) # {} /\ \A a \in Active(c) : a.state = "open"
    BY <2>2, <2>3
  <2>6. Good(v, chan[c], ln2, Reqs(c), Thunks(c), Active(c))
    <3>1. v.want = u.want /\ v.going = u.going
      BY <1>4, <1>12
    <3> HIDE DEF u, n
    <3> QED BY <1>2, <1>4, <1>8, <1>12, <2>1, <2>4, <2>5, <3>1, GoodSendAbor DEF ln2
  <2> QED BY <1>7, <1>9, <2>3, <2>6 DEF Kept
<1> QED BY <1>11, <1>12

LEMMA FlushKeeps ==
    ASSUME TypeInv, NEW c \in Channels, ChannelInv(c), Flush(c)
    PROVE  Kept(c)
<1> DEFINE u == user[c]
           r == chan[c]
           x == Head(r.out)
           s == [r EXCEPT !.out = Tail(@)]
           v == Read(u, x)
<1>1. /\ r.state = "open" /\ r.out # <<>> /\ x # Bye /\ UNCHANGED <<dcs, requests, thunks, line>>
      /\ chan' = [chan EXCEPT ![c] = s] /\ user' = [user EXCEPT ![c] = v]
  <2>1. chan' = [chan EXCEPT ![c].out = Tail(@)]
    BY DEF Flush
  <2>2. chan' = [chan EXCEPT ![c] = s]
    BY <2>1 DEF TypeInv
  <2>3. user' = [user EXCEPT ![c] = v]
    BY DEF Flush
  <2> QED BY <2>2, <2>3 DEF Flush
<1>2. Here(c) /\ r \in Channel /\ u \in Client
  BY <1>1, TypedGood DEF Here
<1>3. /\ s.out = Tail(r.out) /\ s.at = r.at /\ s.path = r.path /\ s.producers = r.producers
      /\ s.anonymous = r.anonymous /\ s.state = "open" /\ s.authorized = r.authorized /\ s.dc = r.dc
  <2> HIDE DEF r
  <2>1. s.out = Tail(r.out)
    BY <1>2 DEF Channel
  <2> QED BY <1>1, <1>2, <2>1 DEF Channel
<1> HIDE DEF s
<1>4. /\ GoodType(u, r, line[c], Reqs(c), Thunks(c), Active(c))
      /\ Good(u, r, line[c], Reqs(c), Thunks(c), Active(c))
      /\ Once(c) /\ LiveOf(c) \subseteq {r.dc} /\ LetInFirst(c)
  BY <1>2, TypedGood DEF ChannelInv
<1>5. Good(v, s, line[c], Reqs(c), Thunks(c), Active(c))
  <2> HIDE DEF u, r
  <2> QED BY <1>1, <1>3, <1>4, GoodRead
<1>6. ~r.authorized => Len(v.owed) # 2
  <2>1. ASSUME Len(u.owed) # 2 PROVE Len(v.owed) # 2
    <3>1. /\ u.owed \in Seq(Nat) /\ Len(u.owed) \in {1, 2} /\ x.to \in ToSet(u.owed)
      BY <1>1, <1>4, ReadStep DEF GoodType, OrderlyType, Good
    <3>2. v.owed = Left(u.owed, x)
      BY <1>2, <3>1, ReadIs
    <3>3. ToSet(u.owed) = Range(u.owed)
      BY <3>1, FiniteList
    <3>4. Len(After(u.owed, x.to)) = 0
      <4> DEFINE o == u.owed
      <4>1. o \in Seq(Nat) /\ Len(o) \in {1, 2} /\ Len(o) # 2 /\ x.to \in Range(o)
        BY <2>1, <3>1, <3>3
      <4> HIDE DEF o
      <4>2. Len(After(o, x.to)) = 0
        BY <4>1, AfterIs
      <4> QED BY <4>2 DEF o
    <3>5. v.owed = u.owed \/ v.owed = After(u.owed, x.to)
      <4> HIDE DEF v, u, x
      <4> QED BY <3>2 DEF Left
    <3>6. CASE v.owed = u.owed
      BY <2>1, <3>6
    <3>7. CASE v.owed = After(u.owed, x.to)
      <4>1. Len(v.owed) = 0
        BY <3>4, <3>7
      <4> HIDE DEF v
      <4> QED BY <4>1
    <3> QED BY <3>5, <3>6, <3>7
  <2> QED BY <1>4, <2>1 DEF LetInFirst
<1> HIDE DEF v
<1>7. \A e \in Channels :
          /\ Reqs(e)' = Reqs(e) /\ Thunks(e)' = Thunks(e) /\ Once(e)' = Once(e)
          /\ LiveOf(e)' = LiveOf(e) /\ Active(e)' = Active(e)
  BY <1>1, SameOthers
<1>8. user'[c] = v /\ \A e \in Channels \ {c} : user'[e] = user[e]
  BY <1>1 DEF TypeInv
<1>9. chan'[c] = s /\ \A e \in Channels \ {c} : Untouched(e)
  BY <1>1, <1>7, <1>8, SomeUntouched
<1>10. ChannelInv(c)'
  <2>1. ~s.authorized =>
            Len(v.owed) # 2 /\ Active(c) = {} /\ \A q \in Reqs(c) \cup Thunks(c) : q.name = "PASS"
    BY <1>3, <1>4, <1>6 DEF LetInFirst
  <2>2. line'[c] = line[c]
    BY <1>1
  <2> QED BY <1>3, <1>4, <1>5, <1>7, <1>8, <1>9, <2>1, <2>2, Becomes
<1> QED BY <1>9, <1>10 DEF Kept

LEMMA Ended ==
    ASSUME NEW c \in Channels, chan'[c].state \notin {"none", "open"}
    PROVE  ChannelInv(c)'
BY DEF ChannelInv, Here

LEMMA AcceptKeeps ==
    ASSUME TypeInv, NEW c \in Channels, ChannelInv(c), Accept(c)
    PROVE  Kept(c)
<1> DEFINE u == user[c]
           r == chan[c]
           s == NewChannel
<1>1. r.state = "none" /\ chan' = [chan EXCEPT ![c] = s] /\ UNCHANGED <<dcs, requests, thunks, line, user>>
  BY DEF Accept
<1>2. Here(c)
  BY <1>1 DEF Here
<1>3. u.owed = <<>> /\ u.cwd = Home /\ u.going = NoPath /\ Once(c)
  BY <1>1, <1>2 DEF ChannelInv, Begun
<1>4. Nothing(line[c], Reqs(c), Thunks(c), Active(c), r.out)
  <2>1. Len(u.owed) = 0
    BY <1>3
  <2> QED BY <1>2, <2>1, OwedAre
<1>5. line[c] = <<>> /\ Reqs(c) = {} /\ Thunks(c) = {} /\ Active(c) = {} /\ LiveOf(c) = {}
  BY <1>4, NoLive DEF Nothing
<1>6. /\ s.out = <<>> /\ s.at = NoPath /\ s.path = Home /\ s.state = "open"
      /\ u.owed = <<>> /\ Len(u.owed) = 0
  BY <1>3 DEF NewChannel
<1>7. Good(u, s, <<>>, {}, {}, {})
  <2>1. Orderly(u.owed, <<>>, {}, {}, {}, s.out)
    BY <1>6 DEF Orderly, Nothing
  <2>2. ~Moved(u, s.out) /\ AllTold(s.out, u, s)
    BY <1>6 DEF Moved, AllTold
  <2>3. Knows(u, s, <<>>, {}, {}, {})
    BY <1>3, <1>6, <2>2 DEF Knows
  <2> QED BY <2>1, <2>3 DEF Good
<1> HIDE DEF s
<1>8. \A e \in Channels :
          /\ Reqs(e)' = Reqs(e) /\ Thunks(e)' = Thunks(e) /\ Once(e)' = Once(e)
          /\ LiveOf(e)' = LiveOf(e) /\ Active(e)' = Active(e)
  BY <1>1, SameOthers
<1>9. chan'[c] = s /\ \A e \in Channels \ {c} : Untouched(e)
  BY <1>1, <1>8, SomeUntouched
<1>10. /\ line'[c] = <<>> /\ Reqs(c)' = {} /\ Thunks(c)' = {} /\ Once(c)' /\ LiveOf(c)' = {} /\ Active(c)' = {}
       /\ user'[c] = u
  BY <1>1, <1>3, <1>5, <1>8
<1>11. ChannelInv(c)'
  <2>1. Len(u.owed) # 2
    BY <1>6
  <2> QED BY <1>6, <1>7, <1>9, <1>10, <2>1, Rests
<1> QED BY <1>9, <1>11 DEF Kept

\* What was not live and does not come to life
LEMMA LiveKept ==
    ASSUME TypeInv, NEW d \in Dcs, NEW w, dcs' = [dcs EXCEPT ![d] = w], ~Alive(w), ~Alive(dcs[d])
    PROVE  \A e \in Channels : LiveOf(e)' = LiveOf(e) /\ Active(e)' = Active(e)
<1>1. dcs'[d] = w /\ \A e \in Dcs : e # d => dcs'[e] = dcs[e]
  BY DEF TypeInv
<1>2. ASSUME NEW e \in Channels PROVE LiveOf(e)' = LiveOf(e) /\ Active(e)' = Active(e)
  <2>1. LiveOf(e)' = LiveOf(e) /\ d \notin LiveOf(e)
    BY <1>1 DEF LiveOf
  <2>2. \A x \in LiveOf(e) : x \in Dcs /\ x # d /\ dcs'[x] = dcs[x]
    BY <1>1, <2>1 DEF LiveOf
  <2> QED BY <2>1, <2>2 DEF Active
<1> QED BY <1>2

\* A live data channel of c is connected: the channel becomes s.
LEMMA ConnectKeeps ==
    ASSUME TypeInv, NEW c \in Channels, ChannelInv(c), Here(c), NEW d \in LiveOf(c),
           NEW s, chan' = [chan EXCEPT ![c] = s],
           s.state = chan[c].state, s.authorized = chan[c].authorized, s.dc = chan[c].dc,
           s.at = chan[c].at, s.path = chan[c].path, s.out = chan[c].out,
           s.producers = chan[c].producers, s.anonymous = chan[c].anonymous,
           dcs' = [dcs EXCEPT ![d] = [dcs[d] EXCEPT !.state = "open"]],
           UNCHANGED <<requests, thunks, line, user>>
    PROVE  Kept(c)
<1> DEFINE w == [dcs[d] EXCEPT !.state = "open"]
           A2 == {w}
<1>1. /\ chan[c].state = "open" /\ chan[c].authorized /\ d = chan[c].dc
      /\ LiveOf(c) = {d} /\ Active(c) = {dcs[d]}
  BY Going
<1>2. d \in Dcs /\ dcs[d].chan = c /\ Alive(dcs[d]) /\ dcs[d] \in Data
  BY DEF LiveOf, TypeInv
<1>3. w.chan = c /\ Alive(w) /\ w.state = "open" /\ w.to = dcs[d].to /\ w.load = dcs[d].load
  BY <1>2 DEF Alive, Data
<1>4. dcs' = [dcs EXCEPT ![d] = w]
  OBVIOUS
<1>5. A2 # {} /\ A2 = {w} /\ \A b \in A2 : b = w
  OBVIOUS
<1> HIDE DEF w, A2
<1>6. /\ \A e \in Channels \ {c} : LiveOf(e)' = LiveOf(e) /\ Active(e)' = Active(e)
      /\ LiveOf(c)' = {d} /\ Active(c)' = A2
  <2>1. /\ \A e \in Channels \ {c} : LiveOf(e)' = LiveOf(e) /\ Active(e)' = Active(e)
        /\ LiveOf(c) \subseteq {d} =>
              /\ Alive(w) => LiveOf(c)' = {d} /\ Active(c)' = {w}
              /\ ~Alive(w) => LiveOf(c)' = {} /\ Active(c)' = {}
    BY <1>2, <1>3, <1>4, LiveChanged
  <2> QED BY <2>1, <1>1, <1>3, <1>5
<1>7. /\ GoodType(user[c], chan[c], line[c], Reqs(c), Thunks(c), Active(c))
      /\ Good(user[c], chan[c], line[c], Reqs(c), Thunks(c), Active(c))
      /\ Once(c)
  BY TypedGood DEF ChannelInv
<1>8. Good(user[c], s, line[c], Reqs(c), Thunks(c), A2)
  <2>1. Active(c) # {} /\ \A b \in A2 : b.state = "open" /\ \A a \in Active(c) : b.to = a.to /\ b.load = a.load
    BY <1>1, <1>3, <1>5
  <2> QED BY <1>7, <2>1, GoodConnect
<1>9. \A e \in Channels : Reqs(e)' = Reqs(e) /\ Thunks(e)' = Thunks(e) /\ Once(e)' = Once(e)
  BY DEF Reqs, Thunks, Once
<1>10. chan'[c] = s /\ \A e \in Channels \ {c} : Untouched(e)
  BY <1>6, <1>9, SomeUntouched
<1>11. ChannelInv(c)'
  <2>1. {d} \subseteq {s.dc} /\ s.state # "none" /\ s.authorized
    BY <1>1
  <2> QED BY <1>6, <1>7, <1>8, <1>9, <1>10, <2>1, Becomes
<1> QED BY <1>10, <1>11 DEF Kept

LEMMA ArrivesKeeps ==
    ASSUME TypeInv, DataInv, NEW c \in Channels, ChannelInv(c), Arrives(c)
    PROVE  Kept(c)
<1> DEFINE r == chan[c]
           d == chan[c].dc
           p == IF d = NoDc THEN "ready" ELSE "none"
           s == [r EXCEPT !.pasv = p]
<1>1. /\ r.pasv = "listening" /\ r \in Channel /\ UNCHANGED <<requests, thunks, line, user>>
      /\ chan' = [chan EXCEPT ![c] = s]
      /\ IF d = NoDc THEN dcs' = dcs ELSE dcs' = [dcs EXCEPT ![d].state = "open"]
  <2>1. chan' = [chan EXCEPT ![c].pasv = p]
    BY DEF Arrives
  <2>2. chan' = [chan EXCEPT ![c] = s]
    BY <2>1 DEF TypeInv
  <2> QED BY <2>2 DEF Arrives, TypeInv
<1>2. /\ s.state = r.state /\ s.authorized = r.authorized /\ s.dc = r.dc /\ s.at = r.at /\ s.path = r.path
      /\ s.out = r.out /\ s.producers = r.producers /\ s.anonymous = r.anonymous
  <2> HIDE DEF r, p
  <2> QED BY <1>1 DEF Channel
<1> HIDE DEF s, p
<1>3. \A e \in Channels : Reqs(e)' = Reqs(e) /\ Thunks(e)' = Thunks(e) /\ Once(e)' = Once(e)
  BY <1>1 DEF Reqs, Thunks, Once
<1>4. CASE d = NoDc
  <2>1. \A e \in Channels : LiveOf(e)' = LiveOf(e) /\ Active(e)' = Active(e)
    BY <1>1, <1>4, LiveSame
  <2>2. chan'[c] = s /\ \A e \in Channels \ {c} : Untouched(e)
    BY <1>1, <1>3, <2>1, SomeUntouched
  <2>3. CASE Here(c)
    <3>1. /\ GoodType(user[c], r, line[c], Reqs(c), Thunks(c), Active(c))
          /\ Good(user[c], r, line[c], Reqs(c), Thunks(c), Active(c))
          /\ Once(c) /\ LiveOf(c) \subseteq {d} /\ Begun(c) /\ LetInFirst(c)
      BY <2>3, TypedGood DEF ChannelInv
    <3>2. LiveOf(c) = {} /\ Active(c) = {}
      BY <1>4, <3>1, FtpAssumption DEF LiveOf, Active
    <3>3. Good(user[c], s, line[c], Reqs(c), Thunks(c), {})
      <4> DEFINE N == {}
      <4>1. /\ N # {} => Active(c) # {}
            /\ \A b \in N : b.state = "open" /\ \A a \in Active(c) : b.to = a.to /\ b.load = a.load
        OBVIOUS
      <4> HIDE DEF N, r
      <4>2. Good(user[c], s, line[c], Reqs(c), Thunks(c), N)
        BY <1>2, <3>1, <4>1, GoodConnect
      <4> QED BY <4>2 DEF N
    <3>4. /\ Good(user[c], s, line[c], Reqs(c), Thunks(c), Active(c))
          /\ LiveOf(c) \subseteq {s.dc}
      BY <3>2, <3>3
    <3>5. user'[c] = user[c] /\ line'[c] = line[c]
      BY <1>1
    <3>6. ChannelInv(c)'
      BY <1>2, <1>3, <2>1, <2>2, <3>1, <3>4, <3>5 DEF ChannelInv, Begun, LetInFirst
    <3> QED BY <2>2, <3>6 DEF Kept
  <2>4. CASE ~Here(c)
    BY <1>2, <2>2, <2>4, Ended DEF Kept, Here
  <2> QED BY <2>3, <2>4
<1>5. CASE d # NoDc
  <2>1. d \in Dcs /\ dcs[d] \in Data /\ dcs[d].chan = c /\ dcs[d].state = "nosocket" /\ DataOk(dcs[d])
    BY <1>1, <1>5 DEF TypeInv, Channel, DataInv, PointsTo
  <2> DEFINE w == [dcs[d] EXCEPT !.state = "open"]
  <2>2. dcs' = [dcs EXCEPT ![d] = w]
    BY <1>1, <1>5 DEF TypeInv
  <2>3. d \in LiveOf(c)
    BY <2>1 DEF LiveOf, Alive, DataOk
  <2>4. CASE Here(c)
    <3> HIDE DEF d
    <3> QED BY <1>1, <1>2, <2>2, <2>3, <2>4, ConnectKeeps
  <2>5. CASE ~Here(c)
    <3>1. w.chan = c
      BY <2>1 DEF Data
    <3> HIDE DEF w, d
    <3>2. \A e \in Channels \ {c} : LiveOf(e)' = LiveOf(e) /\ Active(e)' = Active(e)
      BY <2>1, <2>2, <3>1, LiveChanged
    <3>3. chan'[c] = s /\ \A e \in Channels \ {c} : Untouched(e)
      BY <1>1, <1>3, <3>2, SomeUntouched
    <3> QED BY <1>2, <2>5, <3>3, Ended DEF Kept, Here
  <2> QED BY <2>4, <2>5
<1> QED BY <1>4, <1>5

LEMMA ConnectedKeeps ==
    ASSUME TypeInv, NEW d \in Dcs, NEW c \in Channels, c = dcs[d].chan, ChannelInv(c), Connected(d)
    PROVE  Kept(c)
<1> DEFINE w == [dcs[d] EXCEPT !.state = "open"]
<1>1. /\ dcs[d].state = "connecting" /\ dcs' = [dcs EXCEPT ![d] = w] /\ dcs[d] \in Data
      /\ UNCHANGED <<chan, requests, thunks, line, user>>
  BY DEF Connected, TypeInv
<1>2. w.chan = c /\ (Alive(w) <=> Alive(dcs[d]))
  BY <1>1 DEF Alive, Data
<1>3. \A e \in Channels : Reqs(e)' = Reqs(e) /\ Thunks(e)' = Thunks(e) /\ Once(e)' = Once(e)
  BY <1>1 DEF Reqs, Thunks, Once
<1>4. CASE Here(c) /\ Alive(dcs[d])
  <2>1. d \in LiveOf(c)
    BY <1>4 DEF LiveOf
  <2>2. chan' = [chan EXCEPT ![c] = chan[c]]
    BY <1>1 DEF TypeInv
  <2> QED BY <1>1, <1>4, <2>1, <2>2, ConnectKeeps
<1>5. CASE ~Alive(dcs[d])
  <2> HIDE DEF w
  <2>1. \A e \in Channels : LiveOf(e)' = LiveOf(e) /\ Active(e)' = Active(e)
    BY <1>1, <1>2, <1>5, LiveKept
  <2>2. \A e \in Channels : Untouched(e)
    BY <1>1, <1>3, <2>1 DEF Untouched
  <2> QED BY <2>2, Frame DEF Kept
<1>6. CASE ~Here(c)
  <2> HIDE DEF w
  <2>1. \A e \in Channels \ {c} : LiveOf(e)' = LiveOf(e) /\ Active(e)' = Active(e)
    BY <1>1, <1>2, LiveChanged
  <2>2. \A e \in Channels \ {c} : Untouched(e)
    BY <1>1, <1>3, <2>1 DEF Untouched
  <2>3. chan'[c].state \notin {"none", "open"}
    BY <1>1, <1>6 DEF Here
  <2> QED BY <2>2, <2>3, Ended DEF Kept
<1> QED BY <1>4, <1>5, <1>6

\* A data channel that sends ends, with everything sent or not.
LEMMA DataEndKeeps ==
    ASSUME TypeInv, DataInv, NEW d \in Dcs, NEW c \in Channels, c = dcs[d].chan, ChannelInv(c),
           dcs[d].kind = "xmit", Alive(dcs[d]), NEW done \in BOOLEAN,
           NEW v, SameClient(user[c], v), done => v.got = dcs[d].load,
           chan' = [chan EXCEPT ![c] = XmitClosed(chan[c], d, done)],
           dcs' = [dcs EXCEPT ![d] = NoData],
           user'[c] = v, \A e \in Channels \ {c} : user'[e] = user[e],
           UNCHANGED <<requests, thunks, line>>
    PROVE  Kept(c)
<1> DEFINE r == chan[c]
           s == XmitClosed(r, d, done)
           k == IF done THEN 226 ELSE 426
           x == [to |-> dcs[d].to, code |-> k]
<1>1. r \in Channel /\ dcs[d] \in Data /\ k \in Codes /\ k \in {226, 426} /\ (k = 226 => done)
  BY CodesAre DEF TypeInv
<1>2. /\ s.dc = NoDc /\ SameButOut([r EXCEPT !.dc = NoDc], s)
      /\ r.state = "open" => s.out = Append(r.out, x)
  <2>1. r \in Channel /\ TypeInv
    BY <1>1
  <2> HIDE DEF r
  <2>2. s.dc = NoDc /\ SameButOut([r EXCEPT !.dc = NoDc], s)
    BY <2>1, XmitClosedIs
  <2>3. s.out = IF r.state = "open" THEN Append(r.out, x) ELSE r.out
    BY <2>1, XmitClosedIs
  <2> HIDE DEF s, x
  <2> QED BY <2>2, <2>3
<1>3. /\ s.state = r.state /\ s.authorized = r.authorized /\ s.at = r.at /\ s.path = r.path
      /\ s.producers = r.producers /\ s.anonymous = r.anonymous
  <2> HIDE DEF r, s
  <2> QED BY <1>1, <1>2 DEF SameButOut, Channel
<1>4. chan' = [chan EXCEPT ![c] = s]
  OBVIOUS
<1>5. x \in Reply /\ x.to = dcs[d].to /\ x.code \in {226, 426} /\ (x.code = 226 => v.got = dcs[d].load)
  <2>1. dcs[d].to \in Nat
    BY <1>1 DEF Data
  <2> HIDE DEF k
  <2> QED BY <2>1, <1>1, ReplyIs
<1> HIDE DEF s, x, k
<1>6. \A e \in Channels : Reqs(e)' = Reqs(e) /\ Thunks(e)' = Thunks(e) /\ Once(e)' = Once(e)
  BY DEF Reqs, Thunks, Once
<1>7. ~Alive(NoData)
  BY DEF Alive, NoData
<1>8. \A e \in Channels \ {c} : LiveOf(e)' = LiveOf(e) /\ Active(e)' = Active(e)
  BY <1>7, LiveChanged
<1>9. chan'[c] = s /\ \A e \in Channels \ {c} : Untouched(e)
  BY <1>4, <1>6, <1>8, SomeUntouched
<1>10. CASE Here(c)
  <2>1. d \in LiveOf(c)
    BY DEF LiveOf
  <2>2. /\ r.state = "open" /\ r.authorized /\ LiveOf(c) = {d} /\ Active(c) = {dcs[d]}
    BY <1>10, <2>1, Going
  <2>3. LiveOf(c)' = {} /\ Active(c)' = {}
    <3>1. LiveOf(c) \subseteq {d} =>
              /\ Alive(NoData) => LiveOf(c)' = {d} /\ Active(c)' = {NoData}
              /\ ~Alive(NoData) => LiveOf(c)' = {} /\ Active(c)' = {}
      BY <1>7, LiveChanged
    <3> QED BY <3>1, <1>7, <2>2
  <2>4. /\ GoodType(user[c], r, line[c], Reqs(c), Thunks(c), Active(c))
        /\ Good(user[c], r, line[c], Reqs(c), Thunks(c), Active(c))
        /\ Once(c)
    BY <1>10, TypedGood DEF ChannelInv
  <2>5. Good(v, s, line[c], Reqs(c), Thunks(c), {})
    <3>1. dcs[d] \in Active(c)
      BY <2>2
    <3>2. s.out = Append(r.out, x)
      BY <1>2, <2>2
    <3> HIDE DEF r
    <3> QED BY <1>3, <1>5, <2>4, <3>1, <3>2, GoodDataEnd
  <2>6. ChannelInv(c)'
    <3>1. s.authorized /\ s.state # "none" /\ {} \subseteq {s.dc} /\ line'[c] = line[c]
      BY <1>3, <2>2
    <3> QED BY <1>6, <1>9, <2>3, <2>4, <2>5, <3>1, Becomes
  <2> QED BY <1>9, <2>6 DEF Kept
<1>11. CASE ~Here(c)
  BY <1>3, <1>9, <1>11, Ended DEF Kept, Here
<1> QED BY <1>10, <1>11

LEMMA TransferredKeeps ==
    ASSUME TypeInv, DataInv, NEW d \in Dcs, NEW c \in Channels, c = dcs[d].chan, ChannelInv(c), Transferred(d)
    PROVE  Kept(c)
<1> DEFINE v == [user[c] EXCEPT !.got = dcs[d].load]
<1>1. /\ dcs[d].kind = "xmit" /\ dcs[d].state = "open" /\ DataOk(dcs[d])
      /\ chan' = [chan EXCEPT ![c] = XmitClosed(@, d, TRUE)] /\ dcs' = [dcs EXCEPT ![d] = NoData]
      /\ user' = [user EXCEPT ![c].got = dcs[d].load] /\ UNCHANGED <<requests, thunks, line>>
  BY DEF Transferred, DataInv
<1>2. Alive(dcs[d])
  BY <1>1 DEF Alive, DataOk
<1>3. chan' = [chan EXCEPT ![c] = XmitClosed(chan[c], d, TRUE)]
  BY <1>1
<1>4. user'[c] = v /\ (\A e \in Channels \ {c} : user'[e] = user[e]) /\ user[c] \in Client
  BY <1>1 DEF TypeInv
<1>5. SameClient(user[c], v) /\ v.got = dcs[d].load
  BY <1>4 DEF SameClient, Client
<1> HIDE DEF v
<1> QED BY <1>1, <1>2, <1>3, <1>4, <1>5, DataEndKeeps

LEMMA LostKeeps ==
    ASSUME TypeInv, DataInv, NEW d \in Dcs, NEW c \in Channels, c = dcs[d].chan, ChannelInv(c), Lost(d)
    PROVE  Kept(c)
<1>1. /\ dcs[d].kind = "xmit" /\ dcs[d].state \in {"open", "connecting"} /\ DataOk(dcs[d])
      /\ chan' = [chan EXCEPT ![c] = XmitClosed(@, d, FALSE)] /\ dcs' = [dcs EXCEPT ![d] = NoData]
      /\ UNCHANGED <<requests, thunks, line, user>>
  BY DEF Lost, DataInv
<1>2. Alive(dcs[d])
  BY <1>1 DEF Alive, DataOk
<1>3. chan' = [chan EXCEPT ![c] = XmitClosed(chan[c], d, FALSE)]
  BY <1>1
<1>4. SameClient(user[c], user[c])
  BY DEF SameClient
<1> QED BY <1>1, <1>2, <1>3, <1>4, DataEndKeeps

\* Everything is received: the request goes to the workers.
LEMMA UploadedKeeps ==
    ASSUME Urgent = FALSE, TypeInv, NEW d \in Dcs, NEW c \in Channels, c = dcs[d].chan, ChannelInv(c), Uploaded(d)
    PROVE  Kept(c)
<1> DEFINE u == user[c]
           r == chan[c]
           w == [dcs[d] EXCEPT !.ended = TRUE]
           q == [chan |-> c, to |-> dcs[d].to, name |-> "STOR", load |-> dcs[d].load]
           Q2 == Reqs(c) \cup {q}
<1>1. /\ dcs[d].state \in {"open", "connecting"} /\ ~dcs[d].ended /\ Len(u.owed) <= 1
      /\ dcs' = [dcs EXCEPT ![d] = w] /\ requests' = Handed(c, dcs[d].to, "STOR", dcs[d].load)
      /\ UNCHANGED <<chan, thunks, line, user>> /\ dcs[d] \in Data
  BY DEF Uploaded, TypeInv
<1>2. Alive(dcs[d]) /\ ~Alive(w) /\ w.chan = c
  BY <1>1 DEF Alive, Data
<1> HIDE DEF w
<1>3. \A e \in Channels \ {c} : LiveOf(e)' = LiveOf(e) /\ Active(e)' = Active(e)
  BY <1>1, <1>2, LiveChanged
<1>4. Reqs(c)' = Q2 /\ \A e \in Channels \ {c} : Reqs(e)' = Reqs(e)
  BY <1>1, ReqsHanded
<1>5. \A e \in Channels : Thunks(e)' = Thunks(e) /\ Once(e)' = Once(e)
  BY <1>1 DEF Thunks, Once
<1>6. \A e \in Channels \ {c} : Untouched(e)
  BY <1>1, <1>3, <1>4, <1>5 DEF Untouched
<1>7. CASE Here(c)
  <2>1. d \in LiveOf(c)
    BY <1>2 DEF LiveOf
  <2>2. /\ r.authorized /\ r.state = "open" /\ LiveOf(c) = {d} /\ Active(c) = {dcs[d]} /\ Reqs(c) = {} /\ Thunks(c) = {}
        /\ Len(u.owed) \in {1, 2} /\ Carries(dcs[d], u, r)
        /\ (Len(u.owed) = 1 => Alone1(c) /\ line[c] = <<>> /\ dcs[d].to = u.owed[1])
    BY <1>7, <2>1, Going
  <2>3. Len(u.owed) = 1 /\ NoFinal(r.out) /\ line[c] = <<>> /\ dcs[d].to = u.owed[1]
    <3>1. Len(u.owed) = 1
      <4>1. \A n \in {1, 2} : n <= 1 => n = 1
        OBVIOUS
      <4> QED BY <1>1, <2>2, <4>1
    <3> QED BY <2>2, <3>1 DEF Alone1
  <2>4. LiveOf(c)' = {} /\ Active(c)' = {}
    <3>1. LiveOf(c) \subseteq {d} =>
              /\ Alive(w) => LiveOf(c)' = {d} /\ Active(c)' = {w}
              /\ ~Alive(w) => LiveOf(c)' = {} /\ Active(c)' = {}
      BY <1>1, <1>2, LiveChanged
    <3> QED BY <3>1, <1>2, <2>2
  <2>5. /\ GoodType(u, r, line[c], Reqs(c), Thunks(c), Active(c))
        /\ Good(u, r, line[c], Reqs(c), Thunks(c), Active(c))
        /\ Once(c)
    BY <1>7, TypedGood DEF ChannelInv
  <2>6. Asks(q, u, r) /\ q.to = u.owed[1]
    BY <2>2, <2>3 DEF Asks, Carries
  <2>7. \A p \in Q2 : p = q
    BY <2>2
  <2> DEFINE x == [to |-> dcs[d].to, code |-> 150]
  <2>8. x \in Reply /\ x # Bye /\ x.to = u.owed[1]
    <3>1. dcs[d].to \in Nat
      BY <1>1 DEF Data
    <3>2. 150 \in Codes
      BY CodesAre
    <3> QED BY <2>3, <3>1, <3>2, ReplyIs
  <2> HIDE DEF x, q, Q2
  <2>9. OneThing(u.owed[1], <<>>, Q2, {}, {}, <<>>) /\ SameClient(u, u) /\ \A p \in Q2 : Asks(p, u, r)
    BY <2>6, <2>7 DEF OneThing, NoFinal, SameClient
  <2>10. Good(u, r, <<>>, Q2, {}, {})
    <3> HIDE DEF u, r
    <3> QED BY <2>3, <2>5, <2>8, <2>9, GoodMove
  <2>11. ChannelInv(c)'
    <3>1. /\ user'[c] = u /\ chan'[c] = r /\ line'[c] = <<>> /\ Thunks(c)' = {} /\ Once(c)'
          /\ {} \subseteq {r.dc} /\ r.state # "none"
      BY <1>1, <1>5, <2>2, <2>3, <2>5
    <3> HIDE DEF u, r
    <3> QED BY <1>4, <2>2, <2>4, <2>10, <3>1, Becomes
  <2> QED BY <1>6, <2>11 DEF Kept
<1>8. CASE ~Here(c)
  BY <1>1, <1>6, <1>8, Ended DEF Kept, Here
<1> QED BY <1>7, <1>8

-----------------------------------------------------------------------------
(* The workers                                                             *)

LEMMA WorkKeeps ==
    ASSUME TypeInv, NEW q, NEW c \in Channels, c = q.chan, ChannelInv(c),
           NEW ok \in BOOLEAN, NEW odd \in BOOLEAN, Work(q, ok, odd)
    PROVE  Kept(c)
<1> DEFINE u == user[c]
           r == chan[c]
           t == [chan |-> q.chan, to |-> q.to, name |-> q.name, load |-> q.load, ok |-> ok, odd |-> odd]
           v == IF q.name = "STOR" /\ ok THEN [u EXCEPT !.got = q.load] ELSE u
           T2 == Thunks(c) \cup {t}
<1>1. /\ q \in requests /\ requests' = requests \ {q} /\ thunks' = Append(thunks, t)
      /\ UNCHANGED <<chan, dcs, line>>
  BY DEF Work
<1>2. q \in Request /\ t \in Thunk /\ u \in Client
  BY WorkType, TypedGood
<1>3. t.chan = c /\ t.to = q.to /\ t.name = q.name /\ t.load = q.load /\ t.ok = ok
  OBVIOUS
<1>4. user'[c] = v /\ \A e \in Channels \ {c} : user'[e] = user[e]
  BY DEF Work, TypeInv
<1>5. SameClient(u, v) /\ (q.name = "STOR" /\ ok => v.got = q.load)
  BY <1>2 DEF SameClient, Client
<1> HIDE DEF v, t
<1>6. Reqs(c)' = Reqs(c) \ {q} /\ \A e \in Channels \ {c} : Reqs(e)' = Reqs(e)
  BY <1>1, ReqsTaken
<1>7. /\ Thunks(c)' = T2
      /\ Thunks(c) = {} => Once(c)'
      /\ \A e \in Channels \ {c} : Thunks(e)' = Thunks(e) /\ (Once(e) => Once(e)')
  BY <1>1, <1>2, <1>3, ThunksAdded
<1>8. \A e \in Channels : LiveOf(e)' = LiveOf(e) /\ Active(e)' = Active(e)
  BY <1>1, LiveSame
<1>9. \A e \in Channels \ {c} : Untouched(e)
  BY <1>1, <1>4, <1>6, <1>7, <1>8 DEF Untouched
<1>10. CASE Here(c)
  <2>1. q \in Reqs(c)
    BY <1>1 DEF Reqs
  <2>2. /\ Alone1(c) /\ q.to = u.owed[1] /\ line[c] = <<>>
        /\ Reqs(c) = {q} /\ Thunks(c) = {} /\ Active(c) = {} /\ LiveOf(c) = {}
        /\ Asks(q, u, r)
    BY <1>10, <2>1, Behind
  <2>3. Len(u.owed) = 1 /\ NoFinal(r.out) /\ r.state = "open"
    BY <2>2 DEF Alone1
  <2>4. /\ GoodType(u, r, line[c], Reqs(c), Thunks(c), Active(c))
        /\ Good(u, r, line[c], Reqs(c), Thunks(c), Active(c))
        /\ LetInFirst(c)
    BY <1>10, TypedGood DEF ChannelInv
  <2>5. Asks(t, v, r) /\ Stored(t, v) /\ t.to = u.owed[1]
    BY <1>3, <1>5, <2>2 DEF Asks, Stored, SameClient
  <2>6. \A p \in T2 : p = t
    BY <2>2
  <2> DEFINE x == [to |-> q.to, code |-> 150]
  <2>7. x \in Reply /\ x # Bye /\ x.to = u.owed[1]
    <3>1. q.to \in Nat
      BY <1>2 DEF Request
    <3>2. 150 \in Codes
      BY CodesAre
    <3> QED BY <2>2, <3>1, <3>2, ReplyIs
  <2> HIDE DEF x, T2
  <2>8. OneThing(u.owed[1], <<>>, {}, T2, {}, <<>>) /\ \A p \in T2 : Asks(p, v, r) /\ Stored(p, v)
    BY <2>5, <2>6 DEF OneThing, NoFinal
  <2>9. Good(v, r, <<>>, {}, T2, {})
    <3> HIDE DEF u, r
    <3> QED BY <1>5, <2>3, <2>4, <2>7, <2>8, GoodMove
  <2>10. ChannelInv(c)'
    <3>1. /\ chan'[c] = r /\ line'[c] = <<>> /\ Reqs(c)' = {} /\ Once(c)' /\ LiveOf(c)' = {} /\ Active(c)' = {}
          /\ {} \subseteq {r.dc} /\ r.state # "none"
      BY <1>1, <1>6, <1>7, <1>8, <2>2, <2>3
    <3>2. ~r.authorized => Len(v.owed) # 2 /\ {} = {} /\ \A p \in {} \cup T2 : p.name = "PASS"
      <4>1. ~r.authorized => q.name = "PASS"
        BY <2>1, <2>4 DEF LetInFirst
      <4> QED BY <1>3, <1>5, <2>3, <2>6, <4>1 DEF SameClient
    <3> HIDE DEF u, r
    <3> QED BY <1>4, <1>7, <2>9, <3>1, <3>2, Becomes
  <2> QED BY <1>9, <2>10 DEF Kept
<1>11. CASE ~Here(c)
  BY <1>1, <1>9, <1>11, Ended DEF Kept, Here
<1> QED BY <1>10, <1>11

-----------------------------------------------------------------------------
(* The completions                                                         *)

LEMMA TakenFrame ==
    ASSUME TypeInv, thunks # <<>>, NEW c \in Channels, c = Head(thunks).chan, NEW s,
           thunks' = Tail(thunks), chan' = [chan EXCEPT ![Head(thunks).chan] = s], UNCHANGED <<requests, line, user>>,
           \A e \in Channels \ {c} : LiveOf(e)' = LiveOf(e) /\ Active(e)' = Active(e)
    PROVE  /\ chan'[c] = s /\ Reqs(c)' = Reqs(c) /\ user'[c] = user[c] /\ line'[c] = line[c]
           /\ Head(thunks) \in Thunks(c) /\ (Once(c) => Thunks(c)' = {} /\ Once(c)')
           /\ \A e \in Channels \ {c} : Untouched(e)
<1>1. /\ Head(thunks) \in Thunks(c)
      /\ Once(c) => Thunks(c)' = {} /\ Once(c)'
      /\ \A e \in Channels \ {c} : Thunks(e)' = Thunks(e) /\ (Once(e) => Once(e)')
  BY ThunksTaken
<1>2. \A e \in Channels : Reqs(e)' = Reqs(e)
  BY DEF Reqs
<1>3. chan' = [chan EXCEPT ![c] = s]
  OBVIOUS
<1>4. chan'[c] = s /\ \A e \in Channels \ {c} : Untouched(e)
  BY <1>1, <1>2, <1>3, SomeUntouched
<1> QED BY <1>1, <1>2, <1>4

\* The channel of the completion is done with it.
LEMMA TakenRests ==
    ASSUME TypeInv, thunks # <<>>, NEW c \in Channels, c = Head(thunks).chan, ChannelInv(c), NEW s,
           thunks' = Tail(thunks), chan' = [chan EXCEPT ![Head(thunks).chan] = s], UNCHANGED <<requests, line, user>>,
           \A e \in Channels \ {c} : LiveOf(e)' = LiveOf(e) /\ Active(e)' = Active(e),
           s.state = chan[c].state,
           Here(c) => Good(user[c], s, <<>>, {}, {}, {}) /\ LiveOf(c)' = {} /\ Active(c)' = {}
    PROVE  Kept(c)
<1>1. /\ chan'[c] = s /\ Reqs(c)' = Reqs(c) /\ user'[c] = user[c] /\ line'[c] = line[c]
      /\ Head(thunks) \in Thunks(c) /\ (Once(c) => Thunks(c)' = {} /\ Once(c)')
      /\ \A e \in Channels \ {c} : Untouched(e)
  BY TakenFrame
<1>2. CASE Here(c)
  <2>1. Alone1(c) /\ line[c] = <<>> /\ Reqs(c) = {} /\ Active(c) = {} /\ LiveOf(c) = {}
    BY <1>1, <1>2, Waiting
  <2>2. Once(c) /\ Len(user[c].owed) # 2 /\ s.state = "open"
    BY <1>2, <2>1 DEF ChannelInv, Alone1
  <2>3. ChannelInv(c)'
    BY <1>1, <1>2, <2>1, <2>2, Rests
  <2> QED BY <1>1, <2>3 DEF Kept
<1>3. CASE ~Here(c)
  BY <1>1, <1>3, Ended DEF Kept, Here
<1> QED BY <1>2, <1>3

\* The reply to the one command that is under way
LEMMA TellGood ==
    ASSUME TypeInv, NEW c \in Channels, ChannelInv(c), Here(c), NEW t \in Thunks(c),
           NEW s, NEW k \in Codes,
           s.out = Append(chan[c].out, [to |-> t.to, code |-> k]),
           Told([to |-> t.to, code |-> k], user[c], s),
           s.path = IF k \in {230, 250} /\ user[c].going # NoPath THEN user[c].going ELSE chan[c].path
    PROVE  Good(user[c], s, <<>>, {}, {}, {})
<1> DEFINE x == [to |-> t.to, code |-> k]
<1>1. Alone1(c) /\ t.to = user[c].owed[1]
  BY Waiting
<1>2. t.to \in Nat
  <2>1. Thunks(c) \subseteq Thunk
    BY TypedGood DEF GoodType, OrderlyType
  <2> QED BY <2>1 DEF Thunk
<1>3. x \in Reply /\ x # Bye /\ x.to = user[c].owed[1] /\ x.code = k
  BY <1>1, <1>2, ReplyIs
<1>4. /\ GoodType(user[c], chan[c], line[c], Reqs(c), Thunks(c), Active(c))
      /\ Good(user[c], chan[c], line[c], Reqs(c), Thunks(c), Active(c))
  BY TypedGood DEF ChannelInv
<1>5. SameClient(user[c], user[c]) /\ OneThing(user[c].owed[1], <<>>, {}, {}, {}, <<>>)
  BY DEF SameClient, OneThing, NoFinal
<1>6. Len(user[c].owed) = 1 /\ NoFinal(chan[c].out)
  BY <1>1 DEF Alone1
<1>7. s.out = Append(chan[c].out, x) /\ Told(x, user[c], s)
  OBVIOUS
<1>8. s.path = IF x.code \in {230, 250} /\ user[c].going # NoPath THEN user[c].going ELSE chan[c].path
  BY <1>3
<1> HIDE DEF x
<1> QED BY <1>3, <1>4, <1>5, <1>6, <1>7, <1>8, GoodMove

LEMMA NotLive ==
    ASSUME TypeInv, NEW c \in Channels, thunks # <<>>, c = Head(thunks).chan, Head(thunks) \in Thunks(c),
           ChannelInv(c), Here(c), dcs' = dcs
    PROVE  LiveOf(c)' = {} /\ Active(c)' = {}
BY Waiting, LiveSame

LEMMA TellingKeeps ==
    ASSUME TypeInv, NEW c \in Channels, Telling, c = Head(thunks).chan, ChannelInv(c)
    PROVE  Kept(c)
<1> DEFINE t == Head(thunks)
           r == chan[c]
           u == user[c]
<1>1. thunks # <<>> /\ \E s \in Channel, k \in Codes : TellsOf(t, chan[t.chan], s, k) /\ Completed(s)
  BY TellingEffect
<1>2. PICK s \in Channel, k \in Codes : TellsOf(t, r, s, k) /\ Completed(s)
  BY <1>1
<1>3. /\ thunks' = Tail(thunks) /\ chan' = [chan EXCEPT ![Head(thunks).chan] = s]
      /\ UNCHANGED <<dcs, requests, line, user>>
  BY <1>2 DEF Completed
<1>4. s.state = r.state
  BY <1>2 DEF TellsOf, SameLogin
<1>5. \A e \in Channels : LiveOf(e)' = LiveOf(e) /\ Active(e)' = Active(e)
  BY <1>3, LiveSame
<1>6. t \in Thunks(c)
  BY <1>1, <1>3, <1>5, TakenFrame
<1>7. ASSUME Here(c) PROVE Good(u, s, <<>>, {}, {}, {}) /\ LiveOf(c)' = {} /\ Active(c)' = {}
  <2>1. Asks(t, u, r)
    BY <1>6, <1>7, Waiting
  <2> DEFINE x == [to |-> t.to, code |-> k]
  <2>2. /\ s.out = Append(r.out, x) /\ k \notin {226, 230, 331} /\ s.at = NoPath
        /\ s.path = IF k = 250 THEN t.load[1] ELSE r.path
        /\ k = 250 => t.load[1] = u.going /\ u.going # NoPath
    BY <1>2, <2>1 DEF TellsOf, Asks
  <2>3. Told(x, u, s)
    BY <2>2 DEF Told
  <2>4. s.path = IF k \in {230, 250} /\ u.going # NoPath THEN u.going ELSE r.path
    BY <2>2
  <2>5. Good(u, s, <<>>, {}, {}, {})
    BY <1>6, <1>7, <2>2, <2>3, <2>4, TellGood, SMTT(30)
  <2> QED BY <1>1, <1>3, <1>6, <1>7, <2>5, NotLive
<1> HIDE DEF t, r, u
<1>8. Here(c) => Good(user[c], s, <<>>, {}, {}, {}) /\ LiveOf(c)' = {} /\ Active(c)' = {}
  BY <1>7 DEF u
<1>9. s.state = chan[c].state
  BY <1>4 DEF r
<1> QED BY <1>1, <1>3, <1>5, <1>8, <1>9, TakenRests

LEMMA PassedKeeps ==
    ASSUME TypeInv, NEW c \in Channels, Pass_completion, c = Head(thunks).chan, ChannelInv(c)
    PROVE  Kept(c)
<1> DEFINE t == Head(thunks)
           r == chan[c]
           u == user[c]
<1>1. thunks # <<>> /\ t.name = "PASS"
      /\ \E s \in Channel : Completed(s) /\ (Refused(t, chan[t.chan], s) \/ LetIn(t, chan[t.chan], s))
  BY PassedEffect
<1>2. PICK s \in Channel : Completed(s) /\ (Refused(t, r, s) \/ LetIn(t, r, s))
  BY <1>1
<1>3. /\ thunks' = Tail(thunks) /\ chan' = [chan EXCEPT ![Head(thunks).chan] = s]
      /\ UNCHANGED <<dcs, requests, line, user>>
  BY <1>2, SMTT(30) DEF Completed
<1>4. s.state = r.state
  BY <1>2, Zenon DEF Refused, LetIn, SameButOut
<1>5. \A e \in Channels : LiveOf(e)' = LiveOf(e) /\ Active(e)' = Active(e)
  BY <1>3, LiveSame
<1>6. t \in Thunks(c) /\ t.to \in Nat
  <2>1. t \in Thunks(c)
    BY <1>1, <1>3, <1>5, TakenFrame, Zenon
  <2> QED BY <1>1, <2>1, ThunkIs
<1>7. ASSUME Here(c) PROVE Good(u, s, <<>>, {}, {}, {})
  <2>1. Asks(t, u, r) /\ Alone1(c) /\ t.to = u.owed[1]
    BY <1>6, <1>7, Waiting
  <2>2. r.at = NoPath /\ t.load[1] = u.going /\ u.going # NoPath
    BY <1>1, <2>1 DEF Asks
  <2>3. CASE LetIn(t, r, s)
    <3>1. /\ s.out = Append(r.out, [to |-> t.to, code |-> 230]) /\ s.at = NoPath /\ s.path = u.going
      BY <2>2, <2>3 DEF LetIn
    <3>2. Told([to |-> t.to, code |-> 230], u, s)
      BY <3>1 DEF Told
    <3>3. s.path = IF 230 \in {230, 250} /\ u.going # NoPath THEN u.going ELSE r.path
      BY <2>2, <3>1
    <3>4. 230 \in Codes
      BY CodesAre, SMTT(30)
    <3> QED BY <1>6, <1>7, <3>1, <3>2, <3>3, <3>4, TellGood, SMTT(30)
  <2>4. CASE SameButOut(r, s) /\ s.out = Append(r.out, [to |-> t.to, code |-> 530])
    <3> DEFINE k == 530
    <3>1. s.at = NoPath /\ s.path = r.path /\ s.out = Append(r.out, [to |-> t.to, code |-> k])
      BY <2>2, <2>4 DEF SameButOut
    <3>2. Told([to |-> t.to, code |-> k], u, s)
      BY <3>1 DEF Told
    <3>3. s.path = IF k \in {230, 250} /\ u.going # NoPath THEN u.going ELSE r.path
      BY <3>1
    <3>4. k \in Codes
      BY CodesAre
    <3> HIDE DEF k
    <3> QED BY <1>6, <1>7, <3>1, <3>2, <3>3, <3>4, TellGood, SMTT(30)
  <2>5. CASE SameButOut(r, s) /\ s.out = Append(Append(r.out, Bye), [to |-> t.to, code |-> 421])
    <3> DEFINE z == CloseWhenDone(r)
               x == [to |-> t.to, code |-> 421]
    <3>1. r \in Channel /\ u \in Client /\ line[c] \in Seq(Command)
      BY TypedGood
    <3>2. z \in Channel /\ z.out = Append(r.out, Bye) /\ SameButOut(r, z)
      <4> HIDE DEF r
      <4> QED BY <3>1, CloseIs
    <3>3. 421 \in Codes
      BY CodesAre
    <3>4. x \in Reply /\ x # Bye /\ x.to = u.owed[1] /\ x.code = 421
      BY <1>6, <2>1, <3>3, ReplyIs, SMTT(30)
    <3>5. s.out = Append(z.out, x)
      BY <2>5, <3>2, SMTT(30)
    <3> HIDE DEF z, x
    <3>6. /\ z.at = NoPath /\ z.path = r.path /\ s.at = NoPath /\ s.path = r.path
          /\ z.producers = r.producers /\ z.anonymous = r.anonymous /\ z.at = r.at
      BY <2>2, <2>5, <3>2, ZenonT(40) DEF SameButOut
    <3>7. /\ GoodType(u, r, line[c], Reqs(c), Thunks(c), Active(c))
          /\ Good(u, r, line[c], Reqs(c), Thunks(c), Active(c))
          /\ Len(u.owed) = 1 /\ NoFinal(r.out)
      BY <1>7, <2>1, TypedGood DEF ChannelInv, Alone1
    <3>8. Good(u, z, line[c], Reqs(c), Thunks(c), Active(c))
      <4> HIDE DEF u, r
      <4> QED BY <3>2, <3>6, <3>7, GoodBye
    <3>9. GoodType(u, z, line[c], Reqs(c), Thunks(c), Active(c))
      BY <3>2, <3>7 DEF GoodType, OrderlyType, Channel
    <3>10. NoFinal(z.out)
      <4>1. r.out \in Seq(Reply) /\ Bye \in Reply /\ Bye.code < 200
        BY <3>1, ReplyIs DEF Channel
      <4> HIDE DEF r
      <4> QED BY <3>2, <3>7, <4>1, NoFinalAppend
    <3>11. SameClient(u, u) /\ OneThing(u.owed[1], <<>>, {}, {}, {}, <<>>)
      BY DEF SameClient, OneThing, NoFinal
    <3>12. Told(x, u, s) /\ s.path = IF x.code \in {230, 250} /\ u.going # NoPath THEN u.going ELSE z.path
      BY <3>4, <3>6 DEF Told
    <3> HIDE DEF u, r
    <3> QED BY <3>4, <3>5, <3>7, <3>8, <3>9, <3>10, <3>11, <3>12, GoodMove
  <2> QED BY <1>2, <2>3, <2>4, <2>5, Zenon DEF Refused
<1>8. Here(c) => LiveOf(c)' = {} /\ Active(c)' = {}
  BY <1>1, <1>3, <1>6, NotLive
<1> HIDE DEF t, r, u
<1>9. Here(c) => Good(user[c], s, <<>>, {}, {}, {}) /\ LiveOf(c)' = {} /\ Active(c)' = {}
  BY <1>7, <1>8 DEF u
<1>10. s.state = chan[c].state
  BY <1>4 DEF r
<1> QED BY <1>1, <1>3, <1>5, <1>9, <1>10, TakenRests

LEMMA OpeningKeeps ==
    ASSUME TypeInv, NEW c \in Channels, Opening, c = Head(thunks).chan, ChannelInv(c)
    PROVE  Kept(c)
<1> DEFINE t == Head(thunks)
           r == chan[c]
           u == user[c]
<1>1. /\ thunks # <<>> /\ t.name \in {"LIST", "RETR"}
      /\ \E s \in Channel, load \in Loads, d \in Unused :
            /\ OpensOf(t, r, s, d, load) /\ chan' = [chan EXCEPT ![t.chan] = s]
            /\ dcs' = [dcs EXCEPT ![d] = NewData(t.chan, r, "xmit", t.to, load)]
            /\ thunks' = Tail(thunks) /\ UNCHANGED <<requests, line, user>>
  BY OpeningEffect
<1>2. PICK s \in Channel, load \in Loads, d \in Unused :
            /\ OpensOf(t, r, s, d, load) /\ chan' = [chan EXCEPT ![t.chan] = s]
            /\ dcs' = [dcs EXCEPT ![d] = NewData(t.chan, r, "xmit", t.to, load)]
            /\ thunks' = Tail(thunks) /\ UNCHANGED <<requests, line, user>>
  BY <1>1
<1>3. t.to \in Nat /\ r \in Channel /\ d \in Dcs /\ ~Alive(dcs[d])
  BY <1>1, ThunkIs, TypedGood, UnusedIsQuiet
<1> DEFINE w == NewData(c, r, "xmit", t.to, load)
           x == [to |-> t.to, code |-> 150]
<1>4. Alive(w) /\ w.chan = c /\ w.to = t.to /\ w.load = load
  <2> HIDE DEF r, t
  <2> QED BY <1>3, NewDataAlive
<1>5. dcs' = [dcs EXCEPT ![d] = w]
  BY <1>2, SMTT(30)
<1> HIDE DEF w
<1>6. /\ SameLogin(r, s) /\ s.dc = d /\ s.at = r.at /\ s.path = r.path
      /\ s.out = r.out \/ s.out = Append(r.out, x)
      /\ load = t.load \/ (load = r.producers /\ t.name = "RETR")
  BY <1>2 DEF OpensOf
<1> HIDE DEF x
<1>7. \A e \in Channels \ {c} : LiveOf(e)' = LiveOf(e) /\ Active(e)' = Active(e)
  BY <1>3, <1>4, <1>5, LiveChanged
<1>8. /\ chan'[c] = s /\ Reqs(c)' = Reqs(c) /\ user'[c] = u /\ line'[c] = line[c]
      /\ t \in Thunks(c) /\ (Once(c) => Thunks(c)' = {} /\ Once(c)')
      /\ \A e \in Channels \ {c} : Untouched(e)
  BY <1>1, <1>2, <1>7, TakenFrame, ZenonT(40)
<1>9. CASE Here(c)
  <2>1. /\ Alone1(c) /\ t.to = u.owed[1] /\ line[c] = <<>>
        /\ Reqs(c) = {} /\ Active(c) = {} /\ LiveOf(c) = {} /\ Asks(t, u, r)
    BY <1>8, <1>9, Waiting
  <2>2. Len(u.owed) = 1 /\ NoFinal(r.out) /\ r.state = "open"
    BY <2>1 DEF Alone1
  <2>3. /\ GoodType(u, r, line[c], Reqs(c), Thunks(c), Active(c))
        /\ Good(u, r, line[c], Reqs(c), Thunks(c), Active(c))
        /\ LetInFirst(c) /\ Once(c)
    BY <1>9, TypedGood DEF ChannelInv
  <2>4. r.authorized
    BY <1>1, <1>8, <2>3, SMTT(30) DEF LetInFirst
  <2>5. Carries(w, u, s)
    BY <1>1, <1>4, <1>6, <2>1 DEF Asks, Carries
  <2> DEFINE A2 == {w}
  <2>6. \A a \in A2 : a = w
    OBVIOUS
  <2>7. LiveOf(c)' = {d} /\ Active(c)' = A2
    <3>1. LiveOf(c) \subseteq {d} =>
              /\ Alive(w) => LiveOf(c)' = {d} /\ Active(c)' = {w}
              /\ ~Alive(w) => LiveOf(c)' = {} /\ Active(c)' = {}
      BY <1>3, <1>4, <1>5, LiveChanged
    <3> QED BY <3>1, <1>4, <2>1
  <2> HIDE DEF A2
  <2>8. OneThing(u.owed[1], <<>>, {}, {}, A2, <<>>) /\ SameClient(u, u) /\ \A a \in A2 : Carries(a, u, s)
    BY <1>4, <2>1, <2>5, <2>6 DEF OneThing, NoFinal, SameClient
  <2>9. x \in Reply /\ x # Bye /\ x.to = u.owed[1] /\ x.code = 150
    <3>1. 150 \in Codes
      BY CodesAre
    <3> QED BY <1>3, <2>1, <3>1, ReplyIs DEF x
  <2>10. Good(u, s, <<>>, {}, {}, A2)
    <3>1. Told(x, u, s) /\ ~(x.code >= 200)
      BY <2>9 DEF Told
    <3>2. s.path = IF x.code \in {230, 250} /\ u.going # NoPath THEN u.going ELSE r.path
      BY <1>6, <2>9
    <3> HIDE DEF u, r
    <3> QED BY <1>6, <2>2, <2>3, <2>8, <2>9, <3>1, <3>2, GoodMove
  <2>11. ChannelInv(c)'
    <3>1. /\ line'[c] = <<>> /\ Reqs(c)' = {} /\ Thunks(c)' = {} /\ Once(c)'
          /\ {d} \subseteq {s.dc} /\ s.state # "none" /\ s.authorized
      BY <1>6, <1>8, <2>1, <2>2, <2>3, <2>4 DEF SameLogin
    <3> HIDE DEF u, r
    <3> QED BY <1>8, <2>7, <2>10, <3>1, Becomes
  <2> QED BY <1>8, <2>11 DEF Kept
<1>10. CASE ~Here(c)
  <2>1. s.state = r.state
    BY <1>6 DEF SameLogin
  <2> QED BY <1>8, <1>10, <2>1, Ended DEF Kept, Here
<1> QED BY <1>9, <1>10

\* What the others have when the data channel of c is closed
LEMMA WithoutFrame ==
    ASSUME TypeInv, DataInv, NEW c \in Channels, dcs' = DcsWithout(chan[c].dc)
    PROVE  \A e \in Channels \ {c} : LiveOf(e)' = LiveOf(e) /\ Active(e)' = Active(e)
<1>1. CASE chan[c].dc = NoDc
  <2>1. dcs' = dcs
    BY <1>1 DEF DcsWithout
  <2> QED BY <2>1, LiveSame
<1>2. CASE chan[c].dc # NoDc
  <2> DEFINE d == chan[c].dc
  <2>1. /\ d \in Dcs
        /\ \E w \in Data : /\ DcsWithout(d) = [dcs EXCEPT ![d] = w] /\ DataOk(w)
                           /\ IF dcs[d].kind = "xmit" THEN w = NoData
                              ELSE IF dcs[d].state = "nosocket" THEN w = dcs[d] ELSE w = [dcs[d] EXCEPT !.state = "shut"]
    BY <1>2, WithoutIs
  <2>2. PICK w \in Data :
            /\ DcsWithout(d) = [dcs EXCEPT ![d] = w]
            /\ IF dcs[d].kind = "xmit" THEN w = NoData
               ELSE IF dcs[d].state = "nosocket" THEN w = dcs[d] ELSE w = [dcs[d] EXCEPT !.state = "shut"]
    BY <2>1
  <2>3. dcs[d].chan = c /\ dcs[d] \in Data
    BY <1>2, <2>1, Pointing DEF TypeInv
  <2>4. Alive(w) => w.chan = c
    BY <2>2, <2>3 DEF Alive, NoData, Data
  <2>5. dcs' = [dcs EXCEPT ![d] = w]
    BY <2>2
  <2> HIDE DEF d
  <2> QED BY <2>1, <2>3, <2>4, <2>5, LiveChanged
<1> QED BY <1>1, <1>2

LEMMA StoredKeeps ==
    ASSUME TypeInv, DataInv, NEW c \in Channels, Stor_completion, c = Head(thunks).chan, ChannelInv(c)
    PROVE  Kept(c)
<1> DEFINE t == Head(thunks)
           r == chan[c]
           u == user[c]
           k == IF t.ok THEN 226 ELSE 426
           told == Respond(r, t.to, k)
           x == [to |-> t.to, code |-> k]
<1>1. thunks # <<>> /\ t.name = "STOR" /\ thunks' = Tail(thunks) /\ UNCHANGED <<requests, line, user>>
  BY DEF Stor_completion, Done, Completed
<1>2. t.to \in Nat /\ r \in Channel /\ k \in Codes /\ t \in Thunk
  <2>1. t.to \in Nat /\ t \in Thunk /\ r \in Channel
    BY <1>1, ThunkIs, TypedGood
  <2> QED BY <2>1, CodesAre
<1>3. told \in Channel /\ told.out = Append(r.out, x) /\ SameButOut(r, told)
  <2> HIDE DEF r, k, t
  <2> QED BY <1>2, RespondIs
<1>4. \A e \in Channels \ {c} : LiveOf(e)' = LiveOf(e) /\ Active(e)' = Active(e)
  <2>1. dcs' = dcs \/ dcs' = DcsWithout(r.dc)
    BY DEF Stor_completion, Completed
  <2> QED BY <2>1, LiveSame, WithoutFrame
<1>5. CASE r.dc = NoDc
  <2>1. dcs' = dcs /\ chan' = [chan EXCEPT ![Head(thunks).chan] = r]
    BY <1>5 DEF Stor_completion, Completed
  <2>2. t \in Thunks(c)
    BY <1>1, <1>4, <2>1, TakenFrame
  <2>3. ASSUME Here(c) PROVE Good(u, r, <<>>, {}, {}, {}) /\ LiveOf(c)' = {} /\ Active(c)' = {}
    <3>1. Alone1(c) /\ t.to = u.owed[1]
      BY <2>2, <2>3, Waiting
    <3>2. Len(u.owed) = 1 /\ NoFinal(r.out)
      BY <3>1 DEF Alone1
    <3>3. /\ GoodType(u, r, line[c], Reqs(c), Thunks(c), Active(c))
          /\ Good(u, r, line[c], Reqs(c), Thunks(c), Active(c))
      BY <2>3, TypedGood DEF ChannelInv
    <3>4. SameClient(u, u) /\ OneThing(u.owed[1], <<>>, {}, {}, {}, <<>>)
      BY DEF SameClient, OneThing, NoFinal
    <3>5. x \in Reply /\ x # Bye /\ x.to = u.owed[1]
      <4> HIDE DEF k
      <4> QED BY <1>2, <3>1, ReplyIs
    <3>6. LiveOf(c)' = {} /\ Active(c)' = {}
      BY <1>1, <2>1, <2>2, <2>3, NotLive
    <3> HIDE DEF u, r, x
    <3>7. Good(u, r, <<>>, {}, {}, {})
      BY <3>2, <3>3, <3>4, <3>5, GoodMove
    <3> QED BY <3>6, <3>7
  <2>4. Here(c) => Good(user[c], r, <<>>, {}, {}, {}) /\ LiveOf(c)' = {} /\ Active(c)' = {}
    BY <2>3
  <2>5. r.state = chan[c].state
    OBVIOUS
  <2> HIDE DEF t, r, u
  <2> QED BY <1>1, <1>4, <2>1, <2>4, <2>5, TakenRests
<1>6. CASE r.dc # NoDc
  <2> DEFINE s == ClosedData(told)
  <2>1. dcs' = DcsWithout(r.dc) /\ chan' = [chan EXCEPT ![Head(thunks).chan] = s]
    BY <1>6 DEF Stor_completion
  <2>2. t \in Thunks(c)
    BY <1>1, <1>4, <2>1, TakenFrame, ZenonT(40)
  <2>3. s.state = r.state
    <3>1. told.state = r.state
      BY <1>3, Zenon DEF SameButOut
    <3>2. SameLogin(told, s)
      <4> HIDE DEF told
      <4> QED BY <1>3, ClosedIs
    <3> QED BY <3>1, <3>2 DEF SameLogin
  <2>4. ASSUME Here(c) PROVE Good(u, s, <<>>, {}, {}, {}) /\ LiveOf(c)' = {} /\ Active(c)' = {}
    <3>1. LiveOf(c) = {} /\ Active(c) = {} /\ Asks(t, u, r) /\ Stored(t, u)
      BY <2>2, <2>4, Waiting
    <3>2. /\ \A z \in Channel : z.dc = r.dc => ClosedData(z) = z
          /\ dcs' = DcsWithout(r.dc) => \A e \in Channels : LiveOf(e)' = LiveOf(e) /\ Active(e)' = Active(e)
      BY <3>1, Idle, SMTT(30)
    <3>3. told.dc = r.dc /\ told.at = r.at /\ told.path = r.path
      BY <1>3, Zenon DEF SameButOut
    <3> HIDE DEF told
    <3>4. s = told
      BY <1>3, <3>2, <3>3
    <3>5. Told(x, u, told)
      BY <1>1, <3>1, <3>3 DEF Asks, Stored, Told
    <3>6. told.path = IF k \in {230, 250} /\ u.going # NoPath THEN u.going ELSE r.path
      BY <3>3
    <3> HIDE DEF k
    <3>7. Good(u, told, <<>>, {}, {}, {})
      BY <1>2, <1>3, <2>2, <2>4, <3>5, <3>6, TellGood
    <3> QED BY <2>1, <3>1, <3>2, <3>4, <3>7
  <2>5. Here(c) => Good(user[c], s, <<>>, {}, {}, {}) /\ LiveOf(c)' = {} /\ Active(c)' = {}
    BY <2>4
  <2>6. s.state = chan[c].state
    BY <2>3
  <2> HIDE DEF t, r, u, s
  <2> QED BY <1>1, <1>4, <2>1, <2>5, <2>6, TakenRests
<1> QED BY <1>5, <1>6

LEMMA CloseKeeps ==
    ASSUME TypeInv, DataInv, NEW c \in Channels, Close(c)
    PROVE  Kept(c)
<1> DEFINE s == [ClosedData([chan[c] EXCEPT !.state = "closed"])
                     EXCEPT !.state = IF Raises(chan[c].dc) THEN "stuck" ELSE "closed",
                            !.pasv = IF @ = "listening" THEN "dead" ELSE @, !.out = <<>>]
<1>1. /\ chan' = [chan EXCEPT ![c] = s] /\ dcs' = DcsWithout(chan[c].dc)
      /\ line' = [line EXCEPT ![c] = <<>>] /\ user' = [user EXCEPT ![c] = NewUser]
      /\ UNCHANGED <<requests, thunks>>
  BY DEF Close
<1>2. s.state \in {"stuck", "closed"}
  <2> DEFINE g == [chan[c] EXCEPT !.state = "closed"]
             z == ClosedData(g)
  <2>1. g \in Channel
    BY ZenonT(40) DEF TypeInv, Channel
  <2>2. z \in Channel
    <3> HIDE DEF g
    <3> QED BY <2>1, ClosedIs
  <2> HIDE DEF z
  <2> QED BY <2>2 DEF Channel
<1> HIDE DEF s
<1>3. \A e \in Channels \ {c} : LiveOf(e)' = LiveOf(e) /\ Active(e)' = Active(e)
  BY <1>1, WithoutFrame
<1>4. \A e \in Channels \ {c} : line'[e] = line[e] /\ user'[e] = user[e]
  BY <1>1 DEF TypeInv
<1>5. \A e \in Channels : Reqs(e)' = Reqs(e) /\ Thunks(e)' = Thunks(e) /\ Once(e)' = Once(e)
  BY <1>1 DEF Reqs, Thunks, Once
<1>6. chan'[c] = s /\ \A e \in Channels \ {c} : Untouched(e)
  BY <1>1, <1>3, <1>4, <1>5, SomeUntouched
<1>7. chan'[c].state \notin {"none", "open"}
  BY <1>2, <1>6
<1> QED BY <1>6, <1>7, Ended DEF Kept

-----------------------------------------------------------------------------
(* Every step                                                              *)

IInv == TypeInv /\ DataInv /\ \A c \in Channels : ChannelInv(c)

LEMMA KeptAll ==
    ASSUME \A c \in Channels : ChannelInv(c), NEW c \in Channels, Kept(c)
    PROVE  \A e \in Channels : ChannelInv(e)'
BY Frame DEF Kept

LEMMA ChannelsByData ==
    ASSUME Urgent = FALSE, IInv, NEW d \in Dcs, Connected(d) \/ Transferred(d) \/ Lost(d) \/ Uploaded(d)
    PROVE  \A e \in Channels : ChannelInv(e)'
<1>1. PICK c : c = dcs[d].chan
  OBVIOUS
<1>2. c \in Channels
  <2>1. dcs[d] \in Data /\ dcs[d].state # "free"
    BY DEF IInv, TypeInv, Connected, Transferred, Lost, Uploaded
  <2> QED BY <1>1, <2>1 DEF Data
<1>3. Kept(c)
  BY <1>1, <1>2, ConnectedKeeps, TransferredKeeps, LostKeeps, UploadedKeeps DEF IInv
<1> QED BY <1>2, <1>3, KeptAll DEF IInv

LEMMA ChannelsByApply ==
    ASSUME IInv, Apply
    PROVE  \A e \in Channels : ChannelInv(e)'
<1>1. Telling \/ Pass_completion \/ Opening \/ Stor_completion
  BY DEF Apply, Telling, Opening
<1>2. thunks # <<>>
  BY DEF Apply, Ask_completion, Cwd_completion, Pass_completion, Listdir_completion, Retr_completion, Stor_completion, Done
<1>3. PICK c : c = Head(thunks).chan
  OBVIOUS
<1>4. c \in Channels
  BY <1>2, <1>3, ThunkIs DEF IInv
<1>5. Kept(c)
  BY <1>1, <1>3, <1>4, TellingKeeps, PassedKeeps, OpeningKeeps, StoredKeeps DEF IInv
<1> QED BY <1>4, <1>5, KeptAll DEF IInv

LEMMA ChannelsByWork ==
    ASSUME IInv, NEW c \in Channels, Served(c)
    PROVE  \A e \in Channels : ChannelInv(e)'
<1>1. PICK q \in {x \in requests : x.chan = c}, ok \in BOOLEAN, odd \in BOOLEAN : Work(q, ok, odd)
  BY DEF Served
<1>2. Kept(c)
  BY <1>1, WorkKeeps DEF IInv
<1> QED BY <1>2, KeptAll DEF IInv

LEMMA ChannelsStep ==
    ASSUME Urgent = FALSE, IInv, [Next]_vars
    PROVE  \A e \in Channels : ChannelInv(e)'
<1>1. ASSUME NEW c \in Channels, Accept(c) PROVE \A e \in Channels : ChannelInv(e)'
  BY <1>1, AcceptKeeps, KeptAll DEF IInv
<1>2. ASSUME NEW c \in Channels, NEW m \in user[c].plan, Send(c, m) PROVE \A e \in Channels : ChannelInv(e)'
  BY <1>2, SendKeeps, KeptAll DEF IInv
<1>3. ASSUME NEW c \in Channels, Handle(c) PROVE \A e \in Channels : ChannelInv(e)'
  BY <1>3, HandleStep, KeptAll DEF IInv
<1>4. ASSUME NEW c \in Channels, Flush(c) PROVE \A e \in Channels : ChannelInv(e)'
  BY <1>4, FlushKeeps, KeptAll DEF IInv
<1>5. ASSUME NEW c \in Channels, Arrives(c) PROVE \A e \in Channels : ChannelInv(e)'
  BY <1>5, ArrivesKeeps, KeptAll DEF IInv
<1>6. ASSUME NEW c \in Channels, Close(c) PROVE \A e \in Channels : ChannelInv(e)'
  BY <1>6, CloseKeeps, KeptAll DEF IInv
<1>7. CASE UNCHANGED vars
  <2>1. \A e \in Channels : Untouched(e)
    BY <1>7 DEF vars, Untouched, Reqs, Thunks, Once, LiveOf, Active
  <2> QED BY <2>1, Frame DEF IInv
<1> QED BY <1>1, <1>2, <1>3, <1>4, <1>5, <1>6, <1>7, ChannelsByData, ChannelsByApply, ChannelsByWork DEF Next

LEMMA ChannelsInit ==
    ASSUME Init
    PROVE  \A c \in Channels : ChannelInv(c)
<1> SUFFICES ASSUME NEW c \in Channels PROVE ChannelInv(c)
  OBVIOUS
<1> DEFINE r == [NewChannel EXCEPT !.state = "none"]
<1>1. PICK p \in Plans : user = [e \in Channels |-> [NewUser EXCEPT !.plan = p[e]]]
  BY DEF Init
<1> DEFINE u == [NewUser EXCEPT !.plan = p[c]]
<1>2. chan[c] = r /\ line[c] = <<>> /\ user[c] = u /\ requests = {} /\ thunks = <<>>
  BY <1>1 DEF Init
<1>3. /\ u.owed = <<>> /\ u.cwd = Home /\ u.going = NoPath
      /\ r.out = <<>> /\ r.at = NoPath /\ r.path = Home
  BY DEF NewUser, NewChannel
<1> HIDE DEF u, r
<1>4. Reqs(c) = {} /\ Thunks(c) = {} /\ Once(c)
  BY <1>2 DEF Reqs, Thunks, Once, Range
<1>5. LiveOf(c) = {} /\ Active(c) = {}
  <2>1. \A d \in Dcs : ~Alive(dcs[d])
    BY DEF Init, Alive, NoData
  <2> QED BY <2>1 DEF LiveOf, Active
<1>6. Good(u, r, <<>>, {}, {}, {})
  <2>1. Orderly(u.owed, <<>>, {}, {}, {}, r.out)
    BY <1>3 DEF Orderly, Nothing
  <2>2. ~Moved(u, r.out) /\ AllTold(r.out, u, r)
    BY <1>3 DEF Moved, AllTold
  <2>3. Knows(u, r, <<>>, {}, {}, {})
    BY <1>3, <2>2 DEF Knows
  <2> QED BY <2>1, <2>3 DEF Good
<1> QED BY <1>2, <1>3, <1>4, <1>5, <1>6 DEF ChannelInv, Begun, LetInFirst

-----------------------------------------------------------------------------
(* Who is let in                                                           *)

In == {c \in Channels : chan[c].state = "open" /\ chan[c].authorized}
InAs(u) == {c \in In : chan[c].as = u}

\* as is set when the channel is let in and reset by the next USER.
AsInv == \A c \in Channels : chan[c].as # NoUser => chan[c].as = chan[c].userid /\ chan[c].authorized
LoginInv == AsInv /\ LimitsHold

\* For every value of as, those that are let in by it are few enough.
FewAs == \A u : u # NoUser /\ InAs(u) # {} => Cardinality(InAs(u)) <= UserLimit

LEMMA LimitsAre ==
    /\ LimitsHold <=> Cardinality(In) <= TotalLimit /\ FewAs
    /\ LimitsHold' <=> Cardinality(In') <= TotalLimit /\ FewAs'
BY DEF LimitsHold, FewAs, In, InAs

\* No more is let in by s than by r.
LoginKept(r, s) ==
    /\ s.state = "open" /\ s.authorized => r.state = "open" /\ r.authorized
    /\ s.as # NoUser => s.as = r.as /\ s.userid = r.userid /\ s.authorized = r.authorized

LEMMA SubsetCard ==
    ASSUME NEW S, NEW T, S \subseteq T, T \subseteq Channels, NEW n \in Nat, Cardinality(T) <= n
    PROVE  Cardinality(S) <= n
<1>1. IsFiniteSet(T)
  BY FS_Subset, FtpAssumption
<1>2. Cardinality(S) <= Cardinality(T) /\ IsFiniteSet(S)
  BY <1>1, FS_Subset
<1>3. Cardinality(S) \in Nat /\ Cardinality(T) \in Nat
  BY <1>1, <1>2, FS_CardinalityType
<1> QED BY <1>2, <1>3

LEMMA LoginStays ==
    ASSUME TypeInv, LoginInv, NEW c \in Channels, NEW s, chan' = [chan EXCEPT ![c] = s], LoginKept(chan[c], s)
    PROVE  LoginInv'
<1>1. chan'[c] = s /\ \A e \in Channels : e # c => chan'[e] = chan[e]
  BY DEF TypeInv
<1>2. AsInv'
  BY <1>1 DEF LoginInv, AsInv, LoginKept
<1>3. In' \subseteq In /\ In \subseteq Channels
  BY <1>1 DEF In, LoginKept
<1>4. TotalLimit \in Nat /\ UserLimit \in Nat
  BY FtpAssumption
<1>5. Cardinality(In') <= TotalLimit
  <2>1. Cardinality(In) <= TotalLimit
    BY LimitsAre DEF LoginInv
  <2> QED BY <1>3, <1>4, <2>1, SubsetCard
<1>6. FewAs'
  <2> SUFFICES ASSUME NEW u, u # NoUser, InAs(u)' # {} PROVE Cardinality(InAs(u)') <= UserLimit
    BY DEF FewAs
  <2>1. InAs(u)' \subseteq InAs(u) /\ InAs(u) \subseteq Channels
    BY <1>1, <1>3 DEF InAs, LoginKept
  <2>2. Cardinality(InAs(u)) <= UserLimit
    BY <2>1, LimitsAre DEF LoginInv, FewAs
  <2> QED BY <1>4, <2>1, <2>2, SubsetCard
<1> QED BY <1>2, <1>5, <1>6, LimitsAre DEF LoginInv

\* The check of the limits, when the channel is let in
LEMMA LoginGranted ==
    ASSUME TypeInv, LoginInv, NEW c \in Channels, NEW s, chan' = [chan EXCEPT ![c] = s],
           chan[c].state = "open", CheckLimit(chan[c]),
           s.authorized, s.userid = chan[c].userid,
           s.as = chan[c].as \/ (s.as = chan[c].userid /\ ~chan[c].anonymous)
    PROVE  LoginInv'
<1>1. chan'[c] = s /\ \A e \in Channels : e # c => chan'[e] = chan[e]
  BY DEF TypeInv
<1>2. AsInv'
  BY <1>1 DEF LoginInv, AsInv
<1>3. In' \subseteq In \cup {c} /\ In \subseteq Existing /\ c \in Existing /\ Existing \subseteq Channels
  BY <1>1 DEF In, Existing
<1>4. TotalLimit \in Nat /\ UserLimit \in Nat
  BY FtpAssumption
<1>5. Cardinality(In') <= TotalLimit
  <2>1. Cardinality(Existing) <= TotalLimit
    BY DEF CheckLimit
  <2> QED BY <1>3, <1>4, <2>1, SubsetCard
<1>6. FewAs'
  <2> SUFFICES ASSUME NEW u, u # NoUser, InAs(u)' # {} PROVE Cardinality(InAs(u)') <= UserLimit
    BY DEF FewAs
  <2>1. CASE InAs(u)' \subseteq InAs(u)
    <3>1. Cardinality(InAs(u)) <= UserLimit
      BY <2>1, LimitsAre DEF LoginInv, FewAs
    <3>2. InAs(u) \subseteq Channels
      BY <1>3 DEF InAs
    <3> QED BY <1>4, <2>1, <3>1, <3>2, SubsetCard
  <2>2. CASE s.as = u /\ s.as = chan[c].userid /\ ~chan[c].anonymous
    <3> DEFINE same == {e \in Existing : chan[e].userid = u}
    <3>1. Cardinality(same) <= UserLimit /\ same \subseteq Channels
      BY <1>3, <2>2 DEF CheckLimit
    <3>2. InAs(u)' \subseteq same
      <4> SUFFICES ASSUME NEW e \in InAs(u)' PROVE e \in same
        OBVIOUS
      <4>1. CASE e = c
        BY <1>3, <2>2, <4>1
      <4>2. CASE e # c
        <5>1. e \in In /\ chan[e].as = u /\ e \in Channels
          BY <1>1, <1>3, <4>2 DEF InAs
        <5>2. chan[e].userid = u
          BY <5>1 DEF LoginInv, AsInv
        <5> QED BY <1>3, <5>1, <5>2
      <4> QED BY <4>1, <4>2
    <3> HIDE DEF same
    <3> QED BY <1>4, <3>1, <3>2, SubsetCard
  <2>3. CASE s.as = u /\ s.as = chan[c].as
    <3>1. c \in In
      BY <2>3 DEF LoginInv, AsInv, In
    <3>2. InAs(u)' \subseteq InAs(u)
      BY <1>1, <1>3, <2>3, <3>1 DEF InAs
    <3> QED BY <2>1, <3>2
  <2>4. CASE s.as # u
    <3>1. InAs(u)' \subseteq InAs(u)
      BY <1>1, <1>3, <2>4 DEF InAs
    <3> QED BY <2>1, <3>1
  <2> QED BY <2>2, <2>3, <2>4
<1> QED BY <1>2, <1>5, <1>6, LimitsAre DEF LoginInv

\* A channel that is not open is not let in, whatever is said of it.
LEMMA LoginOutside ==
    ASSUME TypeInv, LoginInv, NEW c \in Channels, NEW s, chan' = [chan EXCEPT ![c] = s],
           s.state # "open", s.authorized, s.as = s.userid
    PROVE  LoginInv'
<1>1. chan'[c] = s /\ \A e \in Channels : e # c => chan'[e] = chan[e]
  BY DEF TypeInv
<1>2. AsInv'
  BY <1>1 DEF LoginInv, AsInv
<1>3. In' \subseteq In /\ In \subseteq Channels /\ c \notin In'
  BY <1>1 DEF In
<1>4. TotalLimit \in Nat /\ UserLimit \in Nat
  BY FtpAssumption
<1>5. Cardinality(In') <= TotalLimit
  <2>1. Cardinality(In) <= TotalLimit
    BY LimitsAre DEF LoginInv
  <2> QED BY <1>3, <1>4, <2>1, SubsetCard
<1>6. FewAs'
  <2> SUFFICES ASSUME NEW u, u # NoUser, InAs(u)' # {} PROVE Cardinality(InAs(u)') <= UserLimit
    BY DEF FewAs
  <2>1. InAs(u)' \subseteq InAs(u) /\ InAs(u) \subseteq Channels
    BY <1>1, <1>3 DEF InAs
  <2>2. Cardinality(InAs(u)) <= UserLimit
    BY <2>1, LimitsAre DEF LoginInv, FewAs
  <2> QED BY <1>4, <2>1, <2>2, SubsetCard
<1> QED BY <1>2, <1>5, <1>6, LimitsAre DEF LoginInv

\* The same login is a login kept.
LEMMA SameIsKept ==
    ASSUME NEW r, NEW s, SameLogin(r, s)
    PROVE  LoginKept(r, s)
BY DEF SameLogin, LoginKept

LEMMA LoginByHandle ==
    ASSUME TypeInv, LoginInv, NEW c \in Channels, Handle(c)
    PROVE  LoginInv'
<1> DEFINE r == chan[c]
           n == Number(c)
<1>1. r \in Channel
  BY DEF TypeInv
<1>2. CASE Simple(c)
  <2>1. PICK s \in Channel, k \in Codes : SaidTo(c, r, s, k) /\ (Answered(c, s) \/ Answered(c, CloseWhenDone(s)))
    BY <1>2, SimpleEffect
  <2>2. LoginKept(r, s)
    BY <2>1 DEF SaidTo, LoginKept
  <2>3. SameButOut(s, CloseWhenDone(s))
    BY CloseIs
  <2>4. LoginKept(r, CloseWhenDone(s))
    BY <2>2, <2>3 DEF SameButOut, LoginKept
  <2>5. chan' = [chan EXCEPT ![c] = s] \/ chan' = [chan EXCEPT ![c] = CloseWhenDone(s)]
    BY <2>1 DEF Answered
  <2> QED BY <2>2, <2>4, <2>5, LoginStays
<1>3. CASE Asking(c)
  <2>1. PICK s \in Channel, name \in ReqNames, load \in Loads : AskedOf(c, r, s, name, load) /\ Asked(c, s, name, load)
    BY <1>3, AskingEffect
  <2>2. LoginKept(r, s) /\ chan' = [chan EXCEPT ![c] = s]
    BY <2>1, SameIsKept DEF AskedOf, Asked
  <2> QED BY <2>2, LoginStays
<1>4. CASE Cmd_pass(c)
  <2>1. r.state = "open"
    BY <1>4, PassEffect
  <2>2. PICK s \in Channel :
              \/ \E load \in Loads : PassAsked(c, r, s, load)
              \/ PassLetIn(c, r, s)
              \/ PassRefused(c, r, s)
    BY <1>4, PassEffect
  <2>3. ASSUME NEW load \in Loads, PassAsked(c, r, s, load) PROVE LoginInv'
    <3>1. LoginKept(r, s) /\ chan' = [chan EXCEPT ![c] = s]
      BY <2>3, SameIsKept DEF PassAsked, Asked
    <3> QED BY <3>1, LoginStays
  <2>4. CASE PassLetIn(c, r, s)
    <3>1. chan' = [chan EXCEPT ![c] = s] /\ CheckLimit(r) /\ s.authorized /\ s.userid = r.userid /\ s.as = r.as
      BY <2>4 DEF PassLetIn, Answered
    <3> QED BY <2>1, <3>1, LoginGranted
  <2>5. CASE PassRefused(c, r, s)
    <3>1. SameButOut(r, s) /\ SameButOut(s, CloseWhenDone(s))
      BY <2>5, CloseIs DEF PassRefused
    <3>2. LoginKept(r, CloseWhenDone(s)) /\ chan' = [chan EXCEPT ![c] = CloseWhenDone(s)]
      BY <2>5, <3>1 DEF PassRefused, Answered, SameButOut, LoginKept
    <3> QED BY <3>2, LoginStays
  <2> QED BY <2>2, <2>3, <2>4, <2>5
<1>5. ASSUME NEW g \in Channel, NEW k \in Codes, SameLogin(r, g), n \in Nat
      PROVE  LoginKept(r, Respond(g, n, k))
  <2>1. SameButOut(g, Respond(g, n, k))
    BY <1>5, RespondIs
  <2> QED BY <1>5, <2>1 DEF SameLogin, SameButOut, LoginKept
<1>6. CASE Cmd_stor(c)
  <2>1. n \in Nat /\ 553 \in Codes /\ 150 \in Codes /\ SameLogin(r, r)
    <3>1. Ready(c, {"STOR"})
      BY <1>6 DEF Cmd_stor
    <3> QED BY <3>1, LineIs, CodesAre DEF SameLogin
  <2>2. CASE r.restart
    <3>1. chan' = [chan EXCEPT ![c] = Respond(r, n, 553)] /\ LoginKept(r, Respond(r, n, 553))
      BY <1>1, <1>5, <1>6, <2>1, <2>2 DEF Cmd_stor, Answered
    <3> QED BY <3>1, LoginStays
  <2>3. CASE ~r.restart
    <3> DEFINE g == Respond(r, n, 150)
    <3>1. PICK d \in Unused : chan' = [chan EXCEPT ![c] = Made(g, d)]
      BY <1>6, <2>3, UnusedIs DEF Cmd_stor
    <3>2. LoginKept(r, g) /\ g \in Channel
      BY <1>1, <1>5, <2>1, RespondIs, ZenonT(40)
    <3>3. d \in Dcs
      BY UnusedIsQuiet
    <3>4. SameButOut([g EXCEPT !.dc = d, !.pasv = Made(g, d).pasv], Made(g, d))
      <4> HIDE DEF g
      <4> QED BY <3>2, <3>3, MadeIs
    <3> DEFINE s == Made(g, d)
    <3> HIDE DEF g
    <3>5. LoginKept(r, s)
      <4> HIDE DEF s
      <4>1. SameButOut([g EXCEPT !.dc = d, !.pasv = s.pasv], s)
        BY <3>4 DEF s
      <4>2. s.state = g.state /\ s.authorized = g.authorized /\ s.as = g.as /\ s.userid = g.userid
        BY <3>2, <4>1 DEF SameButOut, Channel
      <4> QED BY <3>2, <4>2 DEF LoginKept
    <3> QED BY <3>1, <3>5, LoginStays
  <2> QED BY <2>2, <2>3
<1>7. CASE Cmd_abor(c) \/ (Cmd_rnto(c) /\ Failed(c))
  <2>1. n \in Nat /\ ClosedData(r) \in Channel /\ SameLogin(r, ClosedData(r))
    <3>1. Ready(c, {"ABOR"}) \/ Ready(c, {"RNTO"})
      BY <1>7 DEF Cmd_abor, Cmd_rnto
    <3>2. n \in Nat
      BY <3>1, LineIs
    <3> QED BY <1>1, <3>2, ClosedIs
  <2>2. \E k \in Codes : chan' = [chan EXCEPT ![c] = Respond(ClosedData(r), n, k)]
    <3>1. 226 \in Codes /\ 451 \in Codes
      BY CodesAre
    <3> QED BY <1>7, <3>1 DEF Cmd_abor, Failed
  <2>3. PICK k \in Codes : chan' = [chan EXCEPT ![c] = Respond(ClosedData(r), n, k)]
    BY <2>2
  <2>4. LoginKept(r, Respond(ClosedData(r), n, k))
    BY <1>5, <2>1
  <2> QED BY <2>3, <2>4, LoginStays
<1>8. Cmd_rnto(c) => Asking(c) \/ (Cmd_rnto(c) /\ Failed(c))
  BY DEF Cmd_rnto, Asking
<1> QED BY <1>2, <1>3, <1>4, <1>6, <1>7, <1>8 DEF Handle, Simple, Asking

LEMMA LoginByData ==
    ASSUME TypeInv, LoginInv, NEW d \in Dcs, Transferred(d) \/ Lost(d)
    PROVE  LoginInv'
<1>1. PICK c : c = dcs[d].chan
  OBVIOUS
<1>2. c \in Channels /\ chan[c] \in Channel
  <2>1. dcs[d] \in Data /\ dcs[d].state # "free"
    BY DEF TypeInv, Transferred, Lost
  <2>2. c \in Channels
    BY <1>1, <2>1 DEF Data
  <2> QED BY <2>2 DEF TypeInv
<1>3. \E done \in BOOLEAN : chan' = [chan EXCEPT ![c] = XmitClosed(chan[c], d, done)]
  BY <1>1 DEF Transferred, Lost
<1>4. PICK done \in BOOLEAN : chan' = [chan EXCEPT ![c] = XmitClosed(chan[c], d, done)]
  BY <1>3
<1> DEFINE s == XmitClosed(chan[c], d, done)
<1>5. SameButOut([chan[c] EXCEPT !.dc = NoDc], s)
  BY <1>2, XmitClosedIs
<1> HIDE DEF s
<1>6. LoginKept(chan[c], s)
  BY <1>2, <1>5 DEF SameButOut, LoginKept, Channel
<1> QED BY <1>2, <1>4, <1>6, LoginStays DEF s

LEMMA LoginByApply ==
    ASSUME IInv, LoginInv, Apply
    PROVE  LoginInv'
<1> DEFINE t == Head(thunks)
<1>1. thunks # <<>> /\ TypeInv /\ DataInv
  BY DEF Apply, Ask_completion, Cwd_completion, Pass_completion, Listdir_completion, Retr_completion, Stor_completion, Done, IInv
<1>2. PICK c : c = t.chan
  OBVIOUS
<1>3. c \in Channels /\ chan[c] \in Channel /\ t.to \in Nat /\ t \in Thunks(c)
  <2>1. c \in Channels /\ t.to \in Nat /\ t \in Range(thunks)
    BY <1>1, <1>2, ThunkIs
  <2> QED BY <1>1, <1>2, <2>1 DEF Thunks, TypeInv
<1>4. CASE Telling
  <2>1. \E s \in Channel, k \in Codes : TellsOf(t, chan[c], s, k) /\ Completed(s)
    BY <1>1, <1>2, <1>4, TellingEffect
  <2>2. PICK s \in Channel, k \in Codes : TellsOf(t, chan[c], s, k) /\ Completed(s)
    BY <2>1
  <2>3. LoginKept(chan[c], s) /\ chan' = [chan EXCEPT ![c] = s]
    BY <1>2, <2>2, SameIsKept DEF TellsOf, Completed
  <2> QED BY <1>1, <1>3, <2>3, LoginStays
<1>5. CASE Opening
  <2>1. \E s \in Channel, load \in Loads, d \in Unused :
            OpensOf(t, chan[c], s, d, load) /\ chan' = [chan EXCEPT ![c] = s]
    BY <1>1, <1>2, <1>5, OpeningEffect
  <2>2. PICK s \in Channel, load \in Loads, d \in Unused :
            OpensOf(t, chan[c], s, d, load) /\ chan' = [chan EXCEPT ![c] = s]
    BY <2>1
  <2>3. LoginKept(chan[c], s)
    BY <2>2, SameIsKept DEF OpensOf
  <2> QED BY <1>1, <1>3, <2>2, <2>3, LoginStays
<1>6. CASE Stor_completion
  <2> DEFINE k == IF t.ok THEN 226 ELSE 426
             told == Respond(chan[c], t.to, k)
  <2>1. k \in Codes
    BY CodesAre
  <2>2. told \in Channel /\ SameButOut(chan[c], told)
    <3> HIDE DEF k, t
    <3> QED BY <1>3, <2>1, RespondIs
  <2>3. chan' = [chan EXCEPT ![c] = chan[c]] \/ chan' = [chan EXCEPT ![c] = ClosedData(told)]
    BY <1>2, <1>6 DEF Stor_completion, Completed
  <2> HIDE DEF told
  <2>4. SameLogin(told, ClosedData(told))
    BY <1>1, <2>2, ClosedIs
  <2>5. LoginKept(chan[c], ClosedData(told)) /\ LoginKept(chan[c], chan[c])
    BY <2>2, <2>4 DEF SameLogin, SameButOut, LoginKept
  <2> QED BY <1>1, <1>3, <2>3, <2>5, LoginStays
<1>7. CASE Pass_completion
  <2>1. t.name = "PASS" /\ \E s \in Channel : Completed(s) /\ (Refused(t, chan[c], s) \/ LetIn(t, chan[c], s))
    BY <1>1, <1>2, <1>7, PassedEffect
  <2>2. PICK s \in Channel : Completed(s) /\ (Refused(t, chan[c], s) \/ LetIn(t, chan[c], s))
    BY <2>1
  <2>3. chan' = [chan EXCEPT ![c] = s]
    BY <1>2, <2>2 DEF Completed
  <2>4. CASE Refused(t, chan[c], s)
    <3>1. LoginKept(chan[c], s)
      BY <2>4 DEF Refused, SameButOut, LoginKept
    <3> QED BY <1>1, <1>3, <2>3, <3>1, LoginStays
  <2>5. CASE LetIn(t, chan[c], s) /\ chan[c].state = "open"
    <3>1. ~chan[c].anonymous
      <4>1. Here(c) /\ ChannelInv(c)
        BY <1>3, <2>5 DEF Here, IInv
      <4>2. Asks(t, user[c], chan[c])
        BY <1>1, <1>3, <4>1, Waiting
      <4> QED BY <2>1, <4>2 DEF Asks
    <3>2. CheckLimit(chan[c]) /\ s.authorized /\ s.userid = chan[c].userid /\ s.as = chan[c].userid
      BY <2>5 DEF LetIn
    <3> QED BY <1>1, <1>3, <2>3, <2>5, <3>1, <3>2, LoginGranted
  <2>6. CASE LetIn(t, chan[c], s) /\ chan[c].state # "open"
    <3>1. s.state # "open" /\ s.authorized /\ s.as = s.userid
      BY <2>6 DEF LetIn
    <3> QED BY <1>1, <1>3, <2>3, <3>1, LoginOutside
  <2> QED BY <2>2, <2>4, <2>5, <2>6
<1> QED BY <1>4, <1>5, <1>6, <1>7 DEF Apply, Telling, Opening

LEMMA LoginByClient ==
    ASSUME TypeInv, LoginInv, NEW c \in Channels, Accept(c) \/ Flush(c) \/ Arrives(c) \/ Close(c)
    PROVE  LoginInv'
<1> DEFINE r == chan[c]
<1>1. r \in Channel
  BY DEF TypeInv
<1>2. CASE Accept(c)
  <2>1. LoginKept(r, NewChannel) /\ chan' = [chan EXCEPT ![c] = NewChannel]
    BY <1>2 DEF Accept, NewChannel, LoginKept
  <2> QED BY <2>1, LoginStays
<1>3. CASE Flush(c) \/ Arrives(c)
  <2>1. chan' = [chan EXCEPT ![c].out = Tail(@)] \/ \E p : chan' = [chan EXCEPT ![c].pasv = p]
    BY <1>3 DEF Flush, Arrives
  <2>2. \/ chan' = [chan EXCEPT ![c] = [r EXCEPT !.out = Tail(@)]]
        \/ \E p : chan' = [chan EXCEPT ![c] = [r EXCEPT !.pasv = p]]
    BY <2>1 DEF TypeInv
  <2>3. LoginKept(r, [r EXCEPT !.out = Tail(@)]) /\ \A p : LoginKept(r, [r EXCEPT !.pasv = p])
    <3> HIDE DEF r
    <3> QED BY <1>1 DEF LoginKept, Channel
  <2> HIDE DEF r
  <2>4. \E s : chan' = [chan EXCEPT ![c] = s] /\ LoginKept(r, s)
    BY <2>2, <2>3
  <2> QED BY <2>4, LoginStays DEF r
<1>4. CASE Close(c)
  <2> DEFINE g == [r EXCEPT !.state = "closed"]
             z == ClosedData(g)
             s == [z EXCEPT !.state = IF Raises(r.dc) THEN "stuck" ELSE "closed",
                            !.pasv = IF @ = "listening" THEN "dead" ELSE @, !.out = <<>>]
  <2>1. chan' = [chan EXCEPT ![c] = s]
    BY <1>4 DEF Close
  <2>2. g \in Channel /\ g.as = r.as /\ g.userid = r.userid /\ g.authorized = r.authorized
    <3> HIDE DEF r
    <3> QED BY <1>1 DEF Channel
  <2> HIDE DEF g
  <2>3. z \in Channel /\ SameLogin(g, z)
    BY <2>2, ClosedIs
  <2> HIDE DEF z
  <2>4. s.state # "open" /\ s.as = z.as /\ s.userid = z.userid /\ s.authorized = z.authorized
    BY <2>3 DEF Channel
  <2> HIDE DEF s
  <2>5. LoginKept(r, s)
    BY <2>2, <2>3, <2>4 DEF SameLogin, LoginKept
  <2> QED BY <2>1, <2>5, LoginStays
<1> QED BY <1>2, <1>3, <1>4

LEMMA LoginStep ==
    ASSUME IInv, LoginInv, [Next]_vars
    PROVE  LoginInv'
<1>1. TypeInv /\ DataInv
  BY DEF IInv
<1>2. ASSUME chan' = chan PROVE LoginInv'
  <2>1. AsInv'
    BY <1>2 DEF LoginInv, AsInv
  <2>2. LimitsHold'
    BY <1>2, Zenon DEF LoginInv, LimitsHold
  <2> QED BY <2>1, <2>2 DEF LoginInv
<1>3. ASSUME NEW c \in Channels, Handle(c) PROVE LoginInv'
  BY <1>1, <1>3, LoginByHandle
<1>4. ASSUME NEW c \in Channels, Accept(c) \/ Flush(c) \/ Arrives(c) \/ Close(c) PROVE LoginInv'
  BY <1>1, <1>4, LoginByClient
<1>5. ASSUME NEW d \in Dcs, Transferred(d) \/ Lost(d) PROVE LoginInv'
  BY <1>1, <1>5, LoginByData
<1>6. CASE Apply
  BY <1>6, LoginByApply
<1>7. ASSUME \/ \E c \in Channels : \E m \in user[c].plan : Send(c, m)
             \/ \E d \in Dcs : Connected(d)
             \/ \E d \in Dcs : Uploaded(d)
             \/ \E c \in Channels : Served(c)
             \/ UNCHANGED vars
      PROVE  LoginInv'
  <2>1. chan' = chan
    BY <1>7 DEF Send, Connected, Uploaded, Served, Work, vars
  <2> QED BY <1>2, <2>1
<1> QED BY <1>3, <1>4, <1>5, <1>6, <1>7 DEF Next

LEMMA LoginInit ==
    ASSUME Init
    PROVE  LoginInv
<1>1. \A c \in Channels : chan[c].state = "none" /\ chan[c].as = NoUser
  BY DEF Init, NewChannel
<1>2. In = {} /\ \A u : InAs(u) = {}
  BY <1>1 DEF In, InAs
<1>3. Cardinality(In) <= TotalLimit
  BY <1>2, FS_EmptySet, FtpAssumption
<1> QED BY <1>1, <1>2, <1>3, LimitsAre DEF LoginInv, AsInv, FewAs

-----------------------------------------------------------------------------
(* The theorems                                                            *)

\* Type correctness: channels, data channels, requests, completions, commands and
\* clients have the shapes that the handlers of ZServer/FTPServer.py rely on, even
\* when clients abort at any time.
THEOREM TypeCorrect == Spec => []TypeInv
<1>1. Init => TypeInv /\ DataInv
  BY TypeInit, DataInit
<1>2. TypeInv /\ DataInv /\ [Next]_vars => (TypeInv /\ DataInv)'
  BY TypeStep, DataStep
<1> QED BY <1>1, <1>2, PTL DEF Spec

LEMMA IInvInit == Init => IInv
BY TypeInit, DataInit, ChannelsInit DEF IInv

LEMMA IInvStep ==
    ASSUME Urgent = FALSE, IInv, [Next]_vars
    PROVE  IInv'
BY TypeStep, DataStep, ChannelsStep DEF IInv

LEMMA ChannelRead ==
    ASSUME IInv, NEW c \in Channels, chan[c].state = "open", chan[c].out # <<>>, Head(chan[c].out) # Bye
    PROVE  LET x == Head(chan[c].out)
               owed == user[c].owed
           IN  owed # <<>> /\ (x.to = Head(owed) \/ (Len(owed) = 2 /\ x.to = owed[2] /\ x.code = 226))
<1> DEFINE o == user[c].owed
           out == chan[c].out
<1>1. TypeInv /\ ChannelInv(c) /\ Here(c)
  BY DEF IInv, Here
<1>2. /\ OrderlyType(o, line[c], Reqs(c), Thunks(c), Active(c), out)
      /\ Orderly(o, line[c], Reqs(c), Thunks(c), Active(c), out)
  BY <1>1, TypedGood DEF GoodType, ChannelInv, Good
<1>3. o \in Seq(Nat)
  BY <1>2 DEF OrderlyType
<1> HIDE DEF o, out
<1>4. out # <<>> /\ Head(out) # Bye
  BY DEF out
<1>5. /\ Len(o) \in {1, 2}
      /\ Head(out).to = o[1] \/ (Len(o) = 2 /\ Head(out).to = o[2] /\ Head(out).code = 226)
  BY <1>2, <1>4, ReadStep
<1>6. o # <<>> /\ Head(o) = o[1]
  <2>1. o # <<>>
    BY <1>5
  <2> QED BY <1>3, <2>1, TailRange
<1> QED BY <1>5, <1>6 DEF o, out

\* No reply is late, doubled or another command's: whatever the workers and the data
\* connections do, what found_terminator, the completions and the data channels push
\* is the answer to the command the client waits for, if clients abort transfers only.
THEOREM RepliesAlwaysFit ==
    ASSUME Urgent = FALSE
    PROVE  Spec => []RepliesFit
<1>1. Init => IInv
  BY IInvInit
<1>2. IInv /\ [Next]_vars => IInv'
  BY IInvStep
<1>3. IInv => RepliesFit
  BY ChannelRead DEF RepliesFit
<1> QED BY <1>1, <1>2, <1>3, PTL DEF Spec

LEMMA ChannelGot ==
    ASSUME IInv, NEW c \in Channels, NEW k \in DOMAIN chan[c].out, chan[c].state = "open",
           user[c].want # NoLoad, chan[c].out[k] = [to |-> user[c].want[1], code |-> 226]
    PROVE  user[c].got = user[c].want[2]
<1>1. TypeInv /\ ChannelInv(c) /\ Here(c)
  BY DEF IInv, Here
<1>2. AllTold(chan[c].out, user[c], chan[c])
  BY <1>1, OwedAre DEF Knows
<1>3. Told(chan[c].out[k], user[c], chan[c])
  BY <1>2 DEF AllTold
<1>4. chan[c].out[k].code = 226 /\ chan[c].out[k].to = user[c].want[1]
  OBVIOUS
<1> QED BY <1>3, <1>4 DEF Told

\* The right file of the right folder: the folder of a transfer is the channel's when
\* the command is handled and the client's when it is sent, and no CWD that is still
\* under way, no earlier RETR and no other channel changes what the 226 is told of.
THEOREM TransfersAreAsked ==
    ASSUME Urgent = FALSE
    PROVE  Spec => []DataIsAsked
<1>1. Init => IInv
  BY IInvInit
<1>2. IInv /\ [Next]_vars => IInv'
  BY IInvStep
<1>3. IInv => DataIsAsked
  BY ChannelGot DEF DataIsAsked
<1> QED BY <1>1, <1>2, <1>3, PTL DEF Spec

\* FTPLimiter.check_limit holds for every overlap of logins: it runs when the answer
\* to PASS is there, in the step that lets the channel in.
THEOREM LimitsAlwaysHold ==
    ASSUME Urgent = FALSE
    PROVE  Spec => []LimitsHold
<1>1. Init => IInv /\ LoginInv
  BY IInvInit, LoginInit
<1>2. IInv /\ LoginInv /\ [Next]_vars => (IInv /\ LoginInv)'
  BY IInvStep, LoginStep
<1>3. LoginInv => LimitsHold
  BY DEF LoginInv
<1> QED BY <1>1, <1>2, <1>3, PTL DEF Spec
=============================================================================
