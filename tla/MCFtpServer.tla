---------------------------- MODULE MCFtpServer ------------------------------
(* Instances of FtpServer.                                                   *)
EXTENDS FtpServer, TLC

CONSTANTS c1, c2

Cmd(name, arg) == [name |-> name, arg |-> arg]
User(name, path) == Cmd("USER", [name |-> name, path |-> path])
Cwd(path) == Cmd("CWD", [path |-> path])
Plain(names) == {Cmd(name, NoLoad) : name \in names}

Transfers == {Cmd("RETR", "f"), Cmd("STOR", "f")} \cup Plain({"PASS", "PASV", "LIST", "ABOR"})
Restarts == {Cmd("REST", TRUE), Cmd("REST", FALSE), Cmd("RETR", "f"), Cmd("RETR", "g"), Cmd("STOR", "f")} \cup Plain({"PASS", "ABOR"})
Others == {User("bob", "/d"), Cwd("/d"), Cwd("/e"), Cmd("RETR", "f"), Cmd("RNFR", "f")}
              \cup Plain({"PASS", "QUIT", "RNTO", "ASK", "NOOP"})
Moves == {User("bob", "/d"), Cwd("/d"), Cmd("STOR", "f")} \cup Plain({"PASS"})
Logins == {User("bob", NoPath), User("bob", "/d"), User("anonymous", NoPath)} \cup Plain({"PASS"})

MCPlans == {[c \in Channels |-> IF c = c1 THEN p ELSE {}] : p \in {Transfers, Restarts, Others, Moves}}
              \cup {[c \in Channels |-> Logins]}
=============================================================================
