------------------------------- MODULE Starter -------------------------------
(***************************************************************************)
(* Processes of one instance that start, serve and stop: the steps of      *)
(* Zope2/Startup, on Unix, of Zope2.startup and of AppInitializer, with    *)
(* the sockets, the lock file, the pid file, the storage, the application  *)
(* object and the file of the initial user that they share.  A script of   *)
(* zopectl (adduser) opens the database without being a server.            *)
(* Kills, and the late listening of fast-listen off, are part of it.       *)
(***************************************************************************)
EXTENDS Naturals, Sequences, SequencesExt

CONSTANTS Procs, Scripts,   \* processes, each started once, and those that run zopectl adduser
          Servers, Late,    \* the servers of the configuration, and those with fast-listen off
          Databases,        \* what the database may hold at first
          MaxKills          \* a bound of the model

None == "none"

VARIABLES
    pc,         \* process -> the step that it is to take
    bound,      \* process -> the servers that it has bound
    listening,  \* server -> the process that listens to it
    lockpath,   \* what lock_filename names: the file made by a process, or none
    lockfile,   \* process -> the file that it has opened as lockfile
    flocked,    \* files that are locked
    pidfile,    \* the process that pid_filename names, or none
    storage,    \* processes that have the database open
    db,         \* [shared, has, users, serial]: serial is of the root, the application and acl_users
    view,       \* process -> db as its transaction sees it
    inituser,   \* the file: "there", "used", or "absent" from the beginning
    kills,      \* processes killed so far
    alone,      \* history: no two were ever past setupServers at once,
    stopped,    \* one has stopped, and
    lost        \* one failed between removing inituser and committing

svars == <<pc, bound, listening, lockpath, lockfile, flocked, pidfile, storage, db, view, inituser,
           kills, alone, stopped, lost>>
files == <<lockpath, lockfile, flocked, pidfile>>
history == <<alone, stopped, lost>>

\* prepare, with the steps of makeLockFile, makePidFile and initialize; then run and shutdown
ServerSteps == <<"setupServers", "lockExists", "lockUnlink", "lockOpen", "pidExists", "pidUnlink", "pidWrite",
                 "database", "Application", "Control_Panel", "Owner", "Authenticated", "inituser", "user", "migrated", "unused",
                 "virtual_hosting", "serverListen", "serving", "close", "closeDatabase", "unlinkLock",
                 "unlinkPid", "gone">>
\* Mutated: the files are made first.
FilesFirst == SubSeq(ServerSteps, 2, 7) \o <<"setupServers">> \o SubSeq(ServerSteps, 8, Len(ServerSteps))

Prepare == ServerSteps

ScriptSteps == <<"database", "Application", "Control_Panel", "Owner", "Authenticated", "inituser", "user", "migrated", "unused",
                 "virtual_hosting", "adduser", "gone">>
Steps(p) == IF p \in Scripts THEN ScriptSteps ELSE Prepare
Number(p, step) == CHOOSE i \in DOMAIN Steps(p) : Steps(p)[i] = step
After(p, step) == Steps(p)[Number(p, step) + 1]

Goes(p, step) == pc' = [pc EXCEPT ![p] = step]
Proceeds(p) == Goes(p, After(p, pc[p]))
Running(p) == pc[p] # "gone"
Past(p, step) == p \notin Scripts /\ Running(p) /\ Number(p, pc[p]) > Number(p, step)

\* The process ends: what the system holds for it is released, the files stay.
Ends(p) ==
    /\ Goes(p, "gone")
    /\ bound' = [bound EXCEPT ![p] = {}]
    /\ listening' = [s \in Servers |-> IF listening[s] = p THEN None ELSE listening[s]]
    /\ flocked' = flocked \ {lockfile[p]}
    /\ lockfile' = [lockfile EXCEPT ![p] = None]
    /\ storage' = storage \ {p}
    /\ lost' = (lost \/ (pc[p] = "user" /\ view[p].removed))
    /\ UNCHANGED <<lockpath, pidfile, db, view, inituser, alone, stopped>>
Fails(p) == Ends(p) /\ UNCHANGED kills

-----------------------------------------------------------------------------
(* Zope2.Startup *)

\* setupServers: one that listens keeps others from binding, and so does one that is bound
\* from listening at once.
Bindable(p, s) == listening[s] = None /\ (s \in Late \/ \A q \in Procs \ {p} : s \notin bound[q])
SetupServers(p) ==
    /\ pc[p] = "setupServers"
    /\ IF \A s \in Servers : Bindable(p, s)
       THEN /\ Proceeds(p)
            /\ bound' = [bound EXCEPT ![p] = Servers]
            /\ listening' = [s \in Servers |-> IF s \in Late THEN None ELSE p]
            /\ alone' = (alone /\ \A q \in Procs \ {p} : ~Past(q, "setupServers"))
            /\ UNCHANGED <<files, storage, db, view, inituser, kills, stopped, lost>>
       ELSE Fails(p)

\* makeLockFile.  WindowsError is no name on Unix: an error that is caught raises NameError.
LockExists(p) ==
    /\ pc[p] = "lockExists"
    /\ Goes(p, IF lockpath # None THEN "lockUnlink" ELSE "lockOpen")
    /\ UNCHANGED <<bound, listening, files, storage, db, view, inituser, kills, history>>
LockUnlink(p) ==
    /\ pc[p] = "lockUnlink"
    /\ IF lockpath = None THEN Fails(p)
       ELSE /\ Proceeds(p) /\ lockpath' = None
            /\ UNCHANGED <<bound, listening, lockfile, flocked, pidfile, storage, db, view, inituser, kills, history>>
LockOpen(p) ==
    LET f == IF lockpath = None THEN p ELSE lockpath
    IN  /\ pc[p] = "lockOpen"
        /\ IF f \in flocked THEN Fails(p)
           ELSE /\ Proceeds(p)
                /\ lockpath' = f /\ lockfile' = [lockfile EXCEPT ![p] = f] /\ flocked' = flocked \cup {f}
                /\ UNCHANGED <<bound, listening, pidfile, storage, db, view, inituser, kills, history>>

\* makePidFile
PidExists(p) ==
    /\ pc[p] = "pidExists"
    /\ Goes(p, IF pidfile # None THEN "pidUnlink" ELSE "pidWrite")
    /\ UNCHANGED <<bound, listening, files, storage, db, view, inituser, kills, history>>
PidUnlink(p) ==
    /\ pc[p] = "pidUnlink"
    /\ IF pidfile = None THEN Fails(p)
       ELSE /\ Proceeds(p) /\ pidfile' = None
            /\ UNCHANGED <<bound, listening, lockpath, lockfile, flocked, storage, db, view, inituser, kills, history>>
PidWrite(p) ==
    /\ pc[p] = "pidWrite"
    /\ Proceeds(p) /\ pidfile' = p
    /\ UNCHANGED <<bound, listening, lockpath, lockfile, flocked, storage, db, view, inituser, kills, history>>

\* serverListen
ServerListen(p) ==
    /\ pc[p] = "serverListen"
    /\ IF \A s \in Late : listening[s] = None
       THEN /\ Proceeds(p)
            /\ listening' = [s \in Servers |-> IF s \in Late THEN p ELSE listening[s]]
            /\ UNCHANGED <<bound, files, storage, db, view, inituser, kills, history>>
       ELSE Fails(p)

\* A signal, and phase 2 of the shutdown: clean_shutdown_control closes the servers.
Signal(p) ==
    /\ pc[p] = "serving" /\ Proceeds(p)
    /\ UNCHANGED <<bound, listening, files, storage, db, view, inituser, kills, history>>
CloseServers(p) ==
    /\ pc[p] = "close" /\ Proceeds(p)
    /\ bound' = [bound EXCEPT ![p] = {}]
    /\ listening' = [s \in Servers |-> IF listening[s] = p THEN None ELSE listening[s]]
    /\ stopped' = TRUE
    /\ UNCHANGED <<files, storage, db, view, inituser, kills, alone, lost>>

\* shutdown
CloseDatabase(p) ==
    /\ pc[p] = "closeDatabase" /\ Proceeds(p)
    /\ storage' = storage \ {p}
    /\ UNCHANGED <<bound, listening, files, db, view, inituser, kills, history>>
UnlinkLock(p) ==
    /\ pc[p] = "unlinkLock" /\ Proceeds(p)
    /\ lockpath' = None /\ flocked' = flocked \ {lockfile[p]} /\ lockfile' = [lockfile EXCEPT ![p] = None]
    /\ UNCHANGED <<bound, listening, pidfile, storage, db, view, inituser, kills, history>>
UnlinkPid(p) ==
    /\ pc[p] = "unlinkPid" /\ Proceeds(p)
    /\ pidfile' = None
    /\ UNCHANGED <<bound, listening, lockpath, lockfile, flocked, storage, db, view, inituser, kills, history>>

Kill(p) ==
    /\ Running(p) /\ kills < MaxKills /\ kills' = kills + 1
    /\ Ends(p)

-----------------------------------------------------------------------------
(* Zope2.startup and AppInitializer *)

Now(d) == [has |-> d.has, users |-> d.users, serial |-> d.serial, removed |-> FALSE]

\* The storage is locked by the process that opens it, unless it is a server's (ZEO).
OpenDatabase(p) ==
    /\ pc[p] = "database"
    /\ IF storage = {} \/ db.shared
       THEN /\ Proceeds(p)
            /\ storage' = storage \cup {p}
            /\ view' = [view EXCEPT ![p] = Now(db)]
            /\ UNCHANGED <<bound, listening, files, db, inituser, kills, history>>
       ELSE Fails(p)

\* A transaction that rewrites some objects; then the next one begins.
CommitTo(p, has, users, rewrites) ==
    IF \E o \in rewrites : db.serial[o] # view[p].serial[o] THEN Fails(p)
    ELSE LET d == [db EXCEPT
                      !.has = IF rewrites \cap {"root", "app"} # {} THEN has ELSE @,
                      !.users = IF "acl_users" \in rewrites THEN users ELSE @,
                      !.serial = [o \in DOMAIN @ |-> IF o \in rewrites THEN @[o] + 1 ELSE @[o]]]
         IN  /\ Proceeds(p)
             /\ db' = d /\ view' = [view EXCEPT ![p] = Now(d)]
             /\ UNCHANGED <<bound, listening, files, storage, inituser, kills, history>>

Removed == {"Control_Panel", "unused"}
Added == {"Owner", "Authenticated", "migrated", "virtual_hosting"}
NewApplication == {"Application", "Owner", "Authenticated", "migrated"}

Installed(p) ==
    CASE pc[p] \in Removed -> view[p].has \ {pc[p]}
      [] pc[p] \in Added -> view[p].has \cup {pc[p]}
      [] pc[p] = "Application" -> IF view[p].has = {} THEN NewApplication ELSE view[p].has

\* ZApplicationWrapper.__init__, and the steps of initialize
Install(p) ==
    /\ pc[p] \in Removed \cup Added \cup {"Application"}
    /\ LET rewrites == CASE Installed(p) = view[p].has -> {}
                         [] Installed(p) # view[p].has /\ pc[p] = "Application" -> {"root"}
                         [] Installed(p) # view[p].has /\ pc[p] = "migrated" -> {"app", "acl_users"}
                         [] OTHER -> {"app"}
       IN  CommitTo(p, Installed(p), view[p].users, rewrites)

\* _createInitialUser: the file is removed,
CreatesInitialUser(p) == inituser = "there" /\ Len(view[p].users) <= 1
InitUser(p) ==
    /\ pc[p] = "inituser" /\ Proceeds(p)
    /\ IF CreatesInitialUser(p)
       THEN /\ inituser' = "used"
            /\ view' = [view EXCEPT ![p].removed = TRUE, ![p].users = <<"init">>]
       ELSE UNCHANGED <<inituser, view>>
    /\ UNCHANGED <<bound, listening, files, storage, db, kills, history>>
\* and install_inituser commits.
CommitUser(p) ==
    pc[p] = "user" /\ CommitTo(p, view[p].has, view[p].users, IF view[p].removed THEN {"acl_users"} ELSE {})

\* zopectl adduser, with the user folder's _doAddUser
AddUser(p) == pc[p] = "adduser" /\ CommitTo(p, view[p].has, Append(view[p].users, p), {"acl_users"})

-----------------------------------------------------------------------------
SInit ==
    /\ pc = [p \in Procs |-> Head(Steps(p))]
    /\ bound = [p \in Procs |-> {}] /\ listening = [s \in Servers |-> None]
    /\ lockpath = None /\ lockfile = [p \in Procs |-> None] /\ flocked = {} /\ pidfile = None
    /\ storage = {} /\ db \in Databases /\ view = [p \in Procs |-> Now(db)]
    /\ inituser \in {"there", "absent"}
    /\ kills = 0 /\ alone = TRUE /\ stopped = FALSE /\ lost = FALSE

SNext ==
    \E p \in Procs :
        \/ SetupServers(p) \/ ServerListen(p) \/ Signal(p) \/ CloseServers(p) \/ Kill(p)
        \/ LockExists(p) \/ LockUnlink(p) \/ LockOpen(p) \/ UnlinkLock(p)
        \/ PidExists(p) \/ PidUnlink(p) \/ PidWrite(p) \/ UnlinkPid(p)
        \/ OpenDatabase(p) \/ CloseDatabase(p)
        \/ Install(p) \/ InitUser(p) \/ CommitUser(p) \/ AddUser(p)

SSpec == SInit /\ [][SNext]_svars

-----------------------------------------------------------------------------
(* Properties *)

\* Whatever dies on the way: a process that serves is the one that the pid file and the
\* locked lock file name, unless another was past setupServers at the same time, which
\* takes a server that listens late or a shutdown; it serves a database that is complete;
\* and an initial user that was asked for is created before his file is gone, unless the
\* process that took it failed before it committed.
StartsRight ==
    /\ \A p \in Procs \ Scripts : pc[p] = "serving" =>
          /\ alone => pidfile = p /\ lockpath # None /\ lockpath = lockfile[p] /\ lockpath \in flocked
          /\ \A s \in Servers : listening[s] = p
          /\ p \in storage /\ Added \subseteq db.has /\ db.has \cap Removed = {}
    /\ alone \/ stopped \/ Late # {}
    /\ inituser = "used" =>
          \/ lost \/ (db.users # <<>> /\ db.users[1] = "init")
          \/ \E p \in Procs : pc[p] = "user" /\ view[p].removed
=============================================================================
