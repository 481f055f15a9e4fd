----------------------------- MODULE MountPoints -----------------------------
(***************************************************************************)
(* Mount points of temporary databases (Products/TemporaryFolder/mount.py, *)
(* class MountPoint and MountedConnectionCloser).  A mount point is a      *)
(* persistent object, so each connection of the main database has one of   *)
(* its own; the databases they mount are shared by the threads of the      *)
(* process, in `dbs`.  A connection serves one request at a time.          *)
(***************************************************************************)
EXTENDS Naturals, Sequences, SequencesExt

CONSTANTS Points,     \* mount points
          Params,     \* mount point -> _params, what the database is known by
          Conns,      \* connections of the main database
          MaxDbs,     \* databases that are ever created: a bound of the model
          MaxOpened   \* children of one connection: a bound of the model

None == 0             \* databases are numbered from 1

VARIABLES
    dbs,       \* params -> the database and the mount points that use it; none if they are {}
    created,   \* databases created so far
    closed,    \* those that are closed
    v_db,      \* <<connection, mount point>> -> the volatile reference to its database
    v_data,    \* ... -> the mounted object: "none", "here", or "deleted" in this transaction
    opening,   \* connection -> the mount point that it has looked up the database of, or "none"
    children,  \* connection -> closers of its child connections, in the order they were registered
    closing,   \* connection -> whether it is calling them
    releasing, \* connection -> mount points whose closer is about to release the database
    rash       \* history: a mount point was released that was still in use elsewhere

mvars == <<dbs, created, closed, v_db, v_data, opening, children, closing, releasing, rash>>

Busy(c) == opening[c] # "none" \/ closing[c]
Loses(c, p) == v_data' = [v_data EXCEPT ![<<c, p>>] = "none"]

\* Mutated: a mount point that finds the database open does not say that it uses it.
JoinedIfFirst(mounts, p) == IF mounts = {} THEN {p} ELSE mounts

Joined(mounts, p) == mounts \cup {p}

\* _getDB, with dblock: the database is created, or the mount point joins those that use it.
GetDB(c, p) ==
    /\ ~Busy(c) /\ v_data[<<c, p>>] = "none" /\ Len(children[c]) < MaxOpened
    /\ opening' = [opening EXCEPT ![c] = p]
    /\ IF v_db[<<c, p>>] # None THEN UNCHANGED <<dbs, created, v_db>>
       ELSE LET known == dbs[Params[p]].mounts # {}
                db == IF known THEN dbs[Params[p]].db ELSE created + 1
            IN  /\ known \/ created < MaxDbs
                /\ created' = IF known THEN created ELSE created + 1
                /\ dbs' = [dbs EXCEPT ![Params[p]] = [db |-> db, mounts |-> Joined(@.mounts, p)]]
                /\ v_db' = [v_db EXCEPT ![<<c, p>>] = db]
    /\ UNCHANGED <<closed, v_data, children, closing, releasing, rash>>

\* The rest of _getOrOpenObject: a child connection with its closer, and then the mounted
\* object, or an error, after which the closer is to close the database.  __of__ hides it.
OpenObject(c, found) ==
    LET p == opening[c]
    IN  /\ p # "none"
        /\ opening' = [opening EXCEPT ![c] = "none"]
        /\ children' = [children EXCEPT ![c] = Append(@, [point |-> p, db |-> v_db[<<c, p>>], close_db |-> ~found])]
        /\ v_data' = IF found THEN [v_data EXCEPT ![<<c, p>>] = "here"] ELSE v_data
        /\ UNCHANGED <<dbs, created, closed, v_db, closing, releasing, rash>>

\* ObjectManager._delObject, of what is mounted: _v__object_deleted__
Deleted(c, p) ==
    /\ ~Busy(c) /\ v_data[<<c, p>>] = "here"
    /\ v_data' = [v_data EXCEPT ![<<c, p>>] = "deleted"]
    /\ UNCHANGED <<dbs, created, closed, v_db, opening, children, closing, releasing, rash>>

\* The database drops the mount point from its cache, with the volatile attributes.
Deactivate(c, p) ==
    /\ ~Busy(c) /\ v_db[<<c, p>>] # None
    /\ v_db' = [v_db EXCEPT ![<<c, p>>] = None]
    /\ Loses(c, p)
    /\ UNCHANGED <<dbs, created, closed, opening, children, closing, releasing, rash>>

\* The connection is closed and calls the closers; the first part of __call__
CallCloser(c) ==
    LET closer == Head(children[c])
        releases == closer.close_db \/ v_data[<<c, closer.point>>] = "deleted"
    IN  /\ opening[c] = "none" /\ releasing[c] = {} /\ children[c] # <<>>
        /\ children' = [children EXCEPT ![c] = Tail(@)]
        /\ Loses(c, closer.point)
        /\ releasing' = [releasing EXCEPT ![c] = IF releases THEN {closer.point} ELSE {}]
        /\ closing' = [closing EXCEPT ![c] = releases \/ Len(children[c]) > 1]
        /\ UNCHANGED <<dbs, created, closed, v_db, opening, rash>>

\* Someone else is with the mount point, or was and remembers its database.
UsedElsewhere(c, p) ==
    \/ \E d \in Conns \ {c} : v_db[<<d, p>>] # None
    \/ \E d \in Conns : \E i \in DOMAIN children[d] : children[d][i].point = p

\* The second part, with dblock
Release(c) ==
    \E p \in releasing[c] :
        LET rest == dbs[Params[p]].mounts \ {p}
        IN  /\ releasing' = [releasing EXCEPT ![c] = {}]
            /\ closing' = [closing EXCEPT ![c] = children[c] # <<>>]
            /\ v_db' = [v_db EXCEPT ![<<c, p>>] = None]
            /\ dbs' = [dbs EXCEPT ![Params[p]].mounts = rest]
            /\ closed' = IF rest = {} THEN closed \cup {dbs[Params[p]].db} ELSE closed
            /\ rash' = (rash \/ UsedElsewhere(c, p))
            /\ UNCHANGED <<created, v_data, opening, children>>

-----------------------------------------------------------------------------
MInit ==
    /\ dbs = [q \in {Params[p] : p \in Points} |-> [db |-> None, mounts |-> {}]]
    /\ created = 0 /\ closed = {}
    /\ v_db = [x \in Conns \X Points |-> None] /\ v_data = [x \in Conns \X Points |-> "none"]
    /\ opening = [c \in Conns |-> "none"] /\ children = [c \in Conns |-> <<>>]
    /\ closing = [c \in Conns |-> FALSE] /\ releasing = [c \in Conns |-> {}] /\ rash = FALSE

MNext ==
    \E c \in Conns :
        \/ \E p \in Points : GetDB(c, p) \/ Deleted(c, p) \/ Deactivate(c, p)
        \/ \E found \in BOOLEAN : OpenObject(c, found)
        \/ CallCloser(c) \/ Release(c)

MSpec == MInit /\ [][MNext]_mvars

-----------------------------------------------------------------------------
(* Properties *)

\* "Be sure we don't close a database prematurely when it is mounted more than once":
\* while no mount point is released that another connection still has in use, every
\* database that a mount point refers to or that has a child connection is open and known
\* as that of its mount point; and what was mounted is gone with the last child connection.
MountsAreOpen ==
    /\ ~rash =>
          /\ \A x \in DOMAIN v_db : v_db[x] # None =>
                /\ v_db[x] \notin closed
                /\ dbs[Params[x[2]]].db = v_db[x] /\ x[2] \in dbs[Params[x[2]]].mounts
          /\ \A c \in Conns : \A i \in DOMAIN children[c] : children[c][i].db \notin closed
    /\ \A x \in DOMAIN v_data : v_data[x] # "none" => \E i \in DOMAIN children[x[1]] : children[x[1]][i].point = x[2]
=============================================================================
