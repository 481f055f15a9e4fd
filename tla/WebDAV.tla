------------------------------- MODULE WebDAV -------------------------------
(***************************************************************************)
(* The WebDAV methods that change the tree of objects, and their locks     *)
(* (webdav/Resource.py, Collection.py, NullResource.py, Lockable.py,       *)
(* davcmds.py), over the containers of ObjectTree, of which locks is the   *)
(* tokens that are valid.                                                  *)
(*                                                                         *)
(* A method that raises, and a LOCK or UNLOCK that answers 207, aborts its *)
(* transaction.  Refreshing a lock changes nothing that is modelled: a     *)
(* valid lock may expire at any time.  Every object is lockable.           *)
(***************************************************************************)
EXTENDS ObjectTree

CONSTANTS LockNulls,   \* objects that are LockNullResources
          Deep,        \* the tokens of locks with Depth: infinity
          NoPath,      \* a tag of an If header without a resource
          IntoItself   \* whether clients move collections into themselves

ASSUME DavAssumption ==
    /\ LockNulls \subseteq Nodes \ Folders /\ LockNulls \in Kinds
    /\ Deep \subseteq Tokens /\ IntoItself \in BOOLEAN

VARIABLE stale   \* the tokens of _dav_writelocks that have expired

dvars == <<list, attr, index, locks, clip, stale>>

Held(n) == locks[n] \cup stale[n]

FreshTokens == {t \in Tokens : \A n \in Nodes : t \notin Held(n)}

\* The path of a collection, for one of its members
Lobbed(path) == IF path = <<>> THEN <<>> ELSE Front(path)

-----------------------------------------------------------------------------
(* If headers: sets of tags, each of a token and perhaps a resource.  A tag  *)
(* that is negated counts as one of a token that no resource has.            *)

\* Where nothing is locked, one tag says as much as any.
IfHeaders ==
    LET paths == IF \E n \in Nodes : Locked(n) THEN {PathOf(Site, n) : n \in Below(Site, Root)} ELSE {}
    IN  {{}} \cup {{[at |-> p, token |-> t]} : p \in {NoPath} \cup paths, t \in Tokens}

\* dav__simpleifhandler for the resource n, called with url
IfOutcome(n, ifh, url) ==
    IF ifh = {} THEN IF Locked(n) THEN "locked" ELSE "none"
    ELSE IF \E tag \in ifh : tag.token \in locks[n] /\ tag.at \in {NoPath, url} THEN "true"
    ELSE IF \E tag \in ifh : tag.at = url THEN "failed"
    ELSE "false"

\* The methods that ignore what dav__simpleifhandler returns
Passes(n, ifh, url) == ifh # {} /\ IfOutcome(n, ifh, url) # "failed"

\* A client has a header that passes a test (any client may know any token).
Admitted(Test(_)) == {ifh \in IfHeaders : Test(ifh)} # {}

-----------------------------------------------------------------------------
(* Locks *)

Commit(s, ls, st) ==
    /\ Becomes(s, ls)
    /\ LET here == Below(s, Root) IN stale' = [n \in Nodes |-> IF n \in here THEN st[n] ELSE {}]
    /\ UNCHANGED clip

\* wl_lockmapping(killinvalids=1) of these objects ...
Purged(asked) == [n \in Nodes |-> IF n \in asked THEN {} ELSE stale[n]]

\* ... and __no_valid_write_locks__ of those that are LockNullResources
Swept(s, asked) ==
    LET ended == {n \in asked \cap LockNulls : ~Locked(n)}
    IN  FoldLeft(LAMBDA t, n : DelObject(t, Container(t, n), IdOf(t, n), TRUE), s, SetToSeq(ended))

\* LockItem.isValid no longer
Expire(n, t) ==
    /\ t \in locks[n]
    /\ locks' = [locks EXCEPT ![n] = @ \ {t}] /\ stale' = [stale EXCEPT ![n] = @ \cup {t}]
    /\ UNCHANGED <<list, attr, index, clip>>

\* Mutated: LOCK with Depth: infinity passes over the members that are locked.
LockWhereFree(n, t) ==
    LET members == IF t \in Deep THEN {m \in Below(Site, n) : ~Locked(m)} ELSE {n}
    IN  /\ InTree(n) /\ n \notin LockNulls /\ ~Locked(n) /\ t \in FreshTokens
        /\ Commit(Swept(Site, members),
                  [m \in Nodes |-> IF m \in members THEN locks[m] \cup {t} ELSE locks[m]],
                  Purged(members))

\* Mutated: a lock with Depth: infinity does not ask the members.
LockAnyway(n, t) ==
    LET members == IF t \in Deep THEN Below(Site, n) ELSE {n}
    IN  /\ InTree(n) /\ n \notin LockNulls /\ ~Locked(n) /\ t \in FreshTokens
        /\ Commit(Site, [m \in Nodes |-> IF m \in members THEN locks[m] \cup {t} ELSE locks[m]],
                  Purged({n}))

\* Resource.LOCK and Lock.apply
LOCK(n, t) ==
    LET members == IF t \in Deep THEN Below(Site, n) ELSE {n}
    IN  /\ InTree(n) /\ n \notin LockNulls /\ t \in FreshTokens
        /\ \A m \in members : ~Locked(m)
        /\ Commit(Swept(Site, members),
                  [m \in Nodes |-> IF m \in members THEN locks[m] \cup {t} ELSE locks[m]],
                  Purged(members))

Without(ls, members, t) == [m \in Nodes |-> IF m \in members THEN ls[m] \ {t} ELSE ls[m]]

\* Resource.UNLOCK and Unlock.apply: of every object below
UNLOCK(n, t) ==
    LET members == Below(Site, n)
    IN  /\ InTree(n) /\ n \notin LockNulls
        /\ \A m \in members : t \in Held(m)
        /\ Commit(Site, Without(locks, members, t), Without(stale, members, t))

\* LockNullResource.UNLOCK
NullUNLOCK(n, t) ==
    /\ InTree(n) /\ n \in LockNulls /\ t \in Held(n)
    /\ Commit(DelObject(Site, Container(Site, n), IdOf(Site, n), TRUE), locks, stale)

-----------------------------------------------------------------------------
(* What is not there yet *)

\* The lock of the parent, for NullResource.PUT, MKCOL and LOCK
ParentAllows(c, ifh) ==
    IF Locked(c) THEN Passes(c, ifh, PathOf(Site, c)) ELSE ifh = {}

Create(c, id, n, ls, asked) ==
    Commit(SetObject(Site, c, id, n, TRUE), ls, Purged(asked))

New(c, id, n) == InTree(c) /\ attr[c][id] = NoNode /\ ~InTree(n)

\* NullResource.PUT; the PUT of the new object checks the header again
NullPUT(c, id, n) ==
    /\ n \notin Folders \cup LockNulls /\ New(c, id, n)
    /\ Admitted(LAMBDA ifh : /\ ParentAllows(c, ifh)
                             /\ ~\E tag \in ifh : tag.at = Append(PathOf(Site, c), id))
    /\ Create(c, id, n, locks, {c})

\* NullResource.MKCOL
NullMKCOL(c, id, n) ==
    /\ n \in Folders /\ New(c, id, n)
    /\ Admitted(LAMBDA ifh : ParentAllows(c, ifh))
    /\ Create(c, id, n, locks, {c})

\* NullResource.LOCK
NullLOCK(c, id, n, t) ==
    /\ n \in LockNulls /\ t \in FreshTokens /\ New(c, id, n)
    /\ Admitted(LAMBDA ifh : ParentAllows(c, ifh))
    /\ Create(c, id, n, [locks EXCEPT ![n] = {t}], {c})

\* LockNullResource.PUT and MKCOL ask for the URL of the parent's parent.
NullAllows(x, ifh) ==
    LET c == Container(Site, x)
    IN  /\ ifh # {}
        /\ Locked(c) => IfOutcome(c, ifh, Lobbed(PathOf(Site, c))) = "true"
        /\ IfOutcome(x, ifh, PathOf(Site, x)) = "true"

Transferred(ls, x, n) == [ls EXCEPT ![n] = ls[x]]

\* LockNullResource.PUT and MKCOL: the locks go to the new object
Fill(x, n) ==
    LET c == Container(Site, x)
        id == IdOf(Site, x)
    IN  /\ InTree(x) /\ x \in LockNulls /\ ~InTree(n) /\ n \notin LockNulls
        /\ Admitted(LAMBDA ifh : NullAllows(x, ifh))
        /\ Commit(SetObject(DelObject(Site, c, id, TRUE), c, id, n, TRUE),
                  Transferred(locks, x, n), Purged({x, c}))

-----------------------------------------------------------------------------
(* DELETE, COPY and MOVE *)

\* The locks of a resource and of its parent, for DELETE
LocksAllowDelete(n, ifh) ==
    LET c == Container(Site, n)
        url == PathOf(Site, IF n \in Folders THEN c ELSE n)
    IN  IF Locked(n) THEN Passes(n, ifh, url)
        ELSE Locked(c) => Passes(c, ifh, PathOf(Site, c))

\* The token that Collection.DELETE finds in the header, for DeleteCollection
Conflicts(n, ifh) ==
    {m \in Below(Site, n) : Locked(m) /\ ~\E tag \in ifh : tag.token \in locks[n] \cap locks[m]}

\* Mutated: Collection.DELETE does not check the members.
MayDeleteUnlocked(n, ifh) ==
    InTree(n) /\ n # Root /\ n \notin LockNulls /\ LocksAllowDelete(n, ifh) /\ ~Locked(n)

\* manage_delObjects asks again whether the object is locked.
MayDelete(n, ifh) ==
    /\ InTree(n) /\ n # Root /\ n \notin LockNulls
    /\ LocksAllowDelete(n, ifh)
    /\ n \in Folders => Conflicts(n, ifh) = {}
    /\ ~Locked(n)
    /\ Container(Site, n) = Root => IdOf(Site, n) \notin Reserved
    /\ ~Vetoed(Site, n)

DELETE(n) ==
    /\ Admitted(LAMBDA ifh : MayDelete(n, ifh))
    /\ Commit(DelObject(Site, Container(Site, n), IdOf(Site, n), TRUE), locks,
              Purged({n, Container(Site, n)}))

\* Collection.DELETE of a collection with a member that is locked answers 207
\* and deletes nothing, but the LockNullResources whose locks have expired.
DELETERefused(n) ==
    /\ InTree(n) /\ n # Root /\ n \in Folders
    /\ Admitted(LAMBDA ifh : LocksAllowDelete(n, ifh) /\ Conflicts(n, ifh) # {})
    /\ Commit(Swept(Site, Below(Site, n)), locks, Purged(Below(Site, n) \cup {Container(Site, n)}))

\* The destination of COPY and MOVE, for a client that sends Overwrite: T
MayOverwrite(c, id) ==
    InTree(c) /\ (attr[c][id] # NoNode => ~Vetoed(Site, attr[c][id]))

Overwritten(s, c, id) ==
    IF s.attr[c][id] = NoNode THEN s ELSE DelObject(s, c, id, TRUE)

\* COPY compares tagged resources with the URL of the source.
CopyAllowed(n, c, id, ifh) ==
    LET dest == attr[c][id]
        url == PathOf(Site, n)
    IN  IF dest # NoNode THEN Locked(dest) => IfOutcome(dest, ifh, url) = "true"
        ELSE Locked(c) => Passes(c, ifh, url)

\* The copy loses its locks; those of its members stay.
COPY(n, c, id, deep) ==
    /\ InTree(n) /\ n # Root /\ n \notin LockNulls
    /\ MayOverwrite(c, id) /\ Admitted(LAMBDA ifh : CopyAllowed(n, c, id, ifh))
    /\ \E m \in Copies(IF deep THEN Below(Site, n) ELSE {n}) :
          LET Carried(f) == [k \in Nodes |->
                               IF k = m[n] THEN {}
                               ELSE IF \E x \in DOMAIN m : m[x] = k
                               THEN f[CHOOSE x \in DOMAIN m : m[x] = k] ELSE f[k]]
          IN  Commit(SetObject(Overwritten(WithCopies(Site, m), c, id), c, id, m[n], TRUE),
                     Carried(locks), Carried(Purged({c})))

MoveAllowed(n, c, id, ifh) ==
    LET dest == attr[c][id]
        from == PathOf(Site, c)
    IN  /\ IF dest # NoNode THEN Locked(dest) => IfOutcome(dest, ifh, Append(from, id)) = "true"
           ELSE Locked(c) => IfOutcome(c, ifh, from) = "true"
        /\ Locked(n) => IfOutcome(n, ifh, PathOf(Site, n)) = "true"

\* What is moved is a copy with its locks, modelled as the object itself.  It may
\* be put below itself, where no path from the root leads any more.
MOVE(n, c, id) ==
    LET from == Container(Site, n)
        out == DelObject(Unindexed(Site, n), from, IdOf(Site, n), FALSE)
        set == SetObject(Overwritten(out, c, id), c, id, n, FALSE)
    IN  /\ InTree(n) /\ n # Root /\ n \notin LockNulls /\ Moveable(Site, n) /\ ~Vetoed(Site, n)
        /\ IntoItself \/ c \notin Below(Site, n)
        /\ MayOverwrite(c, id) /\ attr[c][id] # n
        /\ Admitted(LAMBDA ifh : MoveAllowed(n, c, id, ifh))
        /\ Commit(Indexed(set, n), locks, Purged({n, c}))

DInit == TInit /\ stale = [n \in Nodes |-> {}]

Opens(n, t) == LOCK(n, t) \/ UNLOCK(n, t) \/ NullUNLOCK(n, t) \/ Expire(n, t)

DNext ==
    \/ \E n \in Nodes, t \in Tokens : Opens(n, t)
    \/ \E c \in Folders, id \in Ids, n \in Nodes : NullPUT(c, id, n)
    \/ \E c \in Folders, id \in Ids, n \in Nodes : NullMKCOL(c, id, n)
    \/ \E c \in Folders, id \in Ids, n \in LockNulls, t \in Tokens : NullLOCK(c, id, n, t)
    \/ \E x, n \in Nodes : Fill(x, n)
    \/ \E n \in Nodes : DELETE(n)
    \/ \E n \in Nodes : DELETERefused(n)
    \/ \E n \in Nodes, c \in Folders, id \in Ids, deep \in BOOLEAN : COPY(n, c, id, deep)
    \/ \E n \in Nodes, c \in Folders, id \in Ids : MOVE(n, c, id)

DSpec == DInit /\ [][DNext]_dvars

-----------------------------------------------------------------------------
(* Properties *)

\* A LockNullResource never outlives its locks without one that can still be
\* given to UNLOCK to remove it, and a lock is exclusive: no object gets a second
\* one by a deep LOCK, a copy or what takes the place of a LockNullResource.
LocksFit ==
    \A n \in Nodes : /\ Cardinality(Held(n)) <= 1
                     /\ n \in LockNulls /\ InTree(n) => Held(n) # {}

\* DELETE, of the object or of a collection above it, never takes a locked object
\* out of the tree, with its token or without: it only goes when COPY or MOVE
\* puts another in the place of it or of one above it.  (UNLOCK and what fills a
\* LockNullResource remove that one.)
KeepsLocked ==
    LET At(s, p) == {e[2] : e \in {x \in Located(s, Root) : x[1] = p}}
        Replaced(n) == \E k \in 1 .. Len(PathOf(Site, n)) :
                          LET p == SubSeq(PathOf(Site, n), 1, k)
                          IN  At(Site', p) \notin {{}, At(Site, p)}
    IN  \A n \in Nodes \ LockNulls :
           Locked(n) /\ n \in Below(Site, Root) => n \in Below(Site', Root) \/ Replaced(n)

LockedIsNotDeleted == [][KeepsLocked]_dvars

\* A lock with Depth: infinity is granted on the whole of a collection or not at
\* all, and is taken back from the whole of it (IWriteLock).
LocksWhole ==
    \A n \in Folders, t \in Deep :
       LET here == n \in Below(Site, Root)
           all == Below(Site', n)
           granted == t \notin Held(n) /\ t \in Held(n)'
           takenBack == t \in locks[n] /\ t \notin Held(n)' /\ Site' = Site
       IN  /\ granted /\ here => \A m \in all : t \in Held(m)'
           /\ takenBack /\ here => \A m \in all : t \notin Held(m)'

DeepIsWhole == [][LocksWhole]_dvars

\* "Either we're not locked, or a succesful lock token was submitted so we can
\* delete": with the token of a locked resource, DELETE deletes it.
TokenDeletes ==
    \A n \in Nodes \ (Folders \cup LockNulls), t \in Tokens :
        InTree(n) /\ t \in locks[n] => MayDelete(n, {[at |-> NoPath, token |-> t]})

\* MOVE moves a resource to a new location: it does not take one out of the tree
\* for good, unless one is overwritten.
MoveMoves ==
    [][\A n \in Nodes, c \in Folders, id \in Ids :
          attr[c][id] = NoNode /\ MOVE(n, c, id) => n \in Below(Site', Root)]_dvars
=============================================================================
