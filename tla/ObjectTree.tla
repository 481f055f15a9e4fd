----------------------------- MODULE ObjectTree -----------------------------
(***************************************************************************)
(* The containers of OFS: objects in a tree of folders, added, deleted,    *)
(* renamed, reordered, cut, copied and pasted (ObjectManager.py,           *)
(* CopySupport.py, OrderSupport.py, Moniker.py) and the events that tell   *)
(* the objects of it (subscribers.py), seen by a catalog.                  *)
(*                                                                         *)
(* An operation that raises aborts its transaction: it is a step that is   *)
(* not taken.  Users hold every permission; ids are legal.                 *)
(***************************************************************************)
EXTENDS Naturals, FiniteSets, Sequences, SequencesExt

CONSTANTS Nodes,        \* the objects
          Folders,      \* those that contain objects
          Root,         \* the application
          Ordered,      \* the folders with order support
          Vetoers,      \* the objects whose manage_beforeDelete vetoes
          Replaceable,  \* the objects that give way to one of the same id
          Kinds,        \* sets of objects that a copy does not leave
          Ids,          \* ids of objects
          CopyOf,       \* the id tried for a copy when an id is taken
          Reserved,     \* _reserved_names of the application
          Tokens,       \* lock tokens
          Deltas,       \* how far objects are moved
          NoNode,       \* no object
          NoClip        \* an empty clipboard

ASSUME TreeAssumption ==
    /\ Root \in Folders /\ Folders \subseteq Nodes /\ NoNode \notin Nodes
    /\ Ordered \cup Vetoers \cup Replaceable \subseteq Nodes
    /\ {Folders, Ordered, Vetoers, Replaceable} \subseteq Kinds
    /\ IsFiniteSet(Nodes) /\ IsFiniteSet(Ids) /\ Reserved \subseteq Ids /\ Deltas \subseteq Nat
    /\ CopyOf \in [DOMAIN CopyOf -> Ids] /\ DOMAIN CopyOf \subseteq Ids

VARIABLES
    list,   \* _objects of each folder, the ids in order
    attr,   \* the objects that are attributes of each folder, by id
    index,  \* the catalog: what is known of each path
    locks,  \* the valid tokens of _dav_writelocks of each object
    clip    \* the cookie __cp: the operation and the paths

tvars == <<list, attr, index, locks, clip>>

\* What an operation changes, as one value.
Site == [list |-> list, attr |-> attr, index |-> index]

-----------------------------------------------------------------------------
(* Paths *)

\* The elements of a list that are in kept, in their order
Only(seq, kept) ==
    LET part[k \in 0 .. Len(seq)] ==
            IF k = 0 THEN <<>>
            ELSE IF seq[k] \in kept THEN Append(part[k - 1], seq[k]) ELSE part[k - 1]
    IN  part[Len(seq)]

Child(s, c, id) == IF c \in Folders THEN s.attr[c][id] ELSE NoNode

\* What is found of objects and their paths, and what these contain at a depth
Reached(s, above, depth) ==
    above \cup UNION {{<<Append(e[1], i), s.attr[e[2]][i]>> : i \in ToSet(s.list[e[2]])}
                         : e \in {x \in above : x[2] \in Folders /\ Len(x[1]) = depth}}

\* The objects below one, and their paths from it.
Located(s, n) ==
    LET down[k \in 0 .. Cardinality(Folders)] ==
            IF k = 0 THEN {<< <<>>, n >>} ELSE Reached(s, down[k - 1], k - 1)
    IN  down[Cardinality(Folders)]

\* Objects, and what these contain
WithKids(s, above) == above \cup ({s.attr[c][i] : c \in above \cap Folders, i \in Ids} \ {NoNode})

Below(s, n) ==
    LET down[k \in 0 .. Cardinality(Folders)] ==
            IF k = 0 THEN {n} ELSE WithKids(s, down[k - 1])
    IN  down[Cardinality(Folders)]

Container(s, n) == CHOOSE c \in Folders : \E i \in Ids : s.attr[c][i] = n
IdOf(s, n) == CHOOSE i \in Ids : s.attr[Container(s, n)][i] = n
Placed(s, n) == \E c \in Folders, i \in Ids : s.attr[c][i] = n

\* getPhysicalPath
PathOf(s, n) ==
    LET path[m \in Below(s, Root)] ==
            IF m = Root THEN <<>> ELSE Append(path[Container(s, m)], IdOf(s, m))
    IN  path[n]

InTree(n) == n = Root \/ Placed(Site, n)

\* unrestrictedTraverse by Moniker.bind: an id that is not found where the path
\* leads is acquired.  The state is the wrapped object, as the objects that
\* attributes are looked for in.
Bound(s, path) ==
    LET Climb(n) ==
            LET up[m \in Nodes] == IF m = Root \/ ~Placed(s, m) THEN <<m>>
                                   ELSE <<m>> \o up[Container(s, m)]
            IN  up[n]
        Next1(chain, id) ==
            LET holders == {j \in DOMAIN chain : Child(s, chain[j], id) # NoNode}
                j == CHOOSE x \in holders : \A y \in holders : x <= y
            IN  IF holders = {} THEN <<>>
                ELSE Climb(Child(s, chain[j], id)) \o chain
        end == FoldLeft(Next1, <<Root>>, path)
    IN  IF end = <<>> THEN NoNode ELSE Head(end)

-----------------------------------------------------------------------------
(* Events *)

\* Mutated: objects below the deleted one are not told.
OnlyItIsTold(s, n) == [s EXCEPT !.index = {e \in @ : e[2] # n}]

\* dispatchObjectWillBeMovedEvent: the object and those below it, whose
\* manage_beforeDelete takes them out of the catalog.
Unindexed(s, n) ==
    LET below == Below(s, n)
        gone == {e[1] : e \in {x \in Located(s, Root) : x[2] \in below}}
    IN  [s EXCEPT !.index = {e \in @ : e[1] \notin gone}]

\* dispatchObjectMovedEvent: manage_afterAdd
Indexed(s, n) ==
    LET below == Below(s, n)
    IN  [s EXCEPT !.index = @ \cup {x \in Located(s, Root) : x[2] \in below}]

\* A manage_beforeDelete of these may veto.
Vetoed(s, n) == Below(s, n) \cap Vetoers # {}

\* _delObject
DelObject(s, c, id, events) ==
    LET told == IF events THEN Unindexed(s, s.attr[c][id]) ELSE s
    IN  [told EXCEPT !.list[c] = Only(@, Ids \ {id}),
                     !.attr[c][id] = NoNode]

\* _setObject; events say whether they are suppressed
SetObject(s, c, id, n, events) ==
    LET free == IF s.attr[c][id] = NoNode THEN s ELSE DelObject(s, c, id, TRUE)
        set == [free EXCEPT !.list[c] = Append(@, id), !.attr[c][id] = n]
    IN  IF events THEN Indexed(set, n) ELSE set

\* checkValidId of a legal id
Allowed(s, c, id) == s.attr[c][id] \in Replaceable \cup {NoNode}

\* What _setObject replaces may veto its deletion.
MaySet(s, c, id) == s.attr[c][id] # NoNode => ~Vetoed(s, s.attr[c][id])

\* _get_id
FreeIds(s, c, id) ==
    LET WithNext(t) == IF Last(t) \in DOMAIN CopyOf THEN Append(t, CopyOf[Last(t)]) ELSE t
        tried[k \in 0 .. Cardinality(Ids)] == IF k = 0 THEN <<id>> ELSE WithNext(tried[k - 1])
        ids == tried[Cardinality(Ids)]
        free == {k \in DOMAIN ids : s.attr[c][ids[k]] = NoNode}
    IN  {ids[k] : k \in {x \in free : \A y \in free : x <= y}}

Locked(n) == locks[n] # {}

\* cb_isMoveable
Moveable(s, n) == n # Root /\ ~(Container(s, n) = Root /\ IdOf(s, n) \in Reserved)

\* _getCopy by export and import, with the locks; old are the objects copied
Copies(old) ==
    LET fresh == Nodes \ Below(Site, Root)
    IN  {m \in [old -> fresh] :
           /\ \A x, y \in old : m[x] = m[y] => x = y
           /\ \A x \in old : \A kind \in Kinds :
                 x \in kind <=> m[x] \in kind}

\* The copies, in the tree under none yet.
WithCopies(s, m) ==
    LET source(n) == CHOOSE x \in DOMAIN m : m[x] = n
        made == {m[x] : x \in DOMAIN m}
    IN  [s EXCEPT
           !.list = [c \in Folders |->
                       IF c \notin made THEN s.list[c]
                       ELSE Only(s.list[source(c)], {i \in Ids : s.attr[source(c)][i] \in DOMAIN m})],
           !.attr = [c \in Folders |->
                       IF c \notin made THEN s.attr[c]
                       ELSE [i \in Ids |-> LET k == s.attr[source(c)][i]
                                           IN  IF k \in DOMAIN m THEN m[k] ELSE NoNode]]]

CopiedLocks(m) ==
    [n \in Nodes |-> IF \E x \in DOMAIN m : m[x] = n
                     THEN locks[CHOOSE x \in DOMAIN m : m[x] = n] ELSE locks[n]]

\* An object that leaves the tree is forgotten.
Becomes(s, ls) ==
    LET here == Below(s, Root)
    IN  /\ list' = [c \in Folders |-> IF c \in here THEN s.list[c] ELSE <<>>]
        /\ attr' = [c \in Folders |-> [i \in Ids |-> IF c \in here THEN s.attr[c][i] ELSE NoNode]]
        /\ index' = s.index
        /\ locks' = [n \in Nodes |-> IF n \in here THEN ls[n] ELSE {}]

-----------------------------------------------------------------------------
(* Order *)

\* moveObjectsByDelta of a positive delta works on the reversed sequence.
MovedByDelta(seq, ids, down, delta) ==
    LET Turned(s) == IF down THEN Reverse(s) ELSE s
        Move(at, id) ==
            LET old == CHOOSE k \in DOMAIN at.seq : at.seq[k] = id
                new == IF old - delta > at.min THEN old - delta ELSE at.min
            IN  [seq |-> InsertAt(RemoveAt(at.seq, old), new, id),
                 min |-> IF new = at.min THEN at.min + 1 ELSE at.min]
    IN  Turned(FoldLeft(Move, [seq |-> Turned(seq), min |-> 1], Turned(ids)).seq)

\* moveObjectToPosition
ToPosition(seq, id, position) ==
    LET now == CHOOSE k \in DOMAIN seq : seq[k] = id
    IN  IF position > now THEN MovedByDelta(seq, <<id>>, TRUE, position - now)
        ELSE MovedByDelta(seq, <<id>>, FALSE, now - position)

\* moveObjectsUp, moveObjectsDown, and to the top and the bottom
MoveByDelta(c, ids, down, delta) ==
    /\ c \in Ordered /\ InTree(c) /\ ToSet(ids) \subseteq ToSet(list[c])
    /\ list' = [list EXCEPT ![c] = MovedByDelta(@, ids, down, delta)]
    /\ UNCHANGED <<attr, index, locks, clip>>

\* Up to two ids: a bound of the model.
Selections == {ids \in SetToAllKPermutations(Ids) : Len(ids) \in {1, 2}}

-----------------------------------------------------------------------------
(* Operations *)

\* _setObject of a new object, by any constructor
Add(c, id, n) ==
    /\ InTree(c) /\ ~InTree(n)
    /\ Allowed(Site, c, id) /\ MaySet(Site, c, id)
    /\ Becomes(SetObject(Site, c, id, n, TRUE), locks)
    /\ UNCHANGED clip

Deletable(s, c, id) == s.attr[c][id] # NoNode /\ ~Vetoed(s, s.attr[c][id])

\* manage_delObjects
DelObjects(c, ids) ==
    /\ InTree(c) /\ ids # {}
    /\ c = Root => ids \cap Reserved = {}
    /\ \A id \in ids : Deletable(Site, c, id) /\ ~Locked(attr[c][id])
    /\ Becomes(FoldLeft(LAMBDA s, id : DelObject(s, c, id, TRUE), Site, SetToSeq(ids)), locks)
    /\ UNCHANGED clip

\* manage_cutObjects
Cut(c, ids) ==
    /\ InTree(c)
    /\ \A id \in ToSet(ids) : attr[c][id] # NoNode /\ ~Locked(attr[c][id])
                                /\ Moveable(Site, attr[c][id])
    /\ clip' = [op |-> "cut", paths |-> [k \in DOMAIN ids |-> PathOf(Site, attr[c][ids[k]])]]
    /\ UNCHANGED <<list, attr, index, locks>>

\* manage_copyObjects
Copy(c, id) ==
    /\ InTree(c) /\ attr[c][id] # NoNode
    /\ clip' = [op |-> "copy", paths |-> <<PathOf(Site, attr[c][id])>>]
    /\ UNCHANGED <<list, attr, index, locks>>

\* Mutated: an object may be pasted into one of its subobjects.
NotIntoItself(s, c, n) == c # n

\* sanity_check
Sane(s, c, n) == c \notin Below(s, n)

\* One object of a move; the result of a move that fails is {}.
PastedMove(s, c, n) ==
    LET from == Container(s, n)
        told == Unindexed(s, n)
        out == DelObject(told, from, IdOf(s, n), FALSE)
        ids == IF from = c THEN {IdOf(s, n)} ELSE FreeIds(s, c, IdOf(s, n))
    IN  IF ~Placed(s, n) \/ ~Moveable(s, n) \/ ~Sane(s, c, n) \/ Vetoed(s, n) THEN {}
        ELSE {Indexed(SetObject(out, c, id, n, FALSE), n) : id \in ids}

Targets == IF clip = NoClip THEN <<>>
           ELSE [k \in DOMAIN clip.paths |-> Bound(Site, clip.paths[k])]

\* manage_pasteObjects of what was cut: the monikers are bound first.
PasteMove(c) ==
    /\ clip # NoClip /\ clip.op = "cut" /\ InTree(c) /\ NoNode \notin ToSet(Targets)
    /\ \E s \in FoldLeft(LAMBDA ss, n : UNION {PastedMove(s, c, n) : s \in ss}, {Site}, Targets) :
          Becomes(s, locks)
    /\ clip' = NoClip

\* The end of a copy and of a clone: the copy is set with its events.
PutCopy(c, id, m, n, ls) ==
    /\ MaySet(Site, c, id)
    /\ Becomes(SetObject(WithCopies(Site, m), c, id, m[n], TRUE), ls)
    /\ UNCHANGED clip

\* manage_pasteObjects of what was copied: wl_clearLocks is of the copy alone.
PasteCopy(c) ==
    /\ clip # NoClip /\ clip.op = "copy" /\ InTree(c) /\ NoNode \notin ToSet(Targets)
    /\ LET n == Head(Targets)
       IN  \E m \in Copies(Below(Site, n)), id \in FreeIds(Site, c, IdOf(Site, n)) :
              PutCopy(c, id, m, n, [CopiedLocks(m) EXCEPT ![m[n]] = {}])

\* manage_clone
Clone(c, n, id) ==
    /\ InTree(c) /\ InTree(n) /\ n # Root /\ Allowed(Site, c, id)
    /\ \E m \in Copies(Below(Site, n)) : PutCopy(c, id, m, n, CopiedLocks(m))

\* Mutated: an ordered folder renames as the others do.
PutLast(s, c, id, new, set) == set

\* manage_renameObject of OrderSupport, after the other one
Positioned(s, c, id, new, set) ==
    IF c \notin Ordered THEN set
    ELSE LET position == CHOOSE k \in DOMAIN s.list[c] : s.list[c][k] = id
         IN  [set EXCEPT !.list[c] = ToPosition(@, new, position)]

\* manage_renameObject
Rename(c, id, new) ==
    LET n == attr[c][id]
        out == DelObject(Unindexed(Site, n), c, id, FALSE)
        set == Indexed(SetObject(out, c, new, n, FALSE), n)
    IN  /\ InTree(c) /\ id # new /\ Allowed(Site, c, new) /\ MaySet(Site, c, new)
        /\ n # NoNode /\ ~Locked(n) /\ Moveable(Site, n) /\ ~Vetoed(Site, n)
        /\ Becomes(Positioned(Site, c, id, new, set), locks)
        /\ UNCHANGED clip

\* wl_setLock, and wl_delLock or the end of its timeout
SetLock(n, token) ==
    /\ InTree(n) /\ locks' = [locks EXCEPT ![n] = @ \cup {token}]
    /\ UNCHANGED <<list, attr, index, clip>>

DelLock(n, token) ==
    /\ token \in locks[n] /\ locks' = [locks EXCEPT ![n] = @ \ {token}]
    /\ UNCHANGED <<list, attr, index, clip>>

TInit ==
    /\ list = [c \in Folders |-> <<>>]
    /\ attr = [c \in Folders |-> [i \in Ids |-> NoNode]]
    /\ index = {<< <<>>, Root >>}
    /\ locks = [n \in Nodes |-> {}]
    /\ clip = NoClip

TNext ==
    \/ \E c \in Folders, id \in Ids, n \in Nodes : Add(c, id, n)
    \/ \E c \in Folders, ids \in SUBSET Ids : DelObjects(c, ids)
    \/ \E c \in Folders, ids \in Selections : Cut(c, ids)
    \/ \E c \in Folders, id \in Ids : Copy(c, id)
    \/ \E c \in Folders : PasteMove(c)
    \/ \E c \in Folders : PasteCopy(c)
    \/ \E c \in Folders, n \in Nodes, id \in Ids : Clone(c, n, id)
    \/ \E c \in Folders, id, new \in Ids : Rename(c, id, new)
    \/ \E c \in Folders, ids \in Selections, down \in BOOLEAN, delta \in Deltas :
          MoveByDelta(c, ids, down, delta)
    \/ \E n \in Nodes, token \in Tokens : SetLock(n, token)
    \/ \E n \in Nodes, token \in Tokens : DelLock(n, token)

TSpec == TInit /\ [][TNext]_tvars

-----------------------------------------------------------------------------
(* Properties *)

\* No object gets into two places, or into itself, and _objects lists exactly the
\* ids of the attributes, once: what _delObject and _setObject do apart for a move
\* adds up to a tree.
OneTree ==
    LET places == {p \in Folders \X Ids : attr[p[1]][p[2]] # NoNode}
        placed == {attr[p[1]][p[2]] : p \in places}
    IN  /\ \A c \in Folders :
              /\ ToSet(list[c]) = {i \in Ids : attr[c][i] # NoNode}
              /\ Len(list[c]) = Cardinality(ToSet(list[c]))
        /\ Cardinality(placed) = Cardinality(places)
        /\ placed = Below(Site, Root) \ {Root}

\* However objects are added, moved, copied, renamed and deleted, they stay one
\* tree, and the events keep a catalog of each object at its path, and of no other.
IndexIsExact == OneTree /\ index = Located(Site, Root)

\* A paste of what was cut loses no object of the tree, nor does a renaming, unless one
\* that is replaceable gives way.
PasteKeeps ==
    LET pasted == clip # NoClip /\ clip' = NoClip
        renamed == \E c \in Folders, id, new \in Ids : attr[c][new] = NoNode /\ Rename(c, id, new)
    IN  Below(Site, Root) \subseteq Below(Site', Root) \/ ~(pasted \/ renamed)

MovesLoseNothing == [][PasteKeeps]_tvars

\* Whatever is added, deleted and renamed, the other objects of a folder keep
\* their order, and those of an ordered folder that are renamed keep their place.
\* (What is pasted where it was cut goes to the end; what is renamed over a
\* replaceable object before it in the folder is one place off.)
KeepsOrder ==
    LET Held(s, c) == [k \in DOMAIN s.list[c] |-> s.attr[c][s.list[c][k]]]
        Stay(s, c, both) == Only(Held(s, c), both)
        Kept(c) ==
           LET renamed == c \in Ordered /\ Below(Site, Root) = Below(Site', Root)
               both == {n \in ToSet(Held(Site, c)) \cap ToSet(Held(Site', c)) :
                          renamed \/ IdOf(Site, n) = IdOf(Site', n)}
           IN  Stay(Site, c, both) = Stay(Site', c, both)
    IN  attr' # attr /\ clip' = clip => \A c \in Folders : list'[c] = list[c] \/ Kept(c)

OrderIsKept == [][KeepsOrder]_tvars
=============================================================================
