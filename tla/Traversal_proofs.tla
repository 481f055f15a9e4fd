-------------------------- MODULE Traversal_proofs --------------------------
(***************************************************************************)
(* Theorems about traversal, for any site that was put together from empty *)
(* folders, any managers, users, requests and rewritings.                  *)
(*                                                                         *)
(* Three invariants, each for the next.  A site stays Built: its           *)
(* containers form a tree, and what a container has registered is what is  *)
(* in it.  The events reach all objects below the one that is moved, in    *)
(* any order; a fold over them is described by the set of those that it    *)
(* has reached.  ParentsInv says that the parents of a request are closed: *)
(* whatever is above a parent is a parent, so that a step down, which adds *)
(* an object below one of them, keeps them so, and monsters take off only  *)
(* themselves.  WriteInv says what the stack may hold: the name of the     *)
(* method comes last, when the object has been found in its container.     *)
(*                                                                         *)
(* Climb, Chain, Clean and VhRun are recursive functions, and the events   *)
(* are folds; Lists has the induction over them.                           *)
(***************************************************************************)
EXTENDS Traversal, Lists

\* What is climbed through: objects, and the null resources and methods on top of them
Things == Nodes \cup {NullRes, Handler}
Parent(s, x) == IF x \in Nodes \ {Root} THEN s.place[x] ELSE NoNode
AboveOf(above, x) == IF x \in Nodes THEN above[x] ELSE {}

\* What a list holds after an append.
LEMMA AppendSet ==
    ASSUME NEW S, NEW b \in Seq(S), NEW x \in S
    PROVE  /\ Append(b, x) \in Seq(S) /\ Append(b, x) # <<>> /\ Last(Append(b, x)) = x
           /\ ToSet(Append(b, x)) = ToSet(b) \cup {x}
<1>1. /\ Append(b, x) \in Seq(S) /\ Append(b, x) # <<>>
      /\ Len(Append(b, x)) = Len(b) + 1
      /\ \A i \in 1 .. Len(b) : Append(b, x)[i] = b[i]
      /\ Append(b, x)[Len(b) + 1] = x
      /\ Range(Append(b, x)) = Range(b) \cup {x}
  BY AppendRange
<1>2. Last(Append(b, x)) = x
  BY <1>1 DEF Last
<1>3. \A t : ToSet(t) = Range(t)
  BY DEF ToSet, Range
<1> QED BY <1>1, <1>2, <1>3

\* getPhysicalPath climbs through exactly what is above an object.
LEMMA ClimbIs ==
    ASSUME NEW s, s.place \in [Nodes -> Folders \cup {NoNode}], NEW above, Tree(s.place, above),
           NEW n \in Things
    PROVE  /\ Climb(s, n) \in Seq(Things) /\ Climb(s, n) # <<>>
           /\ ToSet(Climb(s, n)) = {n} \cup AboveOf(above, n)
<1> DEFINE K == Cardinality(Folders)
           D == Seq(Things) \ {<<>>}
           G == [b \in D |-> IF Parent(s, Last(b)) = NoNode THEN b ELSE Append(b, Parent(s, Last(b)))]
           up[k \in 0 .. K] ==
             IF k = 0 THEN <<n>>
             ELSE LET below == up[k - 1]
                      c == IF Last(below) \in Nodes \ {Root} THEN s.place[Last(below)] ELSE NoNode
                  IN  IF c = NoNode THEN below ELSE Append(below, c)
<1>1. Climb(s, n) = up[K]
  BY DEF Climb
<1>2. K \in Nat /\ IsFiniteSet(Folders)
  BY TraversalAssumption, FS_Subset, FS_CardinalityType
<1>3. ASSUME NEW b \in D PROVE Last(b) \in Things /\ Last(b) \in ToSet(b)
  BY DEF Last, ToSet
<1>4. ASSUME NEW x \in Things, Parent(s, x) # NoNode
      PROVE  /\ x \in Nodes /\ Parent(s, x) \in Folders /\ Parent(s, x) \in Nodes
             /\ AboveOf(above, x) = {Parent(s, x)} \cup AboveOf(above, Parent(s, x))
             /\ Parent(s, x) \notin AboveOf(above, Parent(s, x))
  BY <1>4, TraversalAssumption DEF Parent, Tree, AboveOf, Things
<1>5. ASSUME NEW x \in Things, Parent(s, x) = NoNode
      PROVE  AboveOf(above, x) = {}
  BY <1>5, TraversalAssumption DEF Parent, Tree, AboveOf, Things
<1>6. ASSUME NEW x \in Things PROVE AboveOf(above, x) \subseteq Folders
  BY DEF AboveOf, Tree
<1>7. G \in [D -> D]
  <2>1. ASSUME NEW b \in D PROVE G[b] \in D
    BY <1>3, <1>4, AppendSet DEF Things
  <2> QED BY <2>1
<1>8. <<n>> \in D
  OBVIOUS
<1>9. \E f \in [0 .. K -> D] : Iterates(f, <<n>>, G, K)
  <2> HIDE DEF D, G
  <2> QED BY <1>2, <1>7, <1>8, StepsDefined
<1>10. /\ up[0] = <<n>>
       /\ \A k \in 0 .. K : k # 0 => up[k] = IF Parent(s, Last(up[k - 1])) = NoNode THEN up[k - 1]
                                            ELSE Append(up[k - 1], Parent(s, Last(up[k - 1])))
  <2>1. PICK f \in [0 .. K -> D] : Iterates(f, <<n>>, G, K)
    BY <1>9
  <2>2. ASSUME NEW k \in 0 .. K, k # 0
        PROVE  f[k] = LET below == f[k - 1]
                          c == IF Last(below) \in Nodes \ {Root} THEN s.place[Last(below)] ELSE NoNode
                      IN  IF c = NoNode THEN below ELSE Append(below, c)
    <3>1. k \in 0 .. K /\ k - 1 \in 0 .. K /\ k # 0
      BY <2>2, <1>2
    <3>2. f[k] = G[f[k - 1]] /\ f[k - 1] \in D
      <4> HIDE DEF G, D
      <4> QED BY <3>1, <2>1 DEF Iterates
    <3>3. f[k] = IF Parent(s, Last(f[k - 1])) = NoNode THEN f[k - 1]
                 ELSE Append(f[k - 1], Parent(s, Last(f[k - 1])))
      BY <3>2
    <3> QED BY <3>3 DEF Parent
  <2>3. f = [k \in 0 .. K |->
             IF k = 0 THEN <<n>>
             ELSE LET below == f[k - 1]
                      c == IF Last(below) \in Nodes \ {Root} THEN s.place[Last(below)] ELSE NoNode
                  IN  IF c = NoNode THEN below ELSE Append(below, c)]
    <3>1. f[0] = <<n>>
      BY <2>1, <1>2 DEF Iterates
    <3> QED BY <2>1, <2>2, <3>1 DEF Iterates
  <2>4. up = [k \in 0 .. K |->
             IF k = 0 THEN <<n>>
             ELSE LET below == up[k - 1]
                      c == IF Last(below) \in Nodes \ {Root} THEN s.place[Last(below)] ELSE NoNode
                  IN  IF c = NoNode THEN below ELSE Append(below, c)]
    BY <2>3, Zenon
  <2> HIDE DEF up
  <2>5. up[0] = <<n>>
    BY <2>4, <1>2
  <2>6. ASSUME NEW k \in 0 .. K, k # 0
        PROVE  up[k] = IF Parent(s, Last(up[k - 1])) = NoNode THEN up[k - 1]
                       ELSE Append(up[k - 1], Parent(s, Last(up[k - 1])))
    <3>1. up[k] = LET below == up[k - 1]
                      c == IF Last(below) \in Nodes \ {Root} THEN s.place[Last(below)] ELSE NoNode
                  IN  IF c = NoNode THEN below ELSE Append(below, c)
      BY <2>4, <2>6
    <3> QED BY <3>1 DEF Parent
  <2> QED BY <2>5, <2>6
<1> DEFINE P(k) == /\ up[k] \in D
                   /\ ToSet(up[k]) \cup AboveOf(above, Last(up[k])) = {n} \cup AboveOf(above, n)
                   /\ \/ Parent(s, Last(up[k])) = NoNode
                      \/ Cardinality(AboveOf(above, n)) = Cardinality(AboveOf(above, Last(up[k]))) + k
           F == {k \in Nat : k <= K => P(k)}
<1> HIDE DEF up, G
<1>11. \A x \in Things : Cardinality(AboveOf(above, x)) \in Nat /\ IsFiniteSet(AboveOf(above, x))
  BY <1>2, <1>6, FS_Subset, FS_CardinalityType
<1>12. 0 \in F
  <2>1. Last(<<n>>) = n /\ ToSet(<<n>>) = {n}
    BY DEF Last, ToSet
  <2>2. up[0] = <<n>> /\ <<n>> \in D
    BY <1>8, <1>10
  <2>3. Cardinality(AboveOf(above, n)) \in Nat
    BY <1>11
  <2>4. P(0)
    BY <2>1, <2>2, <2>3
  <2> HIDE DEF P
  <2> QED BY <2>4, <1>2
<1>13. ASSUME NEW k \in Nat, k \in F PROVE k + 1 \in F
  <2> SUFFICES ASSUME k + 1 <= K PROVE P(k + 1)
    OBVIOUS
  <2>1. P(k)
    BY <1>13, <1>2
  <2>2. /\ up[k + 1] = IF Parent(s, Last(up[k])) = NoNode THEN up[k]
                       ELSE Append(up[k], Parent(s, Last(up[k])))
    BY <1>10, <1>2
  <2>3. CASE Parent(s, Last(up[k])) = NoNode
    BY <2>1, <2>2, <2>3
  <2>4. CASE Parent(s, Last(up[k])) # NoNode
    <3> DEFINE l == Last(up[k])
               p == Parent(s, l)
    <3>1. l \in Things /\ l \in ToSet(up[k])
      BY <2>1, <1>3
    <3>2. /\ p \in Things /\ AboveOf(above, l) = {p} \cup AboveOf(above, p) /\ p \notin AboveOf(above, p)
      BY <3>1, <2>4, <1>4 DEF Things
    <3>3. /\ up[k + 1] \in D /\ Last(up[k + 1]) = p
          /\ ToSet(up[k + 1]) = ToSet(up[k]) \cup {p}
      BY <2>1, <2>2, <2>4, <3>2, AppendSet
    <3>4. Cardinality(AboveOf(above, l)) = Cardinality(AboveOf(above, p)) + 1
      <4>1. IsFiniteSet(AboveOf(above, p)) /\ Cardinality(AboveOf(above, p)) \in Nat
        BY <3>2, <1>11
      <4>2. Cardinality(AboveOf(above, p) \cup {p}) = Cardinality(AboveOf(above, p)) + 1
        <5> HIDE DEF p
        <5> QED BY <4>1, <3>2, FS_AddElement
      <4>3. AboveOf(above, l) = AboveOf(above, p) \cup {p}
        BY <3>2
      <4> QED BY <4>2, <4>3
    <3>5. Cardinality(AboveOf(above, n)) = Cardinality(AboveOf(above, p)) + (k + 1)
      BY <3>4, <2>1, <2>4, <1>11, <3>2
    <3> QED BY <2>1, <3>2, <3>3, <3>5
  <2> QED BY <2>3, <2>4
<1>14. P(K)
  <2>1. Nat \subseteq F
    <3> HIDE DEF F
    <3> QED BY <1>12, <1>13, NatSetInduction
  <2> QED BY <2>1, <1>2
<1>15. Parent(s, Last(up[K])) = NoNode
  <2> SUFFICES ASSUME Parent(s, Last(up[K])) # NoNode PROVE FALSE
    OBVIOUS
  <2>1. Last(up[K]) \in Things
    BY <1>14, <1>3
  <2>2. Cardinality(AboveOf(above, Last(up[K]))) # 0
    BY <2>1, <1>4, <1>11, FS_EmptySet
  <2>3. Cardinality(AboveOf(above, n)) <= K
    BY <1>6, <1>2, FS_Subset
  <2> QED BY <2>1, <2>2, <2>3, <1>14, <1>11, <1>2
<1>16. AboveOf(above, Last(up[K])) = {}
  BY <1>14, <1>15, <1>3, <1>5
<1> QED BY <1>1, <1>14, <1>16

\* A tree has one function that tells the containers.
LEMMA AboveIs ==
    ASSUME NEW s, s.place \in [Nodes -> Folders \cup {NoNode}], NEW above, Tree(s.place, above)
    PROVE  /\ Above(s) = above
           /\ \A n \in Nodes : BelowOf(s, n) = {m \in Nodes : m = n \/ n \in above[m]}
<1>1. ASSUME NEW n \in Nodes PROVE ToSet(Climb(s, n)) = {n} \cup above[n] /\ n \notin above[n]
  <2>1. n \in Things /\ AboveOf(above, n) = above[n] /\ n \notin above[n]
    BY DEF Things, AboveOf, Tree
  <2> QED BY <2>1, ClimbIs
<1>2. ASSUME NEW n \in Nodes PROVE Above(s)[n] = above[n]
  BY <1>1 DEF Above
<1>3. DOMAIN Above(s) = Nodes /\ Above(s) = [n \in Nodes |-> Above(s)[n]]
  BY DEF Above
<1>4. above = [n \in Nodes |-> above[n]]
  BY DEF Tree
<1>5. Above(s) = above
  BY <1>2, <1>3, <1>4
<1>6. ASSUME NEW n \in Nodes PROVE BelowOf(s, n) = {m \in Nodes : m = n \/ n \in above[m]}
  BY <1>1 DEF BelowOf
<1> QED BY <1>5, <1>6

-----------------------------------------------------------------------------
(* What is registered when objects come and go *)

AppNames == {"monster", "bids", "sessions"}
Url(s, m) == "url" \in ToSet(s.conf[m].ns)
Here(s, T, c) == {m \in T \cap BidManagers : s.place[m] = c}

\* The applications that register hooks.
LEMMA AppsAre == ToSet(Apps) = AppNames
<1>1. DOMAIN Apps = 1 .. 3 /\ Apps[1] = "monster" /\ Apps[2] = "bids" /\ Apps[3] = "sessions"
  BY DEF Apps
<1>2. 1 .. 3 = {1, 2, 3}
  OBVIOUS
<1> QED BY <1>1, <1>2 DEF ToSet, AppNames

\* t is s after the objects in T heard of the deletion of n.
WarnedSo(s, n, T, t) ==
    /\ t \in SiteType /\ t.place = s.place /\ t.name = s.name /\ t.conf = s.conf
    /\ \A c \in Folders :
          /\ t.hooks[c]["monster"] = IF n \in T \cap Monsters /\ s.place[n] = c THEN NoId
                                     ELSE s.hooks[c]["monster"]
          /\ t.groups[c] = IF n \in T \cap UserFolders /\ s.place[n] = c THEN NoNode ELSE s.groups[c]
          /\ t.hooks[c]["bids"] = IF Here(s, T, c) # {} THEN NoId ELSE s.hooks[c]["bids"]

\* t is s after the objects in T heard that n was added.
ToldSo(s, n, T, t) ==
    /\ t \in SiteType /\ t.place = s.place /\ t.name = s.name /\ t.conf = s.conf
    /\ \A c \in Folders :
          /\ t.hooks[c]["monster"] = IF n \in T \cap Monsters /\ s.place[n] = c THEN s.name[n]
                                     ELSE s.hooks[c]["monster"]
          /\ t.groups[c] = IF n \in T \cap UserFolders /\ s.place[n] = c THEN n ELSE s.groups[c]
          /\ IF Here(s, T, c) # {}
             THEN t.hooks[c]["bids"] # NoId <=> \E m \in Here(s, T, c) : Url(s, m)
             ELSE t.hooks[c]["bids"] = s.hooks[c]["bids"]

\* What registering an app for a container changes.
LEMMA RegisterIs ==
    ASSUME NEW t \in SiteType, NEW c \in Folders, NEW app \in AppNames, NEW id \in Ids \cup {NoId}
    PROVE  /\ Register(t, c, app, id) \in SiteType
           /\ Register(t, c, app, id) = [t EXCEPT !.hooks = [t.hooks EXCEPT ![c] = [t.hooks[c] EXCEPT ![app] = id]]]
           /\ \A f \in Folders, a \in AppNames :
                 Register(t, c, app, id).hooks[f][a] = IF f = c /\ a = app THEN id ELSE t.hooks[f][a]
<1>1. t.hooks \in [Folders -> [AppNames -> Ids \cup {NoId}]]
  BY AppsAre DEF SiteType
<1> DEFINE hooks == [t.hooks EXCEPT ![c] = [t.hooks[c] EXCEPT ![app] = id]]
<1>2. hooks \in [Folders -> [AppNames -> Ids \cup {NoId}]]
  BY <1>1
<1>3. Register(t, c, app, id) = [t EXCEPT !.hooks = hooks]
  BY DEF Register
<1>4. [t EXCEPT !.hooks = hooks] \in SiteType /\ [t EXCEPT !.hooks = hooks].hooks = hooks
  <2> HIDE DEF hooks
  <2> QED BY <1>2, AppsAre DEF SiteType
<1>5. \A f \in Folders, a \in AppNames : hooks[f][a] = IF f = c /\ a = app THEN id ELSE t.hooks[f][a]
  BY <1>1
<1> HIDE DEF hooks
<1> QED BY <1>3, <1>4, <1>5 DEF hooks

\* What a session data manager registers concerns no other.
LEMMA SessionsOnly ==
    ASSUME NEW t \in SiteType, NEW m \in SdManagers, t.place[m] \in Folders, NEW wanted \in BOOLEAN
    PROVE  LET u == UpdateTraversalData(t, m, wanted)
           IN  /\ u \in SiteType /\ u.place = t.place /\ u.name = t.name /\ u.conf = t.conf
               /\ u.groups = t.groups
               /\ \A c \in Folders : \A a \in {"monster", "bids"} : u.hooks[c][a] = t.hooks[c][a]
<1> DEFINE c == t.place[m]
           off == IF t.hooked[m]
                  THEN [Unregister(t, c, "sessions") EXCEPT !.hooked[m] = FALSE, !.wanted[m] = FALSE]
                  ELSE t
           Same(u) == /\ u \in SiteType /\ u.place = t.place /\ u.name = t.name /\ u.conf = t.conf
                      /\ u.groups = t.groups
                      /\ \A f \in Folders : \A a \in {"monster", "bids"} : u.hooks[f][a] = t.hooks[f][a]
<1>0. m \in Nodes
  BY TraversalAssumption
<1>1. ASSUME NEW u \in SiteType, NEW id \in Ids \cup {NoId}, Same(u), NEW b \in BOOLEAN
      PROVE  Same([Register(u, c, "sessions", id) EXCEPT !.hooked[m] = b, !.wanted[m] = b])
  <2> DEFINE v == Register(u, c, "sessions", id)
  <2>1. /\ v \in SiteType /\ v.place = u.place /\ v.name = u.name /\ v.conf = u.conf /\ v.groups = u.groups
        /\ \A f \in Folders : \A a \in {"monster", "bids"} : v.hooks[f][a] = u.hooks[f][a]
    <3>1. /\ v \in SiteType
          /\ \A f \in Folders, a \in AppNames : v.hooks[f][a] = IF f = c /\ a = "sessions" THEN id ELSE u.hooks[f][a]
      <4>1. "sessions" \in AppNames /\ c \in Folders
        BY DEF AppNames
      <4> HIDE DEF c
      <4> QED BY <4>1, RegisterIs
    <3>2. v.place = u.place /\ v.name = u.name /\ v.conf = u.conf /\ v.groups = u.groups
      BY DEF Register, SiteType
    <3> QED BY <3>1, <3>2 DEF AppNames
  <2> HIDE DEF v
  <2>2. /\ [v EXCEPT !.hooked[m] = b, !.wanted[m] = b] \in SiteType
        /\ [v EXCEPT !.hooked[m] = b, !.wanted[m] = b].hooks = v.hooks
        /\ [v EXCEPT !.hooked[m] = b, !.wanted[m] = b].groups = v.groups
        /\ [v EXCEPT !.hooked[m] = b, !.wanted[m] = b].place = v.place
        /\ [v EXCEPT !.hooked[m] = b, !.wanted[m] = b].name = v.name
        /\ [v EXCEPT !.hooked[m] = b, !.wanted[m] = b].conf = v.conf
    <3> DEFINE h == [v.hooked EXCEPT ![m] = b]
               w == [v.wanted EXCEPT ![m] = b]
    <3>1. h \in [SdManagers -> BOOLEAN] /\ w \in [SdManagers -> BOOLEAN]
      BY <2>1 DEF SiteType
    <3>2. [v EXCEPT !.hooked[m] = b, !.wanted[m] = b] = [v EXCEPT !.hooked = h, !.wanted = w]
      BY <2>1 DEF SiteType
    <3> HIDE DEF h, w
    <3> QED BY <2>1, <3>1, <3>2 DEF SiteType
  <2>3. Same([v EXCEPT !.hooked[m] = b, !.wanted[m] = b])
    BY <1>1, <2>1, <2>2
  <2> QED BY <2>3 DEF v
<1>2. Same(off)
  <2>1. Same(t)
    OBVIOUS
  <2>2. CASE t.hooked[m]
    <3>1. off = [Register(t, c, "sessions", NoId) EXCEPT !.hooked[m] = FALSE, !.wanted[m] = FALSE]
      BY <2>2 DEF Unregister
    <3> HIDE DEF Same, off
    <3> QED BY <1>1, <2>1, <3>1
  <2>3. CASE ~t.hooked[m]
    <3>1. off = t
      BY <2>3
    <3> HIDE DEF Same, off
    <3> QED BY <2>1, <3>1
  <2> QED BY <2>2, <2>3
<1>3. t.name[m] \in Ids /\ off \in SiteType
  BY <1>0, <1>2 DEF SiteType
<1>4. t.name[m] = t.name[m] /\ UpdateTraversalData(t, m, wanted) =
        IF wanted THEN [Register(off, c, "sessions", t.name[m]) EXCEPT !.hooked[m] = TRUE, !.wanted[m] = TRUE]
        ELSE off
  BY DEF UpdateTraversalData
<1>5. Same(UpdateTraversalData(t, m, wanted))
  <2>1. CASE wanted
    <3>1. UpdateTraversalData(t, m, wanted) =
            [Register(off, c, "sessions", t.name[m]) EXCEPT !.hooked[m] = TRUE, !.wanted[m] = TRUE]
      BY <2>1, <1>4
    <3>2. off \in SiteType /\ t.name[m] \in Ids \cup {NoId} /\ Same(off) /\ TRUE \in BOOLEAN
      BY <1>2, <1>3
    <3> HIDE DEF Same, off
    <3>3. Same([Register(off, c, "sessions", t.name[m]) EXCEPT !.hooked[m] = TRUE, !.wanted[m] = TRUE])
      BY <1>1, <3>2
    <3> QED BY <3>1, <3>3
  <2>2. CASE ~wanted
    <3>1. UpdateTraversalData(t, m, wanted) = off
      BY <2>2, <1>4
    <3> HIDE DEF Same, off
    <3> QED BY <1>2, <3>1
  <2> QED BY <2>1, <2>2
<1> QED BY <1>5

\* Exactly one of the cases of manage_beforeDelete and manage_afterAdd applies.
LEMMA MonsterHears ==
    ASSUME NEW t, NEW x \in Monsters, NEW n, x = n
    PROVE  /\ BeforeDelete(t, x, n) = Unregister(t, t.place[x], "monster")
           /\ AfterAdd(t, x, n) = Register(t, t.place[x], "monster", t.name[x])
           /\ x \notin UserFolders \cup BidManagers
BY TraversalAssumption DEF BeforeDelete, AfterAdd

LEMMA UserFolderHears ==
    ASSUME NEW t, NEW x \in UserFolders, NEW n, x = n
    PROVE  /\ BeforeDelete(t, x, n) = [t EXCEPT !.groups[t.place[x]] = NoNode]
           /\ AfterAdd(t, x, n) = [t EXCEPT !.groups[t.place[x]] = x]
           /\ x \notin Monsters \cup BidManagers
BY TraversalAssumption DEF BeforeDelete, AfterAdd

LEMMA BidManagerHears ==
    ASSUME NEW t, NEW x \in BidManagers, NEW n
    PROVE  /\ BeforeDelete(t, x, n) = Unregister(t, t.place[x], "bids")
           /\ AfterAdd(t, x, n) = UpdateHook(t, x)
           /\ x \notin UserFolders \cup Monsters
BY TraversalAssumption DEF BeforeDelete, AfterAdd

LEMMA SdManagerHears ==
    ASSUME NEW t, NEW x \in SdManagers, NEW n
    PROVE  /\ BeforeDelete(t, x, n) = UpdateTraversalData(t, x, FALSE)
           /\ AfterAdd(t, x, n) = UpdateTraversalData(t, x, t.wanted[x])
           /\ x \notin UserFolders \cup Monsters \cup BidManagers
BY TraversalAssumption DEF BeforeDelete, AfterAdd

LEMMA OthersHear ==
    ASSUME NEW t, NEW x, NEW n, ~(x \in Monsters /\ x = n), ~(x \in UserFolders /\ x = n),
           x \notin BidManagers \cup SdManagers
    PROVE  BeforeDelete(t, x, n) = t /\ AfterAdd(t, x, n) = t
BY DEF BeforeDelete, AfterAdd

\* The two lemmas on registration, for a handler that changes one app of one container
LEMMA OneApp ==
    ASSUME NEW t \in SiteType, NEW c \in Folders, NEW app \in AppNames, NEW id \in Ids \cup {NoId}
    PROVE  LET u == Register(t, c, app, id)
           IN  /\ u \in SiteType /\ u.place = t.place /\ u.name = t.name /\ u.conf = t.conf /\ u.groups = t.groups
               /\ \A f \in Folders : \A a \in AppNames :
                     u.hooks[f][a] = IF f = c /\ a = app THEN id ELSE t.hooks[f][a]
<1>1. LET u == Register(t, c, app, id)
      IN  u.place = t.place /\ u.name = t.name /\ u.conf = t.conf /\ u.groups = t.groups
  BY DEF Register, SiteType
<1> QED BY <1>1, RegisterIs

\* One object hears of a deletion.
LEMMA WarnStep ==
    ASSUME NEW s \in SiteType, NEW n \in Nodes, NEW T \in SUBSET Nodes, NEW x \in Nodes \ T,
           s.place[x] \in Folders, NEW t, WarnedSo(s, n, T, t)
    PROVE  WarnedSo(s, n, T \cup {x}, BeforeDelete(t, x, n))
<1> DEFINE u == BeforeDelete(t, x, n)
<1>1. t \in SiteType /\ t.place = s.place /\ t.name = s.name /\ t.conf = s.conf
  BY DEF WarnedSo
<1>2. \A c \in Folders :
          /\ t.hooks[c]["monster"] = IF n \in T \cap Monsters /\ s.place[n] = c THEN NoId
                                     ELSE s.hooks[c]["monster"]
          /\ t.groups[c] = IF n \in T \cap UserFolders /\ s.place[n] = c THEN NoNode ELSE s.groups[c]
          /\ t.hooks[c]["bids"] = IF Here(s, T, c) # {} THEN NoId ELSE s.hooks[c]["bids"]
  BY DEF WarnedSo
<1>3. \A c \in Folders : Here(s, T \cup {x}, c) = IF x \in BidManagers /\ s.place[x] = c THEN Here(s, T, c) \cup {x}
                                                  ELSE Here(s, T, c)
  BY DEF Here
<1>4. \A app \in AppNames :
        LET v == Unregister(t, s.place[x], app)
        IN  /\ v \in SiteType /\ v.place = t.place /\ v.name = t.name /\ v.conf = t.conf /\ v.groups = t.groups
            /\ \A f \in Folders : \A a \in AppNames :
                     v.hooks[f][a] = IF f = s.place[x] /\ a = app THEN NoId ELSE t.hooks[f][a]
  BY <1>1, OneApp DEF Unregister
<1>5. CASE x \in Monsters /\ x = n
  <2>1. u = Unregister(t, s.place[x], "monster") /\ x \notin UserFolders \cup BidManagers
    BY <1>1, <1>5, MonsterHears
  <2> HIDE DEF u
  <2>2. /\ u \in SiteType /\ u.place = s.place /\ u.name = s.name /\ u.conf = s.conf /\ u.groups = t.groups
        /\ \A c \in Folders : /\ u.hooks[c]["monster"] = IF c = s.place[x] THEN NoId ELSE t.hooks[c]["monster"]
                              /\ u.hooks[c]["bids"] = t.hooks[c]["bids"]
    BY <2>1, <1>1, <1>4 DEF AppNames
  <2>3. WarnedSo(s, n, T \cup {x}, u)
    <3>1. ASSUME NEW c \in Folders
          PROVE  u.hooks[c]["monster"] = IF n \in (T \cup {x}) \cap Monsters /\ s.place[n] = c THEN NoId
                                         ELSE s.hooks[c]["monster"]
      BY <2>1, <2>2, <1>2, <1>5
    <3>2. ASSUME NEW c \in Folders
          PROVE  u.groups[c] = IF n \in (T \cup {x}) \cap UserFolders /\ s.place[n] = c THEN NoNode
                               ELSE s.groups[c]
      BY <2>1, <2>2, <1>2, <1>5
    <3>3. ASSUME NEW c \in Folders
          PROVE  u.hooks[c]["bids"] = IF Here(s, T \cup {x}, c) # {} THEN NoId ELSE s.hooks[c]["bids"]
      BY <2>1, <2>2, <1>2, <1>3, <1>5
    <3> QED BY <3>1, <3>2, <3>3, <2>2 DEF WarnedSo
  <2> QED BY <2>3 DEF u
<1>6. CASE x \in UserFolders /\ x = n
  <2>1. u = [t EXCEPT !.groups[s.place[x]] = NoNode] /\ x \notin Monsters \cup BidManagers
    BY <1>1, <1>6, UserFolderHears
  <2> HIDE DEF u
  <2>2. /\ u \in SiteType /\ u.place = s.place /\ u.name = s.name /\ u.conf = s.conf /\ u.hooks = t.hooks
        /\ \A c \in Folders : u.groups[c] = IF c = s.place[x] THEN NoNode ELSE t.groups[c]
    BY <2>1, <1>1 DEF SiteType
  <2>3. WarnedSo(s, n, T \cup {x}, u)
    <3>1. ASSUME NEW c \in Folders
          PROVE  u.hooks[c]["monster"] = IF n \in (T \cup {x}) \cap Monsters /\ s.place[n] = c THEN NoId
                                         ELSE s.hooks[c]["monster"]
      BY <2>1, <2>2, <1>2, <1>6
    <3>2. ASSUME NEW c \in Folders
          PROVE  u.groups[c] = IF n \in (T \cup {x}) \cap UserFolders /\ s.place[n] = c THEN NoNode
                               ELSE s.groups[c]
      BY <2>1, <2>2, <1>2, <1>6
    <3>3. ASSUME NEW c \in Folders
          PROVE  u.hooks[c]["bids"] = IF Here(s, T \cup {x}, c) # {} THEN NoId ELSE s.hooks[c]["bids"]
      <4>1. Here(s, T \cup {x}, c) = Here(s, T, c) /\ u.hooks[c]["bids"] = t.hooks[c]["bids"]
        BY <2>1, <2>2, <1>3
      <4> QED BY <4>1, <1>2
    <3> QED BY <3>1, <3>2, <3>3, <2>2 DEF WarnedSo
  <2> QED BY <2>3 DEF u
<1>7. CASE x \in BidManagers
  <2>1. u = Unregister(t, s.place[x], "bids") /\ x \notin UserFolders \cup Monsters
    BY <1>1, <1>7, BidManagerHears
  <2> HIDE DEF u
  <2>2. /\ u \in SiteType /\ u.place = s.place /\ u.name = s.name /\ u.conf = s.conf /\ u.groups = t.groups
        /\ \A c \in Folders : /\ u.hooks[c]["bids"] = IF c = s.place[x] THEN NoId ELSE t.hooks[c]["bids"]
                              /\ u.hooks[c]["monster"] = t.hooks[c]["monster"]
    BY <2>1, <1>1, <1>4 DEF AppNames
  <2>3. WarnedSo(s, n, T \cup {x}, u)
    <3>1. ASSUME NEW c \in Folders
          PROVE  u.hooks[c]["monster"] = IF n \in (T \cup {x}) \cap Monsters /\ s.place[n] = c THEN NoId
                                         ELSE s.hooks[c]["monster"]
      BY <2>1, <2>2, <1>2, <1>7
    <3>2. ASSUME NEW c \in Folders
          PROVE  u.groups[c] = IF n \in (T \cup {x}) \cap UserFolders /\ s.place[n] = c THEN NoNode
                               ELSE s.groups[c]
      BY <2>1, <2>2, <1>2, <1>7
    <3>3. ASSUME NEW c \in Folders
          PROVE  u.hooks[c]["bids"] = IF Here(s, T \cup {x}, c) # {} THEN NoId ELSE s.hooks[c]["bids"]
      BY <2>1, <2>2, <1>2, <1>3, <1>7
    <3> QED BY <3>1, <3>2, <3>3, <2>2 DEF WarnedSo
  <2> QED BY <2>3 DEF u
<1>8. CASE x \in SdManagers
  <2>1. u = UpdateTraversalData(t, x, FALSE) /\ x \notin UserFolders \cup Monsters \cup BidManagers
    BY <1>8, SdManagerHears
  <2> HIDE DEF u
  <2>2. /\ u \in SiteType /\ u.place = s.place /\ u.name = s.name /\ u.conf = s.conf /\ u.groups = t.groups
        /\ \A c \in Folders : \A a \in {"monster", "bids"} : u.hooks[c][a] = t.hooks[c][a]
    <3>1. t.place[x] \in Folders
      BY <1>1
    <3>2. ASSUME NEW b \in BOOLEAN
          PROVE  LET v == UpdateTraversalData(t, x, b)
                 IN  /\ v \in SiteType /\ v.place = t.place /\ v.name = t.name /\ v.conf = t.conf
                     /\ v.groups = t.groups
                     /\ \A c \in Folders : \A a \in {"monster", "bids"} : v.hooks[c][a] = t.hooks[c][a]
      BY <3>1, <1>1, <1>8, SessionsOnly
    <3>3. /\ u \in SiteType /\ u.place = t.place /\ u.name = t.name /\ u.conf = t.conf /\ u.groups = t.groups
          /\ \A c \in Folders : \A a \in {"monster", "bids"} : u.hooks[c][a] = t.hooks[c][a]
      BY <2>1, <3>2, Zenon
    <3> QED BY <3>3, <1>1
  <2>3. WarnedSo(s, n, T \cup {x}, u)
    <3>1. ASSUME NEW c \in Folders
          PROVE  u.hooks[c]["monster"] = IF n \in (T \cup {x}) \cap Monsters /\ s.place[n] = c THEN NoId
                                         ELSE s.hooks[c]["monster"]
      BY <2>1, <2>2, <1>2, <1>8
    <3>2. ASSUME NEW c \in Folders
          PROVE  u.groups[c] = IF n \in (T \cup {x}) \cap UserFolders /\ s.place[n] = c THEN NoNode
                               ELSE s.groups[c]
      BY <2>1, <2>2, <1>2, <1>8
    <3>3. ASSUME NEW c \in Folders
          PROVE  u.hooks[c]["bids"] = IF Here(s, T \cup {x}, c) # {} THEN NoId ELSE s.hooks[c]["bids"]
      BY <2>1, <2>2, <1>2, <1>3, <1>8
    <3> QED BY <3>1, <3>2, <3>3, <2>2 DEF WarnedSo
  <2> QED BY <2>3 DEF u
<1>9. CASE ~(x \in Monsters /\ x = n) /\ ~(x \in UserFolders /\ x = n) /\ x \notin BidManagers \cup SdManagers
  <2>1. u = t /\ (x = n => x \notin Monsters \cup UserFolders) /\ x \notin BidManagers
    BY <1>9, OthersHear
  <2> HIDE DEF u
  <2>2. /\ u \in SiteType /\ u.place = s.place /\ u.name = s.name /\ u.conf = s.conf
        /\ \A c \in Folders : u.hooks[c] = t.hooks[c] /\ u.groups[c] = t.groups[c]
    BY <2>1, <1>1
  <2>3. WarnedSo(s, n, T \cup {x}, u)
    <3>1. ASSUME NEW c \in Folders
          PROVE  u.hooks[c]["monster"] = IF n \in (T \cup {x}) \cap Monsters /\ s.place[n] = c THEN NoId
                                         ELSE s.hooks[c]["monster"]
      BY <2>1, <2>2, <1>2, <1>9
    <3>2. ASSUME NEW c \in Folders
          PROVE  u.groups[c] = IF n \in (T \cup {x}) \cap UserFolders /\ s.place[n] = c THEN NoNode
                               ELSE s.groups[c]
      BY <2>1, <2>2, <1>2, <1>9
    <3>3. ASSUME NEW c \in Folders
          PROVE  u.hooks[c]["bids"] = IF Here(s, T \cup {x}, c) # {} THEN NoId ELSE s.hooks[c]["bids"]
      BY <2>1, <2>2, <1>2, <1>3, <1>9
    <3> QED BY <3>1, <3>2, <3>3, <2>2 DEF WarnedSo
  <2> QED BY <2>3 DEF u
<1> QED BY <1>5, <1>6, <1>7, <1>8, <1>9

\* One object hears of an addition.
LEMMA ToldStep ==
    ASSUME NEW s \in SiteType, NEW n \in Nodes, NEW T \in SUBSET Nodes, NEW x \in Nodes \ T,
           s.place[x] \in Folders, NEW t, ToldSo(s, n, T, t),
           x \in BidManagers => Here(s, T, s.place[x]) = {}
    PROVE  ToldSo(s, n, T \cup {x}, AfterAdd(t, x, n))
<1> DEFINE u == AfterAdd(t, x, n)
<1>1. t \in SiteType /\ t.place = s.place /\ t.name = s.name /\ t.conf = s.conf
  BY DEF ToldSo
<1>2. \A c \in Folders :
          /\ t.hooks[c]["monster"] = IF n \in T \cap Monsters /\ s.place[n] = c THEN s.name[n]
                                     ELSE s.hooks[c]["monster"]
          /\ t.groups[c] = IF n \in T \cap UserFolders /\ s.place[n] = c THEN n ELSE s.groups[c]
          /\ IF Here(s, T, c) # {}
             THEN t.hooks[c]["bids"] # NoId <=> \E m \in Here(s, T, c) : Url(s, m)
             ELSE t.hooks[c]["bids"] = s.hooks[c]["bids"]
  BY DEF ToldSo
<1>3. \A c \in Folders : Here(s, T \cup {x}, c) = IF x \in BidManagers /\ s.place[x] = c THEN Here(s, T, c) \cup {x}
                                                  ELSE Here(s, T, c)
  BY DEF Here
<1>4. \A app \in AppNames, id \in Ids \cup {NoId} :
        LET v == Register(t, s.place[x], app, id)
        IN  /\ v \in SiteType /\ v.place = t.place /\ v.name = t.name /\ v.conf = t.conf /\ v.groups = t.groups
            /\ \A f \in Folders : \A a \in AppNames :
                     v.hooks[f][a] = IF f = s.place[x] /\ a = app THEN id ELSE t.hooks[f][a]
  BY <1>1, OneApp
<1>0. s.name[x] \in Ids /\ NoId \notin Ids
  BY SitesAssumption DEF SiteType
<1>5. CASE x \in Monsters /\ x = n
  <2>1. u = Register(t, s.place[x], "monster", s.name[x]) /\ x \notin UserFolders \cup BidManagers
    BY <1>1, <1>5, MonsterHears
  <2> HIDE DEF u
  <2>2. /\ u \in SiteType /\ u.place = s.place /\ u.name = s.name /\ u.conf = s.conf /\ u.groups = t.groups
        /\ \A c \in Folders : /\ u.hooks[c]["monster"] = IF c = s.place[x] THEN s.name[x] ELSE t.hooks[c]["monster"]
                              /\ u.hooks[c]["bids"] = t.hooks[c]["bids"]
    BY <2>1, <1>0, <1>1, <1>4 DEF AppNames
  <2>3. ToldSo(s, n, T \cup {x}, u)
    <3>1. ASSUME NEW c \in Folders
          PROVE  u.hooks[c]["monster"] = IF n \in (T \cup {x}) \cap Monsters /\ s.place[n] = c THEN s.name[n]
                                         ELSE s.hooks[c]["monster"]
      BY <2>1, <2>2, <1>2, <1>5
    <3>2. ASSUME NEW c \in Folders
          PROVE  u.groups[c] = IF n \in (T \cup {x}) \cap UserFolders /\ s.place[n] = c THEN n
                               ELSE s.groups[c]
      BY <2>1, <2>2, <1>2, <1>5
    <3>3. ASSUME NEW c \in Folders
          PROVE  IF Here(s, T \cup {x}, c) # {}
                 THEN u.hooks[c]["bids"] # NoId <=> \E m \in Here(s, T \cup {x}, c) : Url(s, m)
                 ELSE u.hooks[c]["bids"] = s.hooks[c]["bids"]
      <4>1. Here(s, T \cup {x}, c) = Here(s, T, c) /\ u.hooks[c]["bids"] = t.hooks[c]["bids"]
        BY <2>1, <2>2, <1>3
      <4> QED BY <4>1, <1>2
    <3> QED BY <3>1, <3>2, <3>3, <2>2 DEF ToldSo
  <2> QED BY <2>3 DEF u
<1>6. CASE x \in UserFolders /\ x = n
  <2>1. u = [t EXCEPT !.groups[s.place[x]] = x] /\ x \notin Monsters \cup BidManagers
    BY <1>1, <1>6, UserFolderHears
  <2> HIDE DEF u
  <2>2. /\ u \in SiteType /\ u.place = s.place /\ u.name = s.name /\ u.conf = s.conf /\ u.hooks = t.hooks
        /\ \A c \in Folders : u.groups[c] = IF c = s.place[x] THEN x ELSE t.groups[c]
    BY <2>1, <1>1 DEF SiteType
  <2>3. ToldSo(s, n, T \cup {x}, u)
    <3>1. ASSUME NEW c \in Folders
          PROVE  u.hooks[c]["monster"] = IF n \in (T \cup {x}) \cap Monsters /\ s.place[n] = c THEN s.name[n]
                                         ELSE s.hooks[c]["monster"]
      BY <2>1, <2>2, <1>2, <1>6
    <3>2. ASSUME NEW c \in Folders
          PROVE  u.groups[c] = IF n \in (T \cup {x}) \cap UserFolders /\ s.place[n] = c THEN n
                               ELSE s.groups[c]
      BY <2>1, <2>2, <1>2, <1>6
    <3>3. ASSUME NEW c \in Folders
          PROVE  IF Here(s, T \cup {x}, c) # {}
                 THEN u.hooks[c]["bids"] # NoId <=> \E m \in Here(s, T \cup {x}, c) : Url(s, m)
                 ELSE u.hooks[c]["bids"] = s.hooks[c]["bids"]
      <4>1. Here(s, T \cup {x}, c) = Here(s, T, c) /\ u.hooks[c]["bids"] = t.hooks[c]["bids"]
        BY <2>1, <2>2, <1>3
      <4> QED BY <4>1, <1>2
    <3> QED BY <3>1, <3>2, <3>3, <2>2 DEF ToldSo
  <2> QED BY <2>3 DEF u
<1>7. CASE x \in BidManagers
  <2>1. u = UpdateHook(t, x) /\ x \notin UserFolders \cup Monsters
    BY <1>7, BidManagerHears
  <2>0. u = Register(t, s.place[x], "bids", IF Url(s, x) THEN s.name[x] ELSE NoId)
    BY <2>1, <1>1 DEF UpdateHook, Unregister, Url
  <2> HIDE DEF u
  <2>2. /\ u \in SiteType /\ u.place = s.place /\ u.name = s.name /\ u.conf = s.conf /\ u.groups = t.groups
        /\ \A c \in Folders : /\ u.hooks[c]["bids"] = IF c = s.place[x] THEN (IF Url(s, x) THEN s.name[x] ELSE NoId)
                                                      ELSE t.hooks[c]["bids"]
                              /\ u.hooks[c]["monster"] = t.hooks[c]["monster"]
    BY <2>0, <1>0, <1>1, <1>4 DEF AppNames
  <2>4. Here(s, T \cup {x}, s.place[x]) = {x}
    BY <1>3, <1>7
  <2>5. ASSUME NEW c \in Folders
        PROVE  IF Here(s, T \cup {x}, c) # {}
               THEN u.hooks[c]["bids"] # NoId <=> \E m \in Here(s, T \cup {x}, c) : Url(s, m)
               ELSE u.hooks[c]["bids"] = s.hooks[c]["bids"]
    <3>1. CASE c = s.place[x]
      <4>1. u.hooks[c]["bids"] # NoId <=> Url(s, x)
        BY <3>1, <2>2, <1>0
      <4> QED BY <3>1, <4>1, <2>4
    <3>2. CASE c # s.place[x]
      <4>1. Here(s, T \cup {x}, c) = Here(s, T, c) /\ u.hooks[c]["bids"] = t.hooks[c]["bids"]
        BY <3>2, <1>3, <2>2
      <4> QED BY <4>1, <1>2
    <3> QED BY <3>1, <3>2
  <2>3. ToldSo(s, n, T \cup {x}, u)
    <3>1. ASSUME NEW c \in Folders
          PROVE  u.hooks[c]["monster"] = IF n \in (T \cup {x}) \cap Monsters /\ s.place[n] = c THEN s.name[n]
                                         ELSE s.hooks[c]["monster"]
      BY <2>1, <2>2, <1>2, <1>7
    <3>2. ASSUME NEW c \in Folders
          PROVE  u.groups[c] = IF n \in (T \cup {x}) \cap UserFolders /\ s.place[n] = c THEN n
                               ELSE s.groups[c]
      BY <2>1, <2>2, <1>2, <1>7
    <3> QED BY <3>1, <3>2, <2>5, <2>2 DEF ToldSo
  <2> QED BY <2>3 DEF u
<1>8. CASE x \in SdManagers
  <2>1. u = UpdateTraversalData(t, x, t.wanted[x]) /\ x \notin UserFolders \cup Monsters \cup BidManagers
    BY <1>8, SdManagerHears
  <2> HIDE DEF u
  <2>4. t.wanted[x] \in BOOLEAN
    BY <1>1, <1>8 DEF SiteType
  <2>2. /\ u \in SiteType /\ u.place = s.place /\ u.name = s.name /\ u.conf = s.conf /\ u.groups = t.groups
        /\ \A c \in Folders : \A a \in {"monster", "bids"} : u.hooks[c][a] = t.hooks[c][a]
    BY <2>1, <2>4, <1>1, <1>8, SessionsOnly
  <2>3. ToldSo(s, n, T \cup {x}, u)
    <3>1. ASSUME NEW c \in Folders
          PROVE  u.hooks[c]["monster"] = IF n \in (T \cup {x}) \cap Monsters /\ s.place[n] = c THEN s.name[n]
                                         ELSE s.hooks[c]["monster"]
      BY <2>1, <2>2, <1>2, <1>8
    <3>2. ASSUME NEW c \in Folders
          PROVE  u.groups[c] = IF n \in (T \cup {x}) \cap UserFolders /\ s.place[n] = c THEN n
                               ELSE s.groups[c]
      BY <2>1, <2>2, <1>2, <1>8
    <3>3. ASSUME NEW c \in Folders
          PROVE  IF Here(s, T \cup {x}, c) # {}
                 THEN u.hooks[c]["bids"] # NoId <=> \E m \in Here(s, T \cup {x}, c) : Url(s, m)
                 ELSE u.hooks[c]["bids"] = s.hooks[c]["bids"]
      <4>1. Here(s, T \cup {x}, c) = Here(s, T, c) /\ u.hooks[c]["bids"] = t.hooks[c]["bids"]
        BY <2>1, <2>2, <1>3
      <4> QED BY <4>1, <1>2
    <3> QED BY <3>1, <3>2, <3>3, <2>2 DEF ToldSo
  <2> QED BY <2>3 DEF u
<1>9. CASE ~(x \in Monsters /\ x = n) /\ ~(x \in UserFolders /\ x = n) /\ x \notin BidManagers \cup SdManagers
  <2>1. u = t /\ (x = n => x \notin Monsters \cup UserFolders) /\ x \notin BidManagers
    BY <1>9, OthersHear
  <2> HIDE DEF u
  <2>2. /\ u \in SiteType /\ u.place = s.place /\ u.name = s.name /\ u.conf = s.conf
        /\ \A c \in Folders : u.hooks[c] = t.hooks[c] /\ u.groups[c] = t.groups[c]
    BY <2>1, <1>1
  <2>3. ToldSo(s, n, T \cup {x}, u)
    <3>1. ASSUME NEW c \in Folders
          PROVE  u.hooks[c]["monster"] = IF n \in (T \cup {x}) \cap Monsters /\ s.place[n] = c THEN s.name[n]
                                         ELSE s.hooks[c]["monster"]
      BY <2>1, <2>2, <1>2, <1>9
    <3>2. ASSUME NEW c \in Folders
          PROVE  u.groups[c] = IF n \in (T \cup {x}) \cap UserFolders /\ s.place[n] = c THEN n
                               ELSE s.groups[c]
      BY <2>1, <2>2, <1>2, <1>9
    <3>3. ASSUME NEW c \in Folders
          PROVE  IF Here(s, T \cup {x}, c) # {}
                 THEN u.hooks[c]["bids"] # NoId <=> \E m \in Here(s, T \cup {x}, c) : Url(s, m)
                 ELSE u.hooks[c]["bids"] = s.hooks[c]["bids"]
      <4>1. Here(s, T \cup {x}, c) = Here(s, T, c) /\ u.hooks[c]["bids"] = t.hooks[c]["bids"]
        BY <2>1, <2>2, <1>3
      <4> QED BY <4>1, <1>2
    <3> QED BY <3>1, <3>2, <3>3, <2>2 DEF ToldSo
  <2> QED BY <2>3 DEF u
<1> QED BY <1>5, <1>6, <1>7, <1>8, <1>9

\* All objects below hear of a deletion, in any order.
LEMMA WarnedIs ==
    ASSUME NEW s \in SiteType, NEW n \in Nodes, \A x \in BelowOf(s, n) : s.place[x] \in Folders
    PROVE  WarnedSo(s, n, BelowOf(s, n), Warned(s, n))
<1> DEFINE B == BelowOf(s, n)
           D == {t \in SiteType : t.place = s.place}
           G == [p \in B \X D |-> BeforeDelete(p[2], p[1], n)]
           C == [u \in SUBSET B |-> CHOOSE x \in u : TRUE]
           iter[u \in SUBSET B] ==
             IF u = {} THEN s ELSE BeforeDelete(iter[u \ {CHOOSE x \in u : TRUE}], CHOOSE x \in u : TRUE, n)
<1>1. B \in SUBSET Nodes /\ IsFiniteSet(B) /\ s \in D
  BY TraversalAssumption, FS_Subset DEF BelowOf
<1>2. Warned(s, n) = iter[B]
  BY DEF Warned, FoldSet, MapThenFoldSet
<1>3. Picks(C, B)
  BY DEF Picks
<1>4. G \in [B \X D -> D]
  <2>1. ASSUME NEW t \in D, NEW x \in B PROVE BeforeDelete(t, x, n) \in D
    <3>1. t \in SiteType /\ x \in Nodes \ {} /\ t.place[x] \in Folders /\ {} \in SUBSET Nodes
      BY <1>1
    <3>2. WarnedSo(t, n, {}, t) /\ \A c : Here(t, {}, c) = {}
      BY DEF WarnedSo, Here
    <3>3. WarnedSo(t, n, {} \cup {x}, BeforeDelete(t, x, n))
      <4> HIDE DEF D, B
      <4> QED BY <3>1, <3>2, WarnStep
    <3> QED BY <3>3 DEF WarnedSo
  <2> QED BY <2>1
<1>5. iter = [u \in SUBSET B |-> IF u = {} THEN s
                               ELSE BeforeDelete(iter[u \ {CHOOSE x \in u : TRUE}], CHOOSE x \in u : TRUE, n)]
  <2>1. PICK f \in [SUBSET B -> D] : FoldOf(f, s, C, G, SUBSET B)
    <3> HIDE DEF B, C, D, G
    <3> QED BY <1>1, <1>3, <1>4, FoldDefined
  <2>2. ASSUME NEW u \in SUBSET B, u # {}
        PROVE  f[u] = BeforeDelete(f[u \ {CHOOSE x \in u : TRUE}], CHOOSE x \in u : TRUE, n)
    <3>1. f[u] = G[<<C[u], f[u \ {C[u]}]>>] /\ C[u] \in B /\ u \ {C[u]} \in SUBSET B
      <4> HIDE DEF B, C, D, G
      <4> QED BY <2>1, <2>2, <1>3 DEF FoldOf, Picks
    <3>2. f[u \ {C[u]}] \in D /\ C[u] = CHOOSE x \in u : TRUE
      <4> HIDE DEF B, D, G
      <4> QED BY <3>1
    <3>3. f[u] = BeforeDelete(f[u \ {C[u]}], C[u], n)
      <4> HIDE DEF B, C, D
      <4> QED BY <3>1, <3>2
    <3> QED BY <3>2, <3>3
  <2>3. {} \in SUBSET B /\ f[{}] = s
    BY <2>1 DEF FoldOf
  <2>4. f = [u \in SUBSET B |-> IF u = {} THEN s
                              ELSE BeforeDelete(f[u \ {CHOOSE x \in u : TRUE}], CHOOSE x \in u : TRUE, n)]
    <3>1. f = [u \in SUBSET B |-> f[u]]
      OBVIOUS
    <3> HIDE DEF B, C, D, G
    <3> QED BY <2>2, <2>3, <3>1
  <2> HIDE DEF B, C, D, G
  <2> QED BY <2>4, Zenon
<1> DEFINE F == {u \in SUBSET B : WarnedSo(s, n, u, iter[u])}
<1> HIDE DEF iter
<1>6. {} \in F
  <2>1. iter[{}] = s
    BY <1>5
  <2>2. WarnedSo(s, n, {}, s)
    BY DEF WarnedSo, Here
  <2> QED BY <2>1, <2>2
<1>7. ASSUME NEW u \in SUBSET B, u # {}, u \ {C[u]} \in F PROVE u \in F
  <2> DEFINE x == C[u]
             T == u \ {x}
  <2>1. x \in u /\ x \in Nodes \ T /\ s.place[x] \in Folders /\ T \in SUBSET Nodes /\ u = T \cup {x}
    BY <1>7, <1>1, <1>3 DEF Picks
  <2>2. iter[u] = BeforeDelete(iter[T], x, n)
    BY <1>5, <1>7
  <2>3. WarnedSo(s, n, T, iter[T])
    BY <1>7
  <2>4. WarnedSo(s, n, T \cup {x}, BeforeDelete(iter[T], x, n))
    <3> HIDE DEF x, T, B, C, D, F
    <3> QED BY <2>1, <2>3, WarnStep
  <2> HIDE DEF x, T, B
  <2>5. WarnedSo(s, n, u, iter[u])
    BY <2>1, <2>2, <2>4
  <2> QED BY <2>5
<1>8. B \in F
  <2> HIDE DEF B, C, F
  <2> QED BY <1>1, <1>3, <1>6, <1>7, SubsetInduction
<1> QED BY <1>2, <1>8

\* All objects below hear of an addition, in any order.
LEMMA ToldIs ==
    ASSUME NEW s \in SiteType, NEW n \in Nodes, \A x \in BelowOf(s, n) : s.place[x] \in Folders,
           \A x, m \in BelowOf(s, n) : x \in BidManagers /\ m \in BidManagers /\ s.place[x] = s.place[m] => x = m
    PROVE  ToldSo(s, n, BelowOf(s, n), Told(s, n))
<1> DEFINE B == BelowOf(s, n)
           D == {t \in SiteType : t.place = s.place}
           G == [p \in B \X D |-> AfterAdd(p[2], p[1], n)]
           C == [u \in SUBSET B |-> CHOOSE x \in u : TRUE]
           iter[u \in SUBSET B] ==
             IF u = {} THEN s ELSE AfterAdd(iter[u \ {CHOOSE x \in u : TRUE}], CHOOSE x \in u : TRUE, n)
<1>1. B \in SUBSET Nodes /\ IsFiniteSet(B) /\ s \in D
  BY TraversalAssumption, FS_Subset DEF BelowOf
<1>2. Told(s, n) = iter[B]
  BY DEF Told, FoldSet, MapThenFoldSet
<1>3. Picks(C, B)
  BY DEF Picks
<1>4. G \in [B \X D -> D]
  <2>1. ASSUME NEW t \in D, NEW x \in B PROVE AfterAdd(t, x, n) \in D
    <3>1. t \in SiteType /\ x \in Nodes \ {} /\ t.place[x] \in Folders /\ {} \in SUBSET Nodes
      BY <1>1
    <3>2. ToldSo(t, n, {}, t) /\ \A c : Here(t, {}, c) = {}
      BY DEF ToldSo, Here
    <3>3. ToldSo(t, n, {} \cup {x}, AfterAdd(t, x, n))
      <4> HIDE DEF D, B
      <4> QED BY <3>1, <3>2, ToldStep
    <3> QED BY <3>3 DEF ToldSo
  <2> QED BY <2>1
<1>5. iter = [u \in SUBSET B |-> IF u = {} THEN s
                               ELSE AfterAdd(iter[u \ {CHOOSE x \in u : TRUE}], CHOOSE x \in u : TRUE, n)]
  <2>1. PICK f \in [SUBSET B -> D] : FoldOf(f, s, C, G, SUBSET B)
    <3> HIDE DEF B, C, D, G
    <3> QED BY <1>1, <1>3, <1>4, FoldDefined
  <2>2. ASSUME NEW u \in SUBSET B, u # {}
        PROVE  f[u] = AfterAdd(f[u \ {CHOOSE x \in u : TRUE}], CHOOSE x \in u : TRUE, n)
    <3>1. f[u] = G[<<C[u], f[u \ {C[u]}]>>] /\ C[u] \in B /\ u \ {C[u]} \in SUBSET B
      <4> HIDE DEF B, C, D, G
      <4> QED BY <2>1, <2>2, <1>3 DEF FoldOf, Picks
    <3>2. f[u \ {C[u]}] \in D /\ C[u] = CHOOSE x \in u : TRUE
      <4> HIDE DEF B, D, G
      <4> QED BY <3>1
    <3>3. f[u] = AfterAdd(f[u \ {C[u]}], C[u], n)
      <4> HIDE DEF B, C, D
      <4> QED BY <3>1, <3>2
    <3> QED BY <3>2, <3>3
  <2>3. {} \in SUBSET B /\ f[{}] = s
    BY <2>1 DEF FoldOf
  <2>4. f = [u \in SUBSET B |-> IF u = {} THEN s
                              ELSE AfterAdd(f[u \ {CHOOSE x \in u : TRUE}], CHOOSE x \in u : TRUE, n)]
    <3>1. f = [u \in SUBSET B |-> f[u]]
      OBVIOUS
    <3> HIDE DEF B, C, D, G
    <3> QED BY <2>2, <2>3, <3>1
  <2> HIDE DEF B, C, D, G
  <2> QED BY <2>4, Zenon
<1> DEFINE F == {u \in SUBSET B : ToldSo(s, n, u, iter[u])}
<1> HIDE DEF iter
<1>6. {} \in F
  <2>1. iter[{}] = s
    BY <1>5
  <2>2. ToldSo(s, n, {}, s)
    BY DEF ToldSo, Here
  <2> QED BY <2>1, <2>2
<1>7. ASSUME NEW u \in SUBSET B, u # {}, u \ {C[u]} \in F PROVE u \in F
  <2> DEFINE x == C[u]
             T == u \ {x}
  <2>1. x \in u /\ x \in Nodes \ T /\ s.place[x] \in Folders /\ T \in SUBSET Nodes /\ u = T \cup {x}
    BY <1>7, <1>1, <1>3 DEF Picks
  <2>2. iter[u] = AfterAdd(iter[T], x, n)
    BY <1>5, <1>7
  <2>3. ToldSo(s, n, T, iter[T])
    BY <1>7
  <2>4. ToldSo(s, n, T \cup {x}, AfterAdd(iter[T], x, n))
    <3> HIDE DEF x, T, B, C, D, F
    <3>1. x \in BidManagers => Here(s, T, s.place[x]) = {}
      <4>1. x \in B /\ T \subseteq B /\ x \notin T
        BY <2>1, <1>7 DEF T
      <4> QED BY <4>1 DEF Here, B
    <3> QED BY <2>1, <2>3, <3>1, ToldStep
  <2> HIDE DEF x, T, B
  <2>5. ToldSo(s, n, u, iter[u])
    BY <2>1, <2>2, <2>4
  <2> QED BY <2>5
<1>8. B \in F
  <2> HIDE DEF B, C, F
  <2> QED BY <1>1, <1>3, <1>6, <1>7, SubsetInduction
<1> QED BY <1>2, <1>8

-----------------------------------------------------------------------------
(* The site stays built *)

\* Fits, part by part
FitMonsters(s, c) ==
    /\ \A m \in Monsters : s.place[m] = c => s.hooks[c]["monster"] = s.name[m]
    /\ s.hooks[c]["monster"] # NoId => \E m \in Monsters : s.place[m] = c
FitGroups(s, c) ==
    /\ \A u \in UserFolders : s.place[u] = c => s.groups[c] = u
    /\ s.groups[c] # NoNode => s.groups[c] \in UserFolders /\ s.place[s.groups[c]] = c
FitBids(s, c) ==
    s.hooks[c]["bids"] # NoId <=> \E m \in BidManagers : s.place[m] = c /\ Url(s, m)

\* The parts are the whole.
LEMMA FitsIs ==
    ASSUME NEW s \in SiteType, NEW c \in Folders
    PROVE  Fits(s, c) <=> FitMonsters(s, c) /\ FitGroups(s, c) /\ FitBids(s, c)
<1> DEFINE here == {n \in Nodes : s.place[n] = c}
           h == s.hooks[c]["monster"]
           g == s.groups[c]
<1>1. /\ Monsters \subseteq Nodes /\ UserFolders \subseteq Nodes /\ BidManagers \subseteq Nodes
      /\ NoNode \notin Nodes /\ NoId \notin Ids /\ \A n \in Nodes : s.name[n] \in Ids
  BY TraversalAssumption, SitesAssumption DEF SiteType
<1>2. {s.name[n] : n \in here \cap Monsters} = {h} \ {NoId} <=> FitMonsters(s, c)
  <2>1. ASSUME {s.name[n] : n \in here \cap Monsters} = {h} \ {NoId} PROVE FitMonsters(s, c)
    <3>1. ASSUME NEW m \in Monsters, s.place[m] = c PROVE h = s.name[m]
      BY <1>1, <2>1, <3>1
    <3>2. ASSUME h # NoId PROVE \E m \in Monsters : s.place[m] = c
      <4>1. h \in {s.name[n] : n \in here \cap Monsters}
        BY <2>1, <3>2
      <4> QED BY <4>1
    <3> QED BY <3>1, <3>2 DEF FitMonsters
  <2>2. ASSUME FitMonsters(s, c) PROVE {s.name[n] : n \in here \cap Monsters} = {h} \ {NoId}
    <3>1. ASSUME NEW n \in here \cap Monsters PROVE s.name[n] \in {h} \ {NoId}
      BY <1>1, <2>2 DEF FitMonsters
    <3>2. ASSUME h # NoId PROVE h \in {s.name[n] : n \in here \cap Monsters}
      BY <1>1, <2>2, <3>2 DEF FitMonsters
    <3> QED BY <3>1, <3>2
  <2> QED BY <2>1, <2>2
<1>3. here \cap UserFolders = {g} \ {NoNode} <=> FitGroups(s, c)
  <2>1. ASSUME here \cap UserFolders = {g} \ {NoNode} PROVE FitGroups(s, c)
    <3>1. ASSUME NEW u \in UserFolders, s.place[u] = c PROVE g = u
      BY <1>1, <2>1, <3>1
    <3>2. ASSUME g # NoNode PROVE g \in UserFolders /\ s.place[g] = c
      <4>1. g \in here \cap UserFolders
        BY <2>1, <3>2
      <4> QED BY <4>1
    <3> QED BY <3>1, <3>2 DEF FitGroups
  <2>2. ASSUME FitGroups(s, c) PROVE here \cap UserFolders = {g} \ {NoNode}
    BY <1>1, <2>2 DEF FitGroups
  <2> QED BY <2>1, <2>2
<1>4. ({m \in here \cap BidManagers : "url" \in ToSet(s.conf[m].ns)} # {} <=> s.hooks[c]["bids"] # NoId)
        <=> FitBids(s, c)
  <2>1. {m \in here \cap BidManagers : "url" \in ToSet(s.conf[m].ns)} # {}
          <=> \E m \in BidManagers : s.place[m] = c /\ Url(s, m)
    BY <1>1 DEF Url
  <2> QED BY <2>1 DEF FitBids
<1> QED BY <1>2, <1>3, <1>4 DEF Fits

\* The same of a site.
LEMMA BuiltIs ==
    ASSUME NEW s
    PROVE  Built(s) <=> /\ s \in SiteType /\ Tree(s.place, Above(s)) /\ WellNamed(s)
                        /\ \A c \in Folders : FitMonsters(s, c) /\ FitGroups(s, c) /\ FitBids(s, c)
<1>1. ASSUME s \in SiteType
      PROVE  (\A c \in Folders : Fits(s, c)) <=> \A c \in Folders : FitMonsters(s, c) /\ FitGroups(s, c) /\ FitBids(s, c)
  BY <1>1, FitsIs
<1> QED BY <1>1 DEF Built

\* One of a kind in a container
LEMMA OnlyOne ==
    ASSUME NEW s \in SiteType, WellNamed(s), NEW n \in Nodes, NEW m \in Nodes, s.place[n] \in Folders,
           s.place[m] = s.place[n]
    PROVE  /\ s.name[m] = s.name[n] => m = n
           /\ m \in BidManagers /\ n \in BidManagers => m = n
           /\ m \in UserFolders /\ n \in UserFolders => m = n
           /\ m \in Monsters /\ n \in Monsters /\ FitMonsters(s, s.place[n]) => m = n
<1>1. s.place[n] # NoNode /\ s.place[m] # NoNode
  BY TraversalAssumption
<1>2. s.name[m] = s.name[n] => m = n
  BY <1>1 DEF WellNamed
<1>3. m \in BidManagers /\ n \in BidManagers => s.name[m] = s.name[n]
  BY <1>1 DEF WellNamed
<1>4. m \in UserFolders /\ n \in UserFolders => s.name[m] = s.name[n]
  BY <1>1 DEF WellNamed
<1>5. m \in Monsters /\ n \in Monsters /\ FitMonsters(s, s.place[n]) => s.name[m] = s.name[n]
  BY DEF FitMonsters
<1> QED BY <1>2, <1>3, <1>4, <1>5

\* A free id is nobody's.
LEMMA FreeIs ==
    ASSUME NEW s, NEW c \in Folders, NEW id, Child(s, c, id) = NoNode, NEW m \in Nodes, s.place[m] = c
    PROVE  s.name[m] # id
<1>1. SUFFICES ASSUME s.name[m] = id PROVE FALSE
  OBVIOUS
<1> DEFINE here == {n \in Nodes : s.place[n] = c /\ s.name[n] = id}
<1>2. m \in here
  BY <1>1
<1>3. Child(s, c, id) = CHOOSE n \in here : TRUE
  BY <1>2 DEF Child
<1>4. Child(s, c, id) \in Nodes
  BY <1>2, <1>3
<1> QED BY <1>4, TraversalAssumption

LEMMA BelowArePlaced ==
    ASSUME NEW s \in SiteType, Tree(s.place, Above(s)), NEW n \in Nodes, s.place[n] # NoNode
    PROVE  /\ \A x \in BelowOf(s, n) : x \in Nodes /\ s.place[x] \in Folders
           /\ BelowOf(s, n) = {m \in Nodes : m = n \/ n \in Above(s)[m]}
           /\ n \in BelowOf(s, n) /\ Root \notin BelowOf(s, n)
           /\ \A m \in Nodes : s.place[m] \in BelowOf(s, n) => m \in BelowOf(s, n)
           /\ \A m \in BelowOf(s, n) : m # n => s.place[m] \in BelowOf(s, n)
<1> DEFINE A == Above(s)
<1>1. s.place \in [Nodes -> Folders \cup {NoNode}] /\ Root \in Nodes /\ Folders \subseteq Nodes /\ NoNode \notin Nodes
  BY TraversalAssumption DEF SiteType
<1>2. BelowOf(s, n) = {m \in Nodes : m = n \/ n \in A[m]}
  <2>1. s.place \in [Nodes -> Folders \cup {NoNode}]
    BY <1>1
  <2>2. \A x \in Nodes : BelowOf(s, x) = {m \in Nodes : m = x \/ x \in Above(s)[m]}
    BY <2>1, AboveIs
  <2> QED BY <2>2
<1>3. /\ s.place[Root] = NoNode
      /\ \A m \in Nodes : /\ A[m] = IF s.place[m] = NoNode THEN {} ELSE {s.place[m]} \cup A[s.place[m]]
                          /\ \A c \in A[m] : A[c] \subseteq A[m]
  BY DEF Tree
<1> HIDE DEF A
<1>4. \A x \in BelowOf(s, n) : x \in Nodes /\ s.place[x] \in Folders
  BY <1>1, <1>2, <1>3
<1>5. n \in BelowOf(s, n) /\ Root \notin BelowOf(s, n)
  BY <1>1, <1>2, <1>3
<1>6. ASSUME NEW m \in Nodes, s.place[m] \in BelowOf(s, n) PROVE m \in BelowOf(s, n)
  <2>1. s.place[m] \in Nodes /\ A[m] = {s.place[m]} \cup A[s.place[m]]
    BY <1>1, <1>2, <1>3, <1>6
  <2> QED BY <2>1, <1>2, <1>6
<1>7. ASSUME NEW m \in BelowOf(s, n), m # n PROVE s.place[m] \in BelowOf(s, n)
  <2>1. m \in Nodes /\ n \in A[m] /\ s.place[m] \in Folders
    BY <1>2, <1>4, <1>7
  <2>2. A[m] = {s.place[m]} \cup A[s.place[m]] /\ s.place[m] \in Nodes
    BY <2>1, <1>1, <1>3
  <2> QED BY <2>1, <2>2, <1>2
<1> QED BY <1>2, <1>4, <1>5, <1>6, <1>7 DEF A

\* Adding an object leaves a site that is built.
LEMMA AddIsBuilt ==
    ASSUME Built(site), NEW n \in Managed, NEW c \in Folders, NEW id \in Titles, NEW wanted \in BOOLEAN,
           NEW conf \in Namespaces, AddManager(n, c, id, wanted, conf)
    PROVE  Built(site')
<1> DEFINE s == [site EXCEPT !.place[n] = c, !.name[n] = id,
                            !.wanted = IF n \in SdManagers THEN [@ EXCEPT ![n] = wanted] ELSE @,
                            !.conf = IF n \in BidManagers THEN [@ EXCEPT ![n] = conf] ELSE @]
           A == Above(site)
           above == [A EXCEPT ![n] = {c} \cup A[c]]
<1>1. /\ site' = Told(s, n) /\ site.place[n] = NoNode /\ c # n /\ Free(site, c, n, id)
      /\ c = Root \/ site.place[c] # NoNode
      /\ n \in UserFolders => id = "acl_users"
      /\ n \in BidManagers => id = "browser_id_manager"
  BY DEF AddManager
<1>2. /\ s \in SiteType
      /\ s.place = [site.place EXCEPT ![n] = c] /\ s.name = [site.name EXCEPT ![n] = id]
      /\ s.hooks = site.hooks /\ s.groups = site.groups
      /\ \A m \in BidManagers : m # n => s.conf[m] = site.conf[m]
  <2>1. site \in SiteType /\ n \in Nodes /\ id \in Ids
    BY TraversalAssumption DEF Built, Ids
  <2> DEFINE p == [site.place EXCEPT ![n] = c]
             i == [site.name EXCEPT ![n] = id]
             w == IF n \in SdManagers THEN [site.wanted EXCEPT ![n] = wanted] ELSE site.wanted
             g == IF n \in BidManagers THEN [site.conf EXCEPT ![n] = conf] ELSE site.conf
  <2>2. s = [site EXCEPT !.place = p, !.name = i, !.wanted = w, !.conf = g]
    BY <2>1 DEF SiteType
  <2>3. p \in [Nodes -> Folders \cup {NoNode}] /\ i \in [Nodes -> Ids] /\ g \in [BidManagers -> Namespaces]
    BY <2>1 DEF SiteType
  <2>4. w \in [SdManagers -> BOOLEAN]
    BY <2>1 DEF SiteType
  <2>5. \A m \in BidManagers : m # n => g[m] = site.conf[m]
    BY <2>1 DEF SiteType
  <2> HIDE DEF s, p, i, w, g
  <2>6. s \in SiteType /\ s.place = p /\ s.name = i /\ s.hooks = site.hooks /\ s.groups = site.groups /\ s.conf = g
    BY <2>1, <2>2, <2>3, <2>4 DEF SiteType
  <2> QED BY <2>5, <2>6 DEF p, i
<1> HIDE DEF s
<1>3. n \in Nodes /\ n # Root /\ Root \in Folders /\ Folders \subseteq Nodes /\ NoNode \notin Nodes
  BY TraversalAssumption
<1>4. /\ site \in SiteType /\ Tree(site.place, A) /\ WellNamed(site)
      /\ \A f \in Folders : FitMonsters(site, f) /\ FitGroups(site, f) /\ FitBids(site, f)
      /\ site.place \in [Nodes -> Folders \cup {NoNode}] /\ site.name \in [Nodes -> Ids]
  BY BuiltIs DEF SiteType
<1> HIDE DEF A
<1>5. /\ A \in [Nodes -> SUBSET Folders] /\ site.place[Root] = NoNode
      /\ \A m \in Nodes : /\ A[m] = IF site.place[m] = NoNode THEN {} ELSE {site.place[m]} \cup A[site.place[m]]
                          /\ m \notin A[m]
                          /\ \A x \in A[m] : A[x] \subseteq A[m] /\ (x = Root \/ site.place[x] # NoNode)
  BY <1>4 DEF Tree
<1>6. \A m \in Nodes : n \notin A[m] /\ site.place[m] # n
  <2>1. \A m \in Nodes : n \notin A[m]
    BY <1>1, <1>3, <1>5
  <2>2. ASSUME NEW m \in Nodes, site.place[m] = n PROVE FALSE
    BY <2>1, <2>2, <1>3, <1>5
  <2> QED BY <2>1, <2>2
<1>7. \A m \in Nodes : s.place[m] = (IF m = n THEN c ELSE site.place[m]) /\ s.name[m] = (IF m = n THEN id ELSE site.name[m])
  BY <1>2, <1>4
<1>8. Tree(s.place, above)
  <2>1. above \in [Nodes -> SUBSET Folders] /\ \A m \in Nodes : above[m] = IF m = n THEN {c} \cup A[c] ELSE A[m]
    BY <1>3, <1>5
  <2> HIDE DEF above
  <2>2. ASSUME NEW m \in Nodes
        PROVE  /\ above[m] = IF s.place[m] = NoNode THEN {} ELSE {s.place[m]} \cup above[s.place[m]]
               /\ m \notin above[m]
    <3>1. CASE m = n
      BY <3>1, <2>1, <1>1, <1>3, <1>6, <1>7
    <3>2. CASE m # n
      BY <3>2, <2>1, <1>3, <1>4, <1>5, <1>6, <1>7
    <3> QED BY <3>1, <3>2
  <2>3. ASSUME NEW m \in Nodes, NEW x \in above[m]
        PROVE  above[x] \subseteq above[m] /\ (x = Root \/ s.place[x] # NoNode)
    <3>1. x \in Nodes /\ x # n
      BY <2>1, <1>1, <1>3, <1>5, <1>6
    <3>2. above[x] = A[x] /\ s.place[x] = site.place[x]
      BY <3>1, <2>1, <1>7
    <3>3. CASE m = n
      <4>1. x = c \/ x \in A[c]
        BY <3>3, <2>1
      <4> QED BY <4>1, <3>2, <3>3, <2>1, <1>1, <1>3, <1>5
    <3>4. CASE m # n
      BY <3>1, <3>2, <3>4, <2>1, <1>5
    <3> QED BY <3>3, <3>4
  <2>4. s.place[Root] = NoNode
    BY <1>3, <1>5, <1>7
  <2> QED BY <2>1, <2>2, <2>3, <2>4 DEF Tree
<1>9. BelowOf(s, n) = {n} /\ Above(s) = above
  <2>1. s.place \in [Nodes -> Folders \cup {NoNode}]
    BY <1>2 DEF SiteType
  <2>2. Above(s) = above /\ BelowOf(s, n) = {m \in Nodes : m = n \/ n \in above[m]}
    <3> HIDE DEF above
    <3> QED BY <2>1, <1>3, <1>8, AboveIs
  <2>3. \A m \in Nodes : m # n => n \notin above[m]
    BY <1>3, <1>5, <1>6
  <2> QED BY <2>2, <2>3, <1>3
<1>10. WellNamed(s)
  <2>1. ASSUME NEW x \in Nodes, s.place[x] # NoNode
        PROVE  /\ x \in UserFolders => s.name[x] = "acl_users"
               /\ x \in BidManagers => s.name[x] = "browser_id_manager"
    BY <2>1, <1>1, <1>4, <1>7 DEF WellNamed
  <2>2. \A m \in Nodes : site.place[m] = c => site.name[m] # id
    BY <1>1, FreeIs DEF Free
  <2>3. ASSUME NEW x \in Nodes, s.place[x] # NoNode, NEW m \in Nodes, s.place[m] = s.place[x], s.name[m] = s.name[x]
        PROVE  m = x
    <3>1. CASE m = n \/ x = n
      BY <2>2, <2>3, <3>1, <1>7
    <3>2. CASE m # n /\ x # n
      BY <2>3, <3>2, <1>4, <1>7 DEF WellNamed
    <3> QED BY <3>1, <3>2
  <2> QED BY <2>1, <2>3 DEF WellNamed
<1>11. ToldSo(s, n, {n}, site')
  <2>1. \A x \in BelowOf(s, n) : s.place[x] \in Folders
    BY <1>9, <1>3, <1>7
  <2>2. \A x, m \in BelowOf(s, n) : x \in BidManagers /\ m \in BidManagers /\ s.place[x] = s.place[m] => x = m
    BY <1>9
  <2>3. ToldSo(s, n, BelowOf(s, n), Told(s, n))
    BY <2>1, <2>2, <1>2, <1>3, ToldIs
  <2> QED BY <2>3, <1>1, <1>9
<1> DEFINE t == site'
<1>12. /\ t \in SiteType /\ t.place = s.place /\ t.name = s.name /\ t.conf = s.conf
       /\ \A f \in Folders :
          /\ t.hooks[f]["monster"] = IF n \in Monsters /\ f = c THEN id ELSE site.hooks[f]["monster"]
          /\ t.groups[f] = IF n \in UserFolders /\ f = c THEN n ELSE site.groups[f]
          /\ IF n \in BidManagers /\ f = c THEN t.hooks[f]["bids"] # NoId <=> Url(s, n)
             ELSE t.hooks[f]["bids"] = site.hooks[f]["bids"]
  <2>1. \A f \in Folders : Here(s, {n}, f) = IF n \in BidManagers /\ f = c THEN {n} ELSE {}
    BY <1>3, <1>7 DEF Here
  <2>2. s.place[n] = c /\ s.name[n] = id /\ s.hooks = site.hooks /\ s.groups = site.groups
    BY <1>2, <1>3, <1>7
  <2> HIDE DEF t
  <2>3. ToldSo(s, n, {n}, t)
    BY <1>11 DEF t
  <2>4. t \in SiteType /\ t.place = s.place /\ t.name = s.name /\ t.conf = s.conf
    BY <2>3 DEF ToldSo
  <2>5. ASSUME NEW f \in Folders
        PROVE  /\ t.hooks[f]["monster"] = IF n \in Monsters /\ f = c THEN id ELSE site.hooks[f]["monster"]
               /\ t.groups[f] = IF n \in UserFolders /\ f = c THEN n ELSE site.groups[f]
    BY <2>2, <2>3 DEF ToldSo
  <2>6. ASSUME NEW f \in Folders
        PROVE  IF n \in BidManagers /\ f = c THEN t.hooks[f]["bids"] # NoId <=> Url(s, n)
               ELSE t.hooks[f]["bids"] = site.hooks[f]["bids"]
    <3>1. IF Here(s, {n}, f) # {}
          THEN t.hooks[f]["bids"] # NoId <=> \E m \in Here(s, {n}, f) : Url(s, m)
          ELSE t.hooks[f]["bids"] = s.hooks[f]["bids"]
      BY <2>3 DEF ToldSo
    <3> QED BY <3>1, <2>1, <2>2
  <2> QED BY <2>4, <2>5, <2>6
<1> HIDE DEF t
<1>13. /\ Monsters \subseteq Nodes /\ UserFolders \subseteq Nodes /\ BidManagers \subseteq Nodes
       /\ NoId \notin Ids /\ id \in Ids
       /\ \A m \in Nodes : t.place[m] = (IF m = n THEN c ELSE site.place[m]) /\ t.name[m] = (IF m = n THEN id ELSE site.name[m])
  BY TraversalAssumption, SitesAssumption, <1>7, <1>12 DEF Ids
<1>14. ASSUME NEW f \in Folders PROVE FitMonsters(t, f)
  <2>1. FitMonsters(site, f)
    BY <1>4
  <2>2. n \in Monsters => site.hooks[c]["monster"] = NoId
    BY <1>1 DEF Free
  <2>3. ASSUME NEW m \in Monsters, t.place[m] = f PROVE t.hooks[f]["monster"] = t.name[m]
    <3>1. CASE m = n
      BY <3>1, <2>3, <1>12, <1>13
    <3>2. CASE m # n
      <4>1. site.place[m] = f /\ site.hooks[f]["monster"] = site.name[m] /\ site.name[m] \in Ids
        BY <3>2, <2>1, <2>3, <1>4, <1>13 DEF FitMonsters
      <4>2. ~(n \in Monsters /\ f = c)
        BY <4>1, <2>2, <1>13
      <4> QED BY <3>2, <4>1, <4>2, <1>12, <1>13
    <3> QED BY <3>1, <3>2
  <2>4. ASSUME t.hooks[f]["monster"] # NoId PROVE \E m \in Monsters : t.place[m] = f
    <3>1. CASE n \in Monsters /\ f = c
      BY <3>1, <1>13
    <3>2. CASE ~(n \in Monsters /\ f = c)
      <4>1. PICK m \in Monsters : site.place[m] = f
        BY <3>2, <2>1, <2>4, <1>12 DEF FitMonsters
      <4>2. t.place[m] = f
        BY <4>1, <1>1, <1>3, <1>13
      <4> QED BY <4>2
    <3> QED BY <3>1, <3>2
  <2> QED BY <2>3, <2>4 DEF FitMonsters
<1>15. ASSUME NEW f \in Folders PROVE FitGroups(t, f)
  <2>1. FitGroups(site, f)
    BY <1>4
  <2>2. \A u \in UserFolders : u # n /\ t.place[u] = c => n \notin UserFolders
    <3>1. WellNamed(t)
      BY <1>10, <1>12 DEF WellNamed
    <3> QED BY <3>1, <1>3, <1>12, <1>13, OnlyOne
  <2>3. ASSUME NEW u \in UserFolders, t.place[u] = f PROVE t.groups[f] = u
    BY <2>1, <2>2, <2>3, <1>12, <1>13 DEF FitGroups
  <2>4. ASSUME t.groups[f] # NoNode PROVE t.groups[f] \in UserFolders /\ t.place[t.groups[f]] = f
    BY <2>1, <2>4, <1>1, <1>3, <1>12, <1>13 DEF FitGroups
  <2> QED BY <2>3, <2>4 DEF FitGroups
<1>16. ASSUME NEW f \in Folders PROVE FitBids(t, f)
  <2>1. FitBids(site, f)
    BY <1>4
  <2>2. \A m \in BidManagers : m # n /\ t.place[m] = c => n \notin BidManagers
    <3>1. WellNamed(t)
      BY <1>10, <1>12 DEF WellNamed
    <3> QED BY <3>1, <1>3, <1>12, <1>13, OnlyOne
  <2>3. \A m \in BidManagers : Url(t, m) = Url(s, m) /\ (m # n => Url(t, m) = Url(site, m))
    BY <1>2, <1>12 DEF Url
  <2>4. CASE n \in BidManagers /\ f = c
    <3>1. t.hooks[f]["bids"] # NoId <=> Url(t, n)
      BY <2>3, <2>4, <1>12
    <3>2. \A m \in BidManagers : t.place[m] = f <=> m = n
      BY <2>2, <2>4, <1>13
    <3> QED BY <3>1, <3>2, <2>4 DEF FitBids
  <2>5. CASE ~(n \in BidManagers /\ f = c)
    <3>1. t.hooks[f]["bids"] = site.hooks[f]["bids"]
      BY <2>5, <1>12
    <3>2. \A m \in BidManagers : (t.place[m] = f /\ Url(t, m)) <=> (site.place[m] = f /\ Url(site, m))
      BY <2>3, <2>5, <1>1, <1>3, <1>13
    <3> QED BY <3>1, <3>2, <2>1 DEF FitBids
  <2> QED BY <2>4, <2>5
<1>17. Tree(t.place, Above(t)) /\ WellNamed(t)
  <2>1. Above(t) = above
    <3>1. t.place \in [Nodes -> Folders \cup {NoNode}]
      BY <1>12 DEF SiteType
    <3> QED BY <3>1, <1>8, <1>12, AboveIs
  <2> QED BY <2>1, <1>8, <1>10, <1>12 DEF WellNamed
<1> QED BY <1>12, <1>14, <1>15, <1>16, <1>17, BuiltIs DEF t

\* So does deleting one with all below it,
LEMMA DelIsBuilt ==
    ASSUME Built(site), NEW n \in Managed, DelObject(n)
    PROVE  Built(site')
<1> DEFINE t == site'
           s == site
           B == BelowOf(s, n)
           A == Above(s)
           above == [m \in Nodes |-> IF m \in B THEN {} ELSE A[m]]
           w == Warned(s, n)
           place == [m \in Nodes |-> IF m \in B THEN NoNode ELSE s.place[m]]
           hooks == [c \in Folders |-> IF c \in B THEN [a \in ToSet(Apps) |-> NoId] ELSE w.hooks[c]]
           groups == [c \in Folders |-> IF c \in B THEN NoNode ELSE w.groups[c]]
<1>1. t = [w EXCEPT !.place = place, !.hooks = hooks, !.groups = groups] /\ s.place[n] # NoNode
  BY DEF DelObject
<1>2. n \in Nodes /\ n # Root /\ Root \in Folders /\ Folders \subseteq Nodes /\ NoNode \notin Nodes
  BY TraversalAssumption
<1>3. /\ s \in SiteType /\ Tree(s.place, A) /\ WellNamed(s)
      /\ \A f \in Folders : FitMonsters(s, f) /\ FitGroups(s, f) /\ FitBids(s, f)
      /\ s.place \in [Nodes -> Folders \cup {NoNode}] /\ s.name \in [Nodes -> Ids]
  BY BuiltIs DEF SiteType
<1>4. /\ \A x \in B : x \in Nodes /\ s.place[x] \in Folders
      /\ B = {m \in Nodes : m = n \/ n \in A[m]}
      /\ n \in B /\ Root \notin B
      /\ \A m \in Nodes : s.place[m] \in B => m \in B
      /\ \A m \in B : m # n => s.place[m] \in B
  BY <1>1, <1>2, <1>3, BelowArePlaced
<1>5. WarnedSo(s, n, B, w)
  BY <1>2, <1>3, <1>4, WarnedIs
<1> HIDE DEF t, s, B, A, w, place, hooks, groups
<1>6. /\ w \in SiteType /\ w.place = s.place /\ w.name = s.name /\ w.conf = s.conf
      /\ \A c \in Folders :
          /\ w.hooks[c]["monster"] = IF n \in Monsters /\ s.place[n] = c THEN NoId ELSE s.hooks[c]["monster"]
          /\ w.groups[c] = IF n \in UserFolders /\ s.place[n] = c THEN NoNode ELSE s.groups[c]
          /\ w.hooks[c]["bids"] = IF Here(s, B, c) # {} THEN NoId ELSE s.hooks[c]["bids"]
  BY <1>4, <1>5 DEF WarnedSo
<1>7. /\ t \in SiteType /\ t.name = s.name /\ t.conf = s.conf /\ t.place = place
      /\ \A m \in Nodes : t.place[m] = IF m \in B THEN NoNode ELSE s.place[m]
      /\ \A c \in Folders : /\ t.groups[c] = IF c \in B THEN NoNode ELSE w.groups[c]
                            /\ \A a \in AppNames : t.hooks[c][a] = IF c \in B THEN NoId ELSE w.hooks[c][a]
  <2>1. place \in [Nodes -> Folders \cup {NoNode}] /\ groups \in [Folders -> Nodes \cup {NoNode}]
    BY <1>2, <1>3, <1>6 DEF place, groups, SiteType
  <2>2. hooks \in [Folders -> [ToSet(Apps) -> Ids \cup {NoId}]]
    BY <1>6 DEF hooks, SiteType
  <2>3. t \in SiteType /\ t.name = s.name /\ t.conf = s.conf /\ t.place = place /\ t.hooks = hooks /\ t.groups = groups
    BY <1>1, <1>6, <2>1, <2>2 DEF SiteType
  <2> QED BY <2>3, AppsAre DEF place, hooks, groups
<1>8. Tree(t.place, above)
  <2>0. /\ A \in [Nodes -> SUBSET Folders] /\ s.place[Root] = NoNode
        /\ \A m \in Nodes : /\ A[m] = IF s.place[m] = NoNode THEN {} ELSE {s.place[m]} \cup A[s.place[m]]
                            /\ m \notin A[m]
                            /\ \A x \in A[m] : A[x] \subseteq A[m] /\ (x = Root \/ s.place[x] # NoNode)
    BY <1>3 DEF Tree
  <2>1. above \in [Nodes -> SUBSET Folders] /\ \A m \in Nodes : above[m] = IF m \in B THEN {} ELSE A[m]
    BY <2>0
  <2> HIDE DEF above
  <2>2. ASSUME NEW m \in Nodes
        PROVE  /\ above[m] = IF t.place[m] = NoNode THEN {} ELSE {t.place[m]} \cup above[t.place[m]]
               /\ m \notin above[m]
    <3>1. CASE m \in B
      BY <3>1, <2>1, <1>7
    <3>2. CASE m \notin B /\ s.place[m] = NoNode
      BY <3>2, <2>0, <2>1, <1>7
    <3>3. CASE m \notin B /\ s.place[m] # NoNode
      <4>1. s.place[m] \in Nodes /\ s.place[m] \notin B
        BY <3>3, <1>2, <1>3, <1>4
      <4> QED BY <3>3, <4>1, <2>0, <2>1, <1>7
    <3> QED BY <3>1, <3>2, <3>3
  <2>3. ASSUME NEW m \in Nodes, NEW x \in above[m]
        PROVE  above[x] \subseteq above[m] /\ (x = Root \/ t.place[x] # NoNode)
    <3>1. m \notin B /\ x \in A[m] /\ x \in Nodes
      BY <2>0, <2>1, <1>2
    <3>2. x \notin B
      BY <3>1, <2>0, <1>4
    <3> QED BY <3>1, <3>2, <2>0, <2>1, <1>7
  <2>4. t.place[Root] = NoNode
    BY <2>0, <1>2, <1>7
  <2> QED BY <2>1, <2>2, <2>3, <2>4 DEF Tree
<1>9. Tree(t.place, Above(t))
  <2>1. Above(t) = above
    <3>1. t.place \in [Nodes -> Folders \cup {NoNode}]
      BY <1>7 DEF SiteType
    <3> QED BY <3>1, <1>8, AboveIs
  <2> QED BY <2>1, <1>8
<1>10. WellNamed(t)
  BY <1>3, <1>7 DEF WellNamed
<1>11. /\ Monsters \subseteq Nodes /\ UserFolders \subseteq Nodes /\ BidManagers \subseteq Nodes
  BY TraversalAssumption
<1>12. ASSUME NEW f \in Folders PROVE FitMonsters(t, f)
  <2>1. CASE f \in B
    <3>1. \A m \in Nodes : t.place[m] # f
      BY <2>1, <1>2, <1>4, <1>7
    <3>2. t.hooks[f]["monster"] = NoId
      BY <2>1, <1>7 DEF AppNames
    <3> QED BY <3>1, <3>2, <1>11 DEF FitMonsters
  <2>2. CASE f \notin B
    <3>1. t.hooks[f]["monster"] = IF n \in Monsters /\ s.place[n] = f THEN NoId ELSE s.hooks[f]["monster"]
      BY <2>2, <1>6, <1>7 DEF AppNames
    <3>2. ASSUME NEW m \in Monsters, t.place[m] = f PROVE t.hooks[f]["monster"] = t.name[m]
      <4>1. m \notin B /\ s.place[m] = f /\ m \in Nodes
        BY <3>2, <1>2, <1>7, <1>11
      <4>2. ~(n \in Monsters /\ s.place[n] = f)
        BY <4>1, <1>2, <1>3, <1>4, OnlyOne
      <4> QED BY <3>1, <4>1, <4>2, <1>3, <1>7 DEF FitMonsters
    <3>3. ASSUME t.hooks[f]["monster"] # NoId PROVE \E m \in Monsters : t.place[m] = f
      <4>1. PICK m \in Monsters : s.place[m] = f
        BY <3>1, <3>3, <1>3 DEF FitMonsters
      <4>2. m \notin B
        BY <4>1, <3>1, <3>3, <2>2, <1>4
      <4> QED BY <4>1, <4>2, <1>7, <1>11
    <3> QED BY <3>2, <3>3 DEF FitMonsters
  <2> QED BY <2>1, <2>2
<1>13. ASSUME NEW f \in Folders PROVE FitGroups(t, f)
  <2>1. CASE f \in B
    <3>1. \A m \in Nodes : t.place[m] # f
      BY <2>1, <1>2, <1>4, <1>7
    <3>2. t.groups[f] = NoNode
      BY <2>1, <1>7
    <3> QED BY <3>1, <3>2, <1>11 DEF FitGroups
  <2>2. CASE f \notin B
    <3>1. t.groups[f] = IF n \in UserFolders /\ s.place[n] = f THEN NoNode ELSE s.groups[f]
      BY <2>2, <1>6, <1>7
    <3>2. ASSUME NEW m \in UserFolders, t.place[m] = f PROVE t.groups[f] = m
      <4>1. m \notin B /\ s.place[m] = f /\ m \in Nodes
        BY <3>2, <1>2, <1>7, <1>11
      <4>2. ~(n \in UserFolders /\ s.place[n] = f)
        BY <4>1, <1>2, <1>3, <1>4, OnlyOne
      <4> QED BY <3>1, <4>1, <4>2, <1>3 DEF FitGroups
    <3>3. ASSUME t.groups[f] # NoNode PROVE t.groups[f] \in UserFolders /\ t.place[t.groups[f]] = f
      <4>1. t.groups[f] = s.groups[f] /\ s.groups[f] \in UserFolders /\ s.place[s.groups[f]] = f
        BY <3>1, <3>3, <1>3 DEF FitGroups
      <4>2. s.groups[f] \notin B
        BY <4>1, <3>1, <3>3, <2>2, <1>4
      <4> QED BY <4>1, <4>2, <1>7, <1>11
    <3> QED BY <3>2, <3>3 DEF FitGroups
  <2> QED BY <2>1, <2>2
<1>14. ASSUME NEW f \in Folders PROVE FitBids(t, f)
  <2>0. \A m \in BidManagers : Url(t, m) = Url(s, m)
    BY <1>7 DEF Url
  <2>1. CASE f \in B
    <3>1. \A m \in Nodes : t.place[m] # f
      BY <2>1, <1>2, <1>4, <1>7
    <3>2. t.hooks[f]["bids"] = NoId
      BY <2>1, <1>7 DEF AppNames
    <3> QED BY <3>1, <3>2, <1>11 DEF FitBids
  <2>2. CASE f \notin B
    <3>1. t.hooks[f]["bids"] = IF Here(s, B, f) # {} THEN NoId ELSE s.hooks[f]["bids"]
      BY <2>2, <1>6, <1>7 DEF AppNames
    <3>2. CASE Here(s, B, f) # {}
      <4>1. n \in BidManagers /\ s.place[n] = f
        BY <3>2, <2>2, <1>4 DEF Here
      <4>2. ASSUME NEW m \in BidManagers, t.place[m] = f PROVE FALSE
        <5>1. m \notin B /\ s.place[m] = f /\ m \in Nodes
          BY <4>2, <1>2, <1>7, <1>11
        <5> QED BY <5>1, <4>1, <1>2, <1>3, <1>4, OnlyOne
      <4> QED BY <4>2, <3>1, <3>2 DEF FitBids
    <3>3. CASE Here(s, B, f) = {}
      <4>1. \A m \in BidManagers : t.place[m] = f <=> s.place[m] = f
        BY <3>3, <1>2, <1>7, <1>11 DEF Here
      <4> QED BY <4>1, <3>1, <3>3, <2>0, <1>3 DEF FitBids
    <3> QED BY <3>2, <3>3
  <2> QED BY <2>1, <2>2
<1> QED BY <1>7, <1>9, <1>10, <1>12, <1>13, <1>14, BuiltIs DEF t

\* renaming one, which deletes and adds it,
LEMMA RenameIsBuilt ==
    ASSUME Built(site), NEW n \in Managed, NEW id \in Titles, RenameObject(n, id)
    PROVE  Built(site')
<1> DEFINE t == site'
           s == site
           B == BelowOf(s, n)
           A == Above(s)
           w == Warned(s, n)
           v == [w EXCEPT !.name[n] = id]
<1>1. /\ t = Told(v, n) /\ s.place[n] # NoNode /\ Child(s, s.place[n], id) = NoNode
      /\ n \notin UserFolders \cup BidManagers
  BY DEF RenameObject
<1>2. n \in Nodes /\ n # Root /\ Root \in Folders /\ Folders \subseteq Nodes /\ NoNode \notin Nodes /\ id \in Ids
  BY TraversalAssumption DEF Ids
<1>3. /\ s \in SiteType /\ Tree(s.place, A) /\ WellNamed(s)
      /\ \A f \in Folders : FitMonsters(s, f) /\ FitGroups(s, f) /\ FitBids(s, f)
      /\ s.place \in [Nodes -> Folders \cup {NoNode}] /\ s.name \in [Nodes -> Ids]
  BY BuiltIs DEF SiteType
<1>4. /\ \A x \in B : x \in Nodes /\ s.place[x] \in Folders
      /\ B = {m \in Nodes : m = n \/ n \in A[m]}
      /\ n \in B
  BY <1>1, <1>2, <1>3, BelowArePlaced
<1>5. WarnedSo(s, n, B, w)
  BY <1>2, <1>3, <1>4, WarnedIs
<1> HIDE DEF t, s, B, A, w
<1>6. /\ w \in SiteType /\ w.place = s.place /\ w.name = s.name /\ w.conf = s.conf
      /\ \A c \in Folders :
          /\ w.hooks[c]["monster"] = IF n \in Monsters /\ s.place[n] = c THEN NoId ELSE s.hooks[c]["monster"]
          /\ w.groups[c] = s.groups[c]
          /\ w.hooks[c]["bids"] = IF Here(s, B, c) # {} THEN NoId ELSE s.hooks[c]["bids"]
  BY <1>1, <1>4, <1>5 DEF WarnedSo
<1>7. /\ v \in SiteType /\ v.place = s.place /\ v.name = [s.name EXCEPT ![n] = id] /\ v.conf = s.conf
      /\ v.hooks = w.hooks /\ v.groups = w.groups
  <2> DEFINE names == [s.name EXCEPT ![n] = id]
  <2>1. names \in [Nodes -> Ids] /\ v = [w EXCEPT !.name = names]
    BY <1>2, <1>3, <1>6 DEF SiteType
  <2> HIDE DEF names, v
  <2>2. /\ v \in SiteType /\ v.place = s.place /\ v.name = names /\ v.conf = s.conf
        /\ v.hooks = w.hooks /\ v.groups = w.groups
    BY <2>1, <1>6 DEF SiteType
  <2> QED BY <2>2 DEF names
<1> HIDE DEF v
<1>8. BelowOf(v, n) = B /\ Tree(v.place, A)
  <2>1. v.place \in [Nodes -> Folders \cup {NoNode}] /\ Tree(v.place, A)
    BY <1>3, <1>7
  <2>2. BelowOf(v, n) = {m \in Nodes : m = n \/ n \in A[m]}
    <3>1. \A x \in Nodes : BelowOf(v, x) = {m \in Nodes : m = x \/ x \in A[m]}
      BY <2>1, AboveIs
    <3> QED BY <3>1, <1>2
  <2> QED BY <2>1, <2>2, <1>4
<1>9. ToldSo(v, n, B, t)
  <2>1. \A x \in BelowOf(v, n) : v.place[x] \in Folders
    BY <1>4, <1>7, <1>8
  <2>2. \A x, m \in BelowOf(v, n) : x \in BidManagers /\ m \in BidManagers /\ v.place[x] = v.place[m] => x = m
    BY <1>3, <1>4, <1>7, <1>8, OnlyOne
  <2> QED BY <2>1, <2>2, <1>1, <1>2, <1>7, <1>8, ToldIs
<1>10. /\ t \in SiteType /\ t.place = s.place /\ t.name = [s.name EXCEPT ![n] = id] /\ t.conf = s.conf
       /\ \A f \in Folders :
          /\ t.hooks[f]["monster"] = IF n \in Monsters /\ s.place[n] = f THEN id ELSE s.hooks[f]["monster"]
          /\ t.groups[f] = s.groups[f]
          /\ IF Here(s, B, f) # {} THEN t.hooks[f]["bids"] # NoId <=> \E m \in Here(s, B, f) : Url(s, m)
             ELSE t.hooks[f]["bids"] = s.hooks[f]["bids"]
  <2>1. (\A f : Here(v, B, f) = Here(s, B, f)) /\ (\A m : Url(v, m) = Url(s, m)) /\ v.name[n] = id
    BY <1>2, <1>3, <1>7 DEF Here, Url
  <2>2. t \in SiteType /\ t.place = s.place /\ t.name = [s.name EXCEPT ![n] = id] /\ t.conf = s.conf
    BY <1>7, <1>9 DEF ToldSo
  <2>3. ASSUME NEW f \in Folders
        PROVE  /\ t.hooks[f]["monster"] = IF n \in Monsters /\ s.place[n] = f THEN id ELSE s.hooks[f]["monster"]
               /\ t.groups[f] = s.groups[f]
    BY <2>1, <1>1, <1>4, <1>6, <1>7, <1>9 DEF ToldSo
  <2>4. ASSUME NEW f \in Folders
        PROVE  IF Here(s, B, f) # {} THEN t.hooks[f]["bids"] # NoId <=> \E m \in Here(s, B, f) : Url(s, m)
               ELSE t.hooks[f]["bids"] = s.hooks[f]["bids"]
    <3>1. IF Here(v, B, f) # {}
          THEN t.hooks[f]["bids"] # NoId <=> \E m \in Here(v, B, f) : Url(v, m)
          ELSE t.hooks[f]["bids"] = v.hooks[f]["bids"]
      BY <1>9 DEF ToldSo
    <3>2. Here(s, B, f) = {} => v.hooks[f]["bids"] = s.hooks[f]["bids"]
      BY <1>6, <1>7
    <3> QED BY <3>1, <3>2, <2>1
  <2> QED BY <2>2, <2>3, <2>4
<1>11. /\ Monsters \subseteq Nodes /\ UserFolders \subseteq Nodes /\ BidManagers \subseteq Nodes
       /\ \A m \in Nodes : t.name[m] = IF m = n THEN id ELSE s.name[m]
  BY TraversalAssumption, <1>2, <1>3, <1>10
<1>12. Tree(t.place, Above(t))
  <2>1. Above(t) = A
    <3>1. t.place \in [Nodes -> Folders \cup {NoNode}] /\ Tree(t.place, A)
      BY <1>3, <1>10
    <3> QED BY <3>1, AboveIs
  <2> QED BY <2>1, <1>3, <1>10
<1>13. WellNamed(t)
  <2>1. \A m \in Nodes : s.place[m] = s.place[n] => s.name[m] # id
    BY <1>1, <1>2, <1>4, FreeIs
  <2>2. ASSUME NEW x \in Nodes, s.place[x] # NoNode
        PROVE  /\ x \in UserFolders => t.name[x] = "acl_users"
               /\ x \in BidManagers => t.name[x] = "browser_id_manager"
    BY <2>2, <1>1, <1>3, <1>11 DEF WellNamed
  <2>3. ASSUME NEW x \in Nodes, s.place[x] # NoNode, NEW m \in Nodes, s.place[m] = s.place[x], t.name[m] = t.name[x]
        PROVE  m = x
    <3>1. CASE m = n \/ x = n
      BY <2>1, <2>3, <3>1, <1>11
    <3>2. CASE m # n /\ x # n
      BY <2>3, <3>2, <1>3, <1>11 DEF WellNamed
    <3> QED BY <3>1, <3>2
  <2> QED BY <2>2, <2>3, <1>10 DEF WellNamed
<1>14. ASSUME NEW f \in Folders PROVE FitMonsters(t, f)
  <2>1. ASSUME NEW m \in Monsters, t.place[m] = f PROVE t.hooks[f]["monster"] = t.name[m]
    <3>1. CASE n \in Monsters /\ s.place[n] = f
      <4>1. m = n
        BY <3>1, <2>1, <1>2, <1>3, <1>10, <1>11, OnlyOne
      <4> QED BY <3>1, <4>1, <1>2, <1>10, <1>11
    <3>2. CASE ~(n \in Monsters /\ s.place[n] = f)
      <4>1. s.hooks[f]["monster"] = s.name[m] /\ m # n /\ m \in Nodes
        BY <3>2, <2>1, <1>3, <1>10, <1>11 DEF FitMonsters
      <4> QED BY <3>2, <4>1, <1>10, <1>11
    <3> QED BY <3>1, <3>2
  <2>2. ASSUME t.hooks[f]["monster"] # NoId PROVE \E m \in Monsters : t.place[m] = f
    BY <2>2, <1>3, <1>10 DEF FitMonsters
  <2> QED BY <2>1, <2>2 DEF FitMonsters
<1>15. ASSUME NEW f \in Folders PROVE FitGroups(t, f)
  BY <1>3, <1>10 DEF FitGroups
<1>16. ASSUME NEW f \in Folders PROVE FitBids(t, f)
  <2>0. \A m \in BidManagers : Url(t, m) = Url(s, m)
    BY <1>10 DEF Url
  <2>1. CASE Here(s, B, f) # {}
    <3>1. PICK x \in BidManagers : x \in Here(s, B, f) /\ x \in B /\ s.place[x] = f
      BY <2>1 DEF Here
    <3>2. ASSUME NEW m \in BidManagers, s.place[m] = f PROVE m \in Here(s, B, f)
      <4>1. m = x
        BY <3>1, <3>2, <1>3, <1>11, OnlyOne
      <4> QED BY <3>1, <4>1
    <3>3. \A m \in Here(s, B, f) : m \in BidManagers /\ s.place[m] = f
      BY DEF Here
    <3> QED BY <2>0, <2>1, <3>2, <3>3, <1>10 DEF FitBids
  <2>2. CASE Here(s, B, f) = {}
    BY <2>0, <2>2, <1>3, <1>10 DEF FitBids
  <2> QED BY <2>1, <2>2
<1> QED BY <1>10, <1>12, <1>13, <1>14, <1>15, <1>16, BuiltIs DEF t

\* reconfiguring a browser id manager
LEMMA ChangeBidsIsBuilt ==
    ASSUME Built(site), NEW m \in BidManagers, NEW conf \in Namespaces, ChangeBids(m, conf)
    PROVE  Built(site')
<1> DEFINE t == site'
           s == site
           A == Above(s)
           v == [s EXCEPT !.conf[m] = conf]
           c == s.place[m]
<1>1. t = UpdateHook(v, m) /\ c # NoNode
  BY DEF ChangeBids
<1>2. m \in Nodes /\ Folders \subseteq Nodes /\ NoNode \notin Nodes /\ NoId \notin Ids /\ BidManagers \subseteq Nodes
  BY TraversalAssumption, SitesAssumption
<1>3. /\ s \in SiteType /\ Tree(s.place, A) /\ WellNamed(s)
      /\ \A f \in Folders : FitMonsters(s, f) /\ FitGroups(s, f) /\ FitBids(s, f)
      /\ s.place \in [Nodes -> Folders \cup {NoNode}] /\ s.name \in [Nodes -> Ids]
  BY BuiltIs DEF SiteType
<1> HIDE DEF t, s, A
<1>4. /\ v \in SiteType /\ v.place = s.place /\ v.name = s.name /\ v.hooks = s.hooks /\ v.groups = s.groups
      /\ \A x \in BidManagers : x # m => v.conf[x] = s.conf[x]
  <2> DEFINE g == [s.conf EXCEPT ![m] = conf]
  <2>1. g \in [BidManagers -> Namespaces] /\ v = [s EXCEPT !.conf = g] /\ \A x \in BidManagers : x # m => g[x] = s.conf[x]
    BY <1>3 DEF SiteType
  <2> HIDE DEF g, v
  <2> QED BY <2>1, <1>3 DEF SiteType
<1> HIDE DEF v
<1>5. c \in Folders /\ "bids" \in AppNames /\ s.name[m] \in Ids
  BY <1>1, <1>2, <1>3 DEF AppNames
<1>6. t = Register(v, c, "bids", IF Url(v, m) THEN s.name[m] ELSE NoId)
  BY <1>1, <1>4 DEF UpdateHook, Unregister, Url
<1> HIDE DEF c
<1>7. /\ t \in SiteType /\ t.place = s.place /\ t.name = s.name /\ t.conf = v.conf /\ t.groups = s.groups
      /\ \A f \in Folders :
          /\ t.hooks[f]["monster"] = s.hooks[f]["monster"]
          /\ t.hooks[f]["bids"] = IF f = c THEN (IF Url(v, m) THEN s.name[m] ELSE NoId) ELSE s.hooks[f]["bids"]
  <2> DEFINE id == IF Url(v, m) THEN s.name[m] ELSE NoId
  <2>1. id \in Ids \cup {NoId} /\ t = Register(v, c, "bids", id)
    BY <1>5, <1>6
  <2> HIDE DEF id
  <2>2. /\ t \in SiteType /\ t.place = v.place /\ t.name = v.name /\ t.conf = v.conf /\ t.groups = v.groups
        /\ \A f \in Folders : \A a \in AppNames :
              t.hooks[f][a] = IF f = c /\ a = "bids" THEN id ELSE v.hooks[f][a]
    BY <2>1, <1>4, <1>5, OneApp
  <2> QED BY <2>2, <1>4 DEF AppNames, id
<1>8. Tree(t.place, Above(t)) /\ WellNamed(t)
  <2>1. Above(t) = A
    <3>1. t.place \in [Nodes -> Folders \cup {NoNode}] /\ Tree(t.place, A)
      BY <1>3, <1>7
    <3> QED BY <3>1, AboveIs
  <2> QED BY <2>1, <1>3, <1>7 DEF WellNamed
<1>9. ASSUME NEW f \in Folders PROVE FitMonsters(t, f) /\ FitGroups(t, f)
  BY <1>3, <1>7 DEF FitMonsters, FitGroups
<1>10. ASSUME NEW f \in Folders PROVE FitBids(t, f)
  <2>0. \A x \in BidManagers : Url(t, x) = Url(v, x) /\ (x # m => Url(t, x) = Url(s, x))
    BY <1>4, <1>7 DEF Url
  <2>1. CASE f = c
    <3>1. \A x \in BidManagers : t.place[x] = f <=> x = m
      BY <2>1, <1>2, <1>3, <1>5, <1>7, OnlyOne DEF c
    <3>2. t.hooks[f]["bids"] # NoId <=> Url(v, m)
      BY <2>1, <1>2, <1>5, <1>7
    <3> QED BY <2>0, <3>1, <3>2 DEF FitBids
  <2>2. CASE f # c
    <3>1. \A x \in BidManagers : t.place[x] = f => x # m
      BY <2>2, <1>7 DEF c
    <3> QED BY <2>0, <2>2, <3>1, <1>3, <1>7 DEF FitBids
  <2> QED BY <2>1, <2>2
<1> QED BY <1>7, <1>8, <1>9, <1>10, BuiltIs DEF t

\* or a session data manager.
LEMMA ChangeSDMIsBuilt ==
    ASSUME Built(site), NEW m \in SdManagers, NEW wanted \in BOOLEAN, ChangeSDM(m, wanted)
    PROVE  Built(site')
<1> DEFINE t == site'
           s == site
           A == Above(s)
<1>1. t = UpdateTraversalData(s, m, wanted) /\ s.place[m] # NoNode
  BY DEF ChangeSDM
<1>2. m \in Nodes
  BY TraversalAssumption
<1>3. /\ s \in SiteType /\ Tree(s.place, A) /\ WellNamed(s)
      /\ \A f \in Folders : FitMonsters(s, f) /\ FitGroups(s, f) /\ FitBids(s, f)
      /\ s.place \in [Nodes -> Folders \cup {NoNode}]
  BY BuiltIs DEF SiteType
<1> HIDE DEF t, s, A
<1>4. /\ t \in SiteType /\ t.place = s.place /\ t.name = s.name /\ t.conf = s.conf /\ t.groups = s.groups
      /\ \A f \in Folders : \A a \in {"monster", "bids"} : t.hooks[f][a] = s.hooks[f][a]
  <2>1. s.place[m] \in Folders
    BY <1>1, <1>2, <1>3
  <2> QED BY <2>1, <1>1, <1>3, SessionsOnly
<1>5. Tree(t.place, Above(t)) /\ WellNamed(t)
  <2>1. Above(t) = A
    <3>1. t.place \in [Nodes -> Folders \cup {NoNode}] /\ Tree(t.place, A)
      BY <1>3, <1>4
    <3> QED BY <3>1, AboveIs
  <2> QED BY <2>1, <1>3, <1>4 DEF WellNamed
<1>6. ASSUME NEW f \in Folders PROVE FitMonsters(t, f) /\ FitGroups(t, f) /\ FitBids(t, f)
  <2>1. \A x \in BidManagers : Url(t, x) = Url(s, x)
    BY <1>4 DEF Url
  <2> QED BY <2>1, <1>3, <1>4 DEF FitMonsters, FitGroups, FitBids
<1> QED BY <1>4, <1>5, <1>6, BuiltIs DEF t

\* Requests work on a site that does not change.
Serving ==
    \/ \E q \in Requests : Start(q)
    \/ \E b \in Bids : CallHooks(b)
    \/ NextName
    \/ DefaultMethod
    \/ EndOfPath
    \/ Authorize
    \/ \E b \in Bids : UseSession(b)
    \/ \E create \in BOOLEAN, b \in Bids : GetBrowserId(create, b)
    \/ \E b \in Bids \cup {Deleted} : SetCookie(b)
    \/ Respond

\* A request that is served changes nothing in the site.
LEMMA ServingIsIdle == ASSUME Serving PROVE site' = site
BY DEF Serving, Start, CallHooks, NextName, DefaultMethod, EndOfPath, Authorize, UseSession, GetBrowserId,
       SetCookie, Respond

\* Each step leaves a built site.
LEMMA StaysBuilt == ASSUME Built(site), [Next]_vars PROVE Built(site')
<1>1. CASE \E n \in Managed, c \in Folders, id \in Titles, wanted \in BOOLEAN, conf \in Namespaces :
              AddManager(n, c, id, wanted, conf)
  BY <1>1, AddIsBuilt
<1>2. CASE \E n \in Managed : DelObject(n)
  BY <1>2, DelIsBuilt
<1>3. CASE \E n \in Managed, id \in Titles : RenameObject(n, id)
  BY <1>3, RenameIsBuilt
<1>4. CASE \E m \in BidManagers, conf \in Namespaces : ChangeBids(m, conf)
  BY <1>4, ChangeBidsIsBuilt
<1>5. CASE \E m \in SdManagers, wanted \in BOOLEAN : ChangeSDM(m, wanted)
  BY <1>5, ChangeSDMIsBuilt
<1>6. CASE Serving
  BY <1>6, ServingIsIdle
<1>7. CASE UNCHANGED vars
  BY <1>7 DEF vars
<1> QED BY <1>1, <1>2, <1>3, <1>4, <1>5, <1>6, <1>7 DEF Next, Serving

\* A site stays well built whatever is added, deleted, renamed and reconfigured:
\* the containers form a tree, ids in a container are unique, and the hooks and user
\* folders that a container knows are exactly those in it
\* (OFS/subscribers.py, ZPublisher/BeforeTraverse.py and the managers' event handlers).
THEOREM SiteStaysBuilt == Spec => []Built(site)
<1>1. Init => Built(site)
  BY SitesAssumption DEF Init
<1>2. Built(site) /\ [Next]_vars => Built(site)'
  BY StaysBuilt
<1> QED BY <1>1, <1>2, PTL DEF Spec

\* Whatever was done to managers and to the folders they are in, a container calls
\* the hooks of what is in it, and of nothing else (BeforeTraverse.py).
THEOREM HooksAlwaysFit == Spec => []HooksFitTheSite
<1>1. Built(site) => HooksFitTheSite
  BY TraversalAssumption DEF Built, HooksFitTheSite
<1> QED BY <1>1, SiteStaysBuilt, PTL

-----------------------------------------------------------------------------
(* What is among the parents *)

\* With x, everything above it is in Z.
UpClosed(above, Z) == \A x \in Z : {x} \cup AboveOf(above, x) \subseteq Z

\* Attributes are acquired from what is climbed through from the parents.
LEMMA ChainIs ==
    ASSUME NEW s, s.place \in [Nodes -> Folders \cup {NoNode}], NEW above, Tree(s.place, above),
           NEW Z \in SUBSET Things, UpClosed(above, Z),
           NEW parents \in Seq(Z)
    PROVE  Chain(s, parents) \in Seq(Z)
<1> DEFINE S == DOMAIN parents
           D == Seq(Z)
           G == [p \in S \X D |-> Climb(s, parents[p[1]]) \o p[2]]
           C == [u \in SUBSET S |-> Max(u)]
           iter[u \in SUBSET S] ==
             IF u = {} THEN <<>> ELSE Climb(s, parents[Max(u)]) \o iter[u \ {Max(u)}]
<1>1. Chain(s, parents) = iter[S]
  BY DEF Chain, FoldLeft, MapThenFoldSet
<1>2. S = 1 .. Len(parents) /\ Len(parents) \in Nat /\ IsFiniteSet(S)
  BY FS_Interval
<1>3. Picks(C, S)
  <2>1. ASSUME NEW u \in SUBSET S, u # {} PROVE Max(u) \in u
    BY <1>2, <2>1, MaxIs
  <2> QED BY <2>1 DEF Picks
<1>4. G \in [S \X D -> D]
  <2>1. ASSUME NEW k \in S, NEW d \in D PROVE Climb(s, parents[k]) \o d \in D
    <3>1. parents[k] \in Z /\ parents[k] \in Things
      BY <1>2
    <3>2. /\ Climb(s, parents[k]) \in Seq(Things)
          /\ ToSet(Climb(s, parents[k])) = {parents[k]} \cup AboveOf(above, parents[k])
      BY <3>1, ClimbIs
    <3>3. ToSet(Climb(s, parents[k])) \subseteq Z
      BY <3>1, <3>2 DEF UpClosed
    <3>4. Climb(s, parents[k]) \in Seq(Z)
      <4> DEFINE c == Climb(s, parents[k])
      <4>1. c \in Seq(Things) /\ \A j \in 1 .. Len(c) : c[j] \in Z
        BY <3>2, <3>3 DEF ToSet
      <4> HIDE DEF c
      <4>2. c \in Seq(Z)
        BY <4>1
      <4> QED BY <4>2 DEF c
    <3> QED BY <3>4
  <2> QED BY <2>1
<1>5. iter = [u \in SUBSET S |-> IF u = {} THEN <<>> ELSE Climb(s, parents[Max(u)]) \o iter[u \ {Max(u)}]]
  <2>0. <<>> \in D
    OBVIOUS
  <2>1. PICK f \in [SUBSET S -> D] : FoldOf(f, <<>>, C, G, SUBSET S)
    <3> HIDE DEF S, C, D, G
    <3> QED BY <1>2, <1>3, <1>4, <2>0, FoldDefined
  <2>2. ASSUME NEW u \in SUBSET S, u # {}
        PROVE  f[u] = Climb(s, parents[Max(u)]) \o f[u \ {Max(u)}]
    <3>1. f[u] = G[<<C[u], f[u \ {C[u]}]>>] /\ C[u] \in S /\ u \ {C[u]} \in SUBSET S
      <4> HIDE DEF S, C, D, G
      <4> QED BY <2>1, <2>2, <1>3 DEF FoldOf, Picks
    <3>2. f[u \ {C[u]}] \in D /\ C[u] = Max(u)
      <4> HIDE DEF S, D, G
      <4> QED BY <3>1
    <3>3. f[u] = Climb(s, parents[C[u]]) \o f[u \ {C[u]}]
      <4> HIDE DEF S, C, D
      <4> QED BY <3>1, <3>2
    <3> QED BY <3>2, <3>3
  <2>3. {} \in SUBSET S /\ f[{}] = <<>>
    BY <2>1 DEF FoldOf
  <2>4. f = [u \in SUBSET S |-> IF u = {} THEN <<>> ELSE Climb(s, parents[Max(u)]) \o f[u \ {Max(u)}]]
    <3>1. f = [u \in SUBSET S |-> f[u]]
      OBVIOUS
    <3> HIDE DEF S, C, D, G
    <3> QED BY <2>2, <2>3, <3>1
  <2> HIDE DEF S, C, D, G
  <2> QED BY <2>4, Zenon
<1> DEFINE F == {u \in SUBSET S : iter[u] \in D}
<1> HIDE DEF iter
<1>6. {} \in F
  BY <1>5
<1>7. ASSUME NEW u \in SUBSET S, u # {}, u \ {C[u]} \in F PROVE u \in F
  <2>1. C[u] \in S /\ C[u] = Max(u)
    BY <1>3, <1>7 DEF Picks
  <2>2. iter[u] = G[<<C[u], iter[u \ {C[u]}]>>]
    BY <2>1, <1>5, <1>7
  <2> HIDE DEF S, C, D, G
  <2> QED BY <2>1, <2>2, <1>4, <1>7
<1>8. S \in F
  <2>1. IsFiniteSet(S) /\ S \in SUBSET S
    BY <1>2
  <2> HIDE DEF S, C, D, G, F
  <2>2. \A u \in SUBSET S : u \in F
    BY <2>1, <1>3, <1>6, <1>7, SubsetInduction
  <2> QED BY <2>1, <2>2
<1> QED BY <1>1, <1>8

\* The hooks of a container are called in the order of Apps.
LEMMA HooksAre ==
    ASSUME NEW r, NEW fresh
    PROVE  FoldLeft(LAMBDA t, app : Hooked(t, app, fresh), r, Apps) =
             Hooked(Hooked(Hooked(r, "monster", fresh), "bids", fresh), "sessions", fresh)
<1> DEFINE S == DOMAIN Apps
           iter[u \in SUBSET S] ==
             IF u = {} THEN r ELSE Hooked(iter[u \ {Max(u)}], Apps[Max(u)], fresh)
           M(u) == IF 1 \in u THEN Hooked(r, "monster", fresh) ELSE r
           B(u) == IF 2 \in u THEN Hooked(M(u), "bids", fresh) ELSE M(u)
           D(u) == IF 3 \in u THEN Hooked(B(u), "sessions", fresh) ELSE B(u)
           f == [u \in SUBSET S |-> D(u)]
<1>1. FoldLeft(LAMBDA t, app : Hooked(t, app, fresh), r, Apps) = iter[S]
  BY DEF FoldLeft, MapThenFoldSet
<1>2. S = {1, 2, 3} /\ S = 1 .. 3 /\ Apps[1] = "monster" /\ Apps[2] = "bids" /\ Apps[3] = "sessions"
  BY DEF Apps
<1> HIDE DEF S
<1>3. ASSUME NEW u \in SUBSET S, u # {}
      PROVE  f[u] = Hooked(f[u \ {Max(u)}], Apps[Max(u)], fresh)
  <2>1. Max(u) \in u /\ \A y \in u : Max(u) >= y
    BY <1>2, <1>3, MaxIs
  <2>2. u \ {Max(u)} \in SUBSET S
    OBVIOUS
  <2>3. f[u] = D(u) /\ f[u \ {Max(u)}] = D(u \ {Max(u)})
    BY <2>2
  <2>4. CASE Max(u) = 3
    <3>1. 3 \in u /\ M(u \ {3}) = M(u) /\ B(u \ {3}) = B(u) /\ D(u \ {3}) = B(u)
      BY <2>1, <2>4
    <3>2. D(u) = Hooked(D(u \ {3}), "sessions", fresh)
      <4>1. D(u) = Hooked(B(u), "sessions", fresh)
        BY <3>1
      <4> HIDE DEF B, D
      <4> QED BY <3>1, <4>1
    <3> HIDE DEF D, f
    <3> QED BY <3>2, <2>3, <2>4, <1>2
  <2>5. CASE Max(u) = 2
    <3>1. 2 \in u /\ 3 \notin u
      BY <2>1, <2>5
    <3>2. M(u \ {2}) = M(u) /\ B(u \ {2}) = M(u) /\ D(u \ {2}) = M(u) /\ D(u) = Hooked(M(u), "bids", fresh)
      BY <3>1
    <3> HIDE DEF D, M, f
    <3> QED BY <3>2, <2>3, <2>5, <1>2
  <2>6. CASE Max(u) = 1
    <3>1. 1 \in u /\ 2 \notin u /\ 3 \notin u
      BY <2>1, <2>6
    <3>2. D(u \ {1}) = r /\ D(u) = Hooked(r, "monster", fresh)
      BY <3>1
    <3> HIDE DEF D, f
    <3> QED BY <3>2, <2>3, <2>6, <1>2
  <2> QED BY <2>1, <2>4, <2>5, <2>6, <1>2
<1>4. f[{}] = r /\ f = [u \in SUBSET S |-> f[u]] /\ {} \in SUBSET S
  OBVIOUS
<1>5. f = [u \in SUBSET S |-> IF u = {} THEN r ELSE Hooked(f[u \ {Max(u)}], Apps[Max(u)], fresh)]
  <2> HIDE DEF f
  <2> QED BY <1>3, <1>4
<1>6. iter = [u \in SUBSET S |-> IF u = {} THEN r ELSE Hooked(iter[u \ {Max(u)}], Apps[Max(u)], fresh)]
  <2> HIDE DEF f
  <2> QED BY <1>5, Zenon
<1> HIDE DEF iter
<1>7. iter[{}] = r
  BY <1>4, <1>6
<1>8. ASSUME NEW u \in SUBSET S, u # {} PROVE iter[u] = Hooked(iter[u \ {Max(u)}], Apps[Max(u)], fresh)
  BY <1>6, <1>8
<1>9. Max({1}) = 1 /\ Max({1, 2}) = 2 /\ Max(S) = 3
  <2>1. Max({1}) \in {1}
    BY MaxIs
  <2>2. Max({1, 2}) \in {1, 2} /\ Max({1, 2}) >= 2
    <3>1. {1, 2} \in SUBSET (1 .. 2)
      OBVIOUS
    <3> QED BY <3>1, MaxIs
  <2>3. Max(S) \in S /\ Max(S) >= 3
    BY <1>2, MaxIs
  <2> QED BY <2>1, <2>2, <2>3, <1>2
<1>10. S \ {3} = {1, 2} /\ {1, 2} \ {2} = {1} /\ {1} \ {1} = {}
  BY <1>2
<1>11. iter[{1}] = Hooked(r, "monster", fresh)
  BY <1>2, <1>7, <1>8, <1>9, <1>10
<1>12. iter[{1, 2}] = Hooked(iter[{1}], "bids", fresh)
  BY <1>2, <1>8, <1>9, <1>10
<1>13. iter[S] = Hooked(iter[{1, 2}], "sessions", fresh)
  BY <1>2, <1>8, <1>9, <1>10
<1> QED BY <1>1, <1>11, <1>12, <1>13

\* What is found by acquisition is in a folder of the chain.
LEMMA AcquiredIs ==
    ASSUME NEW s, s.place \in [Nodes -> Folders \cup {NoNode}], NEW above, Tree(s.place, above),
           NEW Z \in SUBSET Things, UpClosed(above, Z),
           NEW parents \in Seq(Z), NEW id
    PROVE  LET n == Acquired(s, parents, id)
           IN  n = NoNode \/ (n \in Nodes /\ s.place[n] \in Z \cap Folders /\ s.name[n] = id)
<1> DEFINE chain == Chain(s, parents)
           at == {k \in DOMAIN chain : Child(s, chain[k], id) # NoNode}
           k0 == CHOOSE k \in at : \A j \in at : k <= j
<1>1. chain \in Seq(Z)
  BY ChainIs
<1>2. Acquired(s, parents, id) = IF at = {} THEN NoNode ELSE Child(s, chain[k0], id)
  BY DEF Acquired
<1> HIDE DEF chain
<1>3. CASE at # {}
  <2>1. at \in SUBSET (1 .. Len(chain)) /\ Len(chain) \in Nat
    BY <1>1
  <2>2. \E k \in at : \A j \in at : k <= j
    <3> HIDE DEF at
    <3> QED BY <1>3, <2>1, HasBounds
  <2>3. k0 \in at
    <3> HIDE DEF at
    <3> QED BY <2>2
  <2>4. k0 \in 1 .. Len(chain) /\ Child(s, chain[k0], id) # NoNode
    <3> HIDE DEF k0
    <3> QED BY <2>3, <1>1
  <2>5. chain[k0] \in Z
    BY <2>4, <1>1
  <2> DEFINE c == chain[k0]
             here == {n \in Nodes : s.place[n] = c /\ s.name[n] = id}
  <2> HIDE DEF k0
  <2>6. c \in Folders /\ here # {} /\ Child(s, c, id) = CHOOSE n \in here : TRUE
    BY <2>4 DEF Child
  <2>7. Child(s, c, id) \in here
    <3> HIDE DEF here
    <3> QED BY <2>6
  <2> QED BY <2>5, <2>6, <2>7, <1>2, <1>3
<1> QED BY <1>2, <1>3

\* A hook may change the stack and the URL of a request, never where it is.
Fields == {"pc", "object", "parents", "stack", "q", "look", "target", "entry"}
Kept(r, u) ==
    /\ Fields \subseteq DOMAIN u /\ u.parents = r.parents /\ u.object = r.object
    /\ u.q = r.q /\ u.look = r.look /\ u.target = r.target

\* The hooks keep the parents:
LEMMA VirtualRootKeeps ==
    ASSUME NEW r, NEW r0, NEW pp, Kept(r0, r)
    PROVE  Kept(r0, SetVirtualRoot(r, pp))
BY DEF Kept, SetVirtualRoot

LEMMA ConvertedKeeps ==
    ASSUME NEW r, NEW id, Kept(r, r)
    PROVE  Kept(r, Converted(r, id))
<1> DEFINE stack == r.stack
           at == {k \in DOMAIN stack : stack[k] = "VirtualHostRoot"}
           ii == CHOOSE k \in at : \A j \in at : k <= j
           run == VhRun(stack, ii)
           pp == [k \in 1 .. Cardinality(run) |-> Segment[stack[ii - k]]]
           given == ii > 1 /\ stack[ii - 1] \in DOMAIN Virtual
           low == SubSeq(stack, 1, IF given THEN ii - 2 ELSE ii - 1 - Cardinality(run))
           mark == IF given THEN stack[ii - 1] ELSE VirtualName(pp)
<1>1. Converted(r, id) =
        IF at = {} THEN r
        ELSE IF ii = Len(stack) THEN [SetVirtualRoot(r, Virtual[mark]) EXCEPT !.stack = low]
        ELSE [r EXCEPT !.stack = low \o <<mark, id>> \o SubSeq(stack, ii + 1, Len(stack))]
  BY DEF Converted
<1> HIDE DEF at, ii, low, mark, stack
<1>2. Kept(r, SetVirtualRoot(r, Virtual[mark]))
  BY VirtualRootKeeps
<1>3. Kept(r, [SetVirtualRoot(r, Virtual[mark]) EXCEPT !.stack = low])
  BY <1>2 DEF Kept
<1>4. Kept(r, [r EXCEPT !.stack = low \o <<mark, id>> \o SubSeq(stack, ii + 1, Len(stack))])
  BY DEF Fields, Kept
<1> QED BY <1>1, <1>3, <1>4

LEMMA VirtualizedKeeps ==
    ASSUME NEW r, NEW v, Kept(r, r)
    PROVE  Kept(r, Virtualized(r, v))
<1> DEFINE id == site.name[v]
           based == r.stack # <<>> /\ Last(r.stack) = "VirtualHostBase"
           short == [r EXCEPT !.stack = SubSeq(@, 1, Len(@) - 3)]
           left == IF based THEN short ELSE r
           rooted == "VirtualHostRoot" \in ToSet(left.stack)
           mapped == Head(HostMap) = "/"
           more == [r EXCEPT !.stack = @ \o (IF mapped THEN <<"/", id>> \o Tail(HostMap) ELSE HostMap)]
<1>1. Virtualized(r, v) =
        IF based \/ rooted THEN Converted(left, id)
        ELSE IF r.q.rule # "map" THEN r ELSE Converted(more, id)
  BY DEF Virtualized
<1>2. Kept(r, short) /\ Kept(r, more)
  BY DEF Kept
<1> HIDE DEF short, more, rooted, id, mapped
<1>3. Kept(r, left)
  BY <1>2
<1> HIDE DEF left, based
<1>4. Kept(r, Converted(left, id)) /\ Kept(r, Converted(more, id))
  <2>1. Kept(left, left) /\ Kept(more, more)
    BY <1>2, <1>3 DEF Fields, Kept
  <2>2. Kept(left, Converted(left, id)) /\ Kept(more, Converted(more, id))
    BY <2>1, ConvertedKeeps
  <2> QED BY <2>2, <1>2, <1>3 DEF Kept
<1> QED BY <1>1, <1>4

LEMMA HookedKeeps ==
    ASSUME NEW r, NEW app \in AppNames, NEW fresh, Kept(r, r)
    PROVE  Kept(r, Hooked(r, app, fresh))
<1> DEFINE c == r.object
           id == IF c \in Folders THEN site.hooks[c][app] ELSE NoId
           m == Acquired(site, r.parents, id)
<1>1. Hooked(r, app, fresh) =
        IF id = NoId THEN r
        ELSE CASE app = "monster" -> IF m \in Monsters THEN Virtualized(r, m) ELSE r
               [] app = "bids" -> BidsTraversed(r, m, fresh)
               [] app = "sessions" -> SessionsTraversed(r, m)
  BY DEF Hooked
<1> HIDE DEF c, id, m
<1>2. Kept(r, Virtualized(r, m))
  BY VirtualizedKeeps
<1>3. Kept(r, SessionsTraversed(r, m))
  BY DEF Kept, SessionsTraversed
<1>4. Kept(r, BidsTraversed(r, m, fresh))
  <2> DEFINE n == Len(r.stack)
             given == n >= 2 /\ r.stack[n] = BidName /\ r.stack[n - 1] \in Bids
             short == [r EXCEPT !.stack = SubSeq(@, 1, n - 2), !.bid = r.stack[n - 1], !.from = "url"]
             popped == IF given THEN short ELSE [r EXCEPT !.from = "none"]
             bid == IF given THEN popped.bid ELSE fresh
  <2>1. BidsTraversed(r, m, fresh) =
          IF m = NoNode THEN r
          ELSE IF ~site.conf[m].auto THEN popped
          ELSE [popped EXCEPT !.bid = bid, !.script = @ \o <<BidName, bid>>]
    BY DEF BidsTraversed
  <2>2. Kept(r, short) /\ Kept(r, [r EXCEPT !.from = "none"])
    BY DEF Kept
  <2> HIDE DEF short, given
  <2>3. Kept(r, popped)
    BY <2>2
  <2> HIDE DEF popped, bid
  <2>4. Kept(r, [popped EXCEPT !.bid = bid, !.script = @ \o <<BidName, bid>>])
    BY <2>3 DEF Kept
  <2> QED BY <2>1, <2>3, <2>4
<1>5. app = "monster" \/ app = "bids" \/ app = "sessions"
  BY DEF AppNames
<1> QED BY <1>1, <1>2, <1>3, <1>4, <1>5

\* Every object among the parents has its containers there.
Closed(s, parents) == UpClosed(Above(s), ToSet(parents))

\* A request on its way through the site
OnItsWay(r) ==
    /\ r.parents # <<>> /\ r.parents[1] = Root
    /\ r.object \in Monsters => r.object = Last(r.parents)

ParentsInv ==
    /\ Fields \subseteq DOMAIN req
    /\ req.parents \in Seq(Things) /\ Closed(site, req.parents)
    /\ req.pc = "idle" => req.parents = <<>>
    /\ req.pc \in {"hooks", "names"} => OnItsWay(req)

\* The same of a request that is not idle
Way(r) ==
    /\ Fields \subseteq DOMAIN r
    /\ r.parents \in Seq(Things) /\ Closed(site, r.parents) /\ r.pc # "idle"
    /\ r.pc \in {"hooks", "names"} => OnItsWay(r)

\* What a list without its last element holds.
LEMMA SetOf ==
    ASSUME NEW S, NEW b \in Seq(S)
    PROVE  /\ ToSet(b) \subseteq S /\ b \in Seq(ToSet(b)) /\ ToSet(b) = {b[k] : k \in 1 .. Len(b)}
           /\ b # <<>> => Last(b) \in ToSet(b) /\ b[1] \in ToSet(b)
<1>1. ToSet(b) = {b[k] : k \in 1 .. Len(b)} /\ Len(b) \in Nat /\ \A k \in 1 .. Len(b) : b[k] \in S
  BY DEF ToSet
<1>2. b # <<>> => Last(b) \in ToSet(b) /\ b[1] \in ToSet(b)
  BY <1>1 DEF Last
<1>3. b \in Seq(ToSet(b))
  <2> DEFINE T == ToSet(b)
  <2>1. \A k \in 1 .. Len(b) : b[k] \in T
    BY <1>1
  <2> HIDE DEF T
  <2>2. b \in Seq(T)
    BY <2>1
  <2> QED BY <2>2 DEF T
<1> QED BY <1>1, <1>2, <1>3

LEMMA FrontSet ==
    ASSUME NEW S, NEW b \in Seq(S), b # <<>>
    PROVE  /\ Front(b) \in Seq(S) /\ ToSet(b) = ToSet(Front(b)) \cup {Last(b)}
           /\ b[1] # Last(b) => Front(b) # <<>> /\ Front(b)[1] = b[1]
<1>1. /\ Len(b) \in Nat /\ Len(b) >= 1 /\ Len(b) - 1 \in Nat
      /\ Front(b) \in Seq(S) /\ Len(Front(b)) = Len(b) - 1
      /\ \A k \in 1 .. Len(b) - 1 : Front(b)[k] = b[k]
  <2>1. Len(b) \in Nat /\ Len(b) >= 1 /\ Len(b) - 1 \in Nat
    OBVIOUS
  <2> DEFINE m == Len(b) - 1
  <2>2. m \in Nat /\ m <= Len(b)
    BY <2>1
  <2> HIDE DEF m
  <2>3. SubSeq(b, 1, m) \in Seq(S) /\ Len(SubSeq(b, 1, m)) = m /\ \A k \in 1 .. m : SubSeq(b, 1, m)[k] = b[k]
    BY <2>2
  <2> QED BY <2>1, <2>3 DEF Front, m
<1>2. ToSet(b) = ToSet(Front(b)) \cup {Last(b)}
  <2>1. ToSet(b) = {b[k] : k \in 1 .. Len(b)} /\ ToSet(Front(b)) = {Front(b)[k] : k \in 1 .. Len(b) - 1}
    BY <1>1, SetOf
  <2> QED BY <2>1, <1>1 DEF Last
<1>3. b[1] # Last(b) => Len(b) # 1
  BY DEF Last
<1> QED BY <1>1, <1>2, <1>3

\* One more object below the last keeps the parents closed.
LEMMA ReachedIs ==
    ASSUME Built(site), NEW r, Way(r), OnItsWay(r), NEW n \in Things,
           n \in Nodes => n # Root /\ site.place[n] \in ToSet(r.parents) \cap Folders
    PROVE  Way(Reached(r, n))
<1> DEFINE u == Reached(r, n)
           b == r.parents
           A == Above(site)
<1>1. /\ Fields \subseteq DOMAIN u /\ u.pc = "hooks" /\ u.object = n
      /\ u.parents = Append(b, n)
  BY DEF Reached, Way
<1>2. b \in Seq(Things) /\ b # <<>> /\ b[1] = Root /\ Closed(site, b)
  BY DEF Way, OnItsWay
<1>3. /\ Append(b, n) \in Seq(Things) /\ Append(b, n) # <<>> /\ Last(Append(b, n)) = n
      /\ ToSet(Append(b, n)) = ToSet(b) \cup {n}
  BY <1>2, AppendSet
<1>4. Append(b, n)[1] = Root
  BY <1>2
<1>5. AboveOf(A, n) \subseteq ToSet(b)
  <2>1. CASE n \in Nodes
    <3> DEFINE p == site.place[n]
    <3>1. p \in ToSet(b) /\ p \in Nodes /\ p # NoNode
      BY <2>1, TraversalAssumption
    <3>2. A[n] = {p} \cup A[p]
      BY <2>1, <3>1 DEF Built, Tree
    <3>3. {p} \cup A[p] \subseteq ToSet(b)
      BY <3>1, <1>2 DEF Closed, UpClosed, AboveOf
    <3> QED BY <2>1, <3>2, <3>3 DEF AboveOf
  <2>2. CASE n \notin Nodes
    BY <2>2 DEF AboveOf
  <2> QED BY <2>1, <2>2
<1> HIDE DEF A
<1>6. Closed(site, Append(b, n))
  BY <1>2, <1>3, <1>5 DEF Closed, UpClosed, A
<1> HIDE DEF u, b
<1> QED BY <1>1, <1>3, <1>4, <1>6 DEF Way, OnItsWay, u

\* A monster on the path takes only itself off the parents.
LEMMA AwayIs ==
    ASSUME Built(site), NEW r, Way(r), OnItsWay(r), r.object \in Monsters, NEW v
    PROVE  Way(TraversedAway(r, v))
<1> DEFINE b == r.parents
           front == [r EXCEPT !.parents = Front(@)]
           back == SetVirtualRoot(front, Virtual[v])
           u == TraversedAway(r, v)
           A == Above(site)
<1>1. b \in Seq(Things) /\ b # <<>> /\ b[1] = Root /\ Closed(site, b) /\ Last(b) \in Monsters
  BY DEF Way, OnItsWay
<1>2. /\ Front(b) \in Seq(Things) /\ ToSet(b) = ToSet(Front(b)) \cup {Last(b)}
      /\ Front(b) # <<>> /\ Front(b)[1] = Root
  <2>1. Last(b) # Root
    BY <1>1, TraversalAssumption
  <2> QED BY <2>1, <1>1, FrontSet
<1>3. front.parents = Front(b) /\ Fields \subseteq DOMAIN front
  BY DEF Way
<1> HIDE DEF front
<1>4. back.parents = Front(b) /\ Fields \subseteq DOMAIN back
  BY <1>3 DEF SetVirtualRoot
<1> HIDE DEF back
<1>5. /\ Fields \subseteq DOMAIN u /\ u.pc = "hooks"
      /\ u.object = Last(Front(b)) /\ u.parents = Front(b)
  BY <1>4 DEF TraversedAway, back, front
<1>6. Closed(site, Front(b))
  <2>1. A \in [Nodes -> SUBSET Folders]
    BY DEF Built, Tree
  <2>2. ASSUME NEW x \in ToSet(Front(b)) PROVE {x} \cup AboveOf(A, x) \subseteq ToSet(Front(b))
    <3>1. AboveOf(A, x) \subseteq ToSet(b)
      BY <1>1, <1>2 DEF Closed, UpClosed
    <3>2. AboveOf(A, x) \subseteq Folders
      BY <2>1 DEF AboveOf
    <3>3. Last(b) \notin Folders
      BY <1>1, TraversalAssumption
    <3> QED BY <3>1, <3>2, <3>3, <1>2
  <2> HIDE DEF b
  <2> QED BY <2>2 DEF Closed, UpClosed
<1> HIDE DEF u, b
<1> QED BY <1>2, <1>5, <1>6 DEF Way, OnItsWay, u

\* A refused request has its parents still.
LEMMA RefusedIs ==
    ASSUME NEW r, Way(r), NEW outcome
    PROVE  Way(Refused(r, outcome))
<1>1. /\ Fields \subseteq DOMAIN Refused(r, outcome)
      /\ Refused(r, outcome).pc = "answered" /\ Refused(r, outcome).parents = r.parents
  BY DEF Refused, Way
<1> QED BY <1>1 DEF Way

\* A turn of the loop keeps the parents closed.
LEMMA TraversedIs ==
    ASSUME Built(site), NEW r, Way(r), OnItsWay(r)
    PROVE  Way(Traversed(r))
<1> DEFINE id == r.entry
           found == Acquired(site, r.parents, id)
           n == IF id = "PUT" THEN Handler ELSE found
<1>1. /\ site.place \in [Nodes -> Folders \cup {NoNode}] /\ Tree(site.place, Above(site))
      /\ site.place[Root] = NoNode
  BY DEF Built, SiteType, Tree
<1>2. found = NoNode \/ (found \in Nodes /\ site.place[found] \in ToSet(r.parents) \cap Folders)
  <2> DEFINE Z == ToSet(r.parents)
             A == Above(site)
  <2>1. Z \in SUBSET Things /\ r.parents \in Seq(Z)
    BY SetOf DEF Way
  <2>2. UpClosed(A, Z)
    BY DEF Way, Closed
  <2>3. Tree(site.place, A)
    BY <1>1
  <2> HIDE DEF Z, A
  <2>4. LET m == Acquired(site, r.parents, id)
        IN  m = NoNode \/ (m \in Nodes /\ site.place[m] \in Z \cap Folders /\ site.name[m] = id)
    BY <2>1, <2>2, <2>3, <1>1, AcquiredIs
  <2> QED BY <2>4 DEF Z
<1>3. ASSUME n # NoNode
      PROVE  n \in Things /\ (n \in Nodes => n # Root /\ site.place[n] \in ToSet(r.parents) \cap Folders)
  BY <1>1, <1>2, <1>3, TraversalAssumption DEF Things
<1>4. n # NoNode => Way(Reached(r, n))
  <2> HIDE DEF n
  <2> QED BY <1>3, ReachedIs
<1>5. Way(Reached(r, NullRes))
  <2>1. NullRes \in Things /\ NullRes \notin Nodes
    BY TraversalAssumption DEF Things
  <2> QED BY <2>1, ReachedIs
<1>6. r.object \in Monsters => Way(TraversedAway(r, id))
  BY AwayIs
<1>7. \A outcome : Way(Refused(r, outcome))
  BY RefusedIs
<1>8. Traversed(r) =
        IF id \in BadNames THEN Refused(r, "forbidden")
        ELSE IF r.object \in Monsters /\ id \in DOMAIN Virtual THEN TraversedAway(r, id)
        ELSE IF n \in Undocumented THEN Refused(r, "forbidden")
        ELSE IF n # NoNode THEN Reached(r, n)
        ELSE IF r.q.method # "PUT" THEN Refused(r, "notfound")
        ELSE IF r.object = NullRes THEN Refused(r, "conflict")
        ELSE IF r.object \in Folders THEN Reached(r, NullRes)
        ELSE Refused(r, "notfound")
  BY DEF Traversed
<1> HIDE DEF id, n, found
<1> QED BY <1>4, <1>5, <1>6, <1>7, <1>8

\* A turn with its entries.
LEMMA EnteredIs ==
    ASSUME Built(site), NEW r, Way(r), OnItsWay(r), NEW id
    PROVE  Way(Entered(r, id))
<1> DEFINE u == [r EXCEPT !.entry = id, !.usteps = Append(@, id), !.url = Append(@, id),
                          !.last = Append(r.url, id)]
<1>1. Fields \subseteq DOMAIN u /\ u.pc = r.pc /\ u.parents = r.parents /\ u.object = r.object
  BY DEF Way
<1> HIDE DEF u
<1>2. Way(u) /\ OnItsWay(u)
  BY <1>1 DEF Way, OnItsWay
<1>3. Entered(r, id) = Traversed(u)
  BY DEF Entered, u
<1> QED BY <1>2, <1>3, TraversedIs

\* On an idle server
LEMMA IdleIsClosed ==
    ASSUME ParentsInv, req' = req, req.pc = "idle"
    PROVE  ParentsInv'
<1>1. req.parents = <<>> /\ ToSet(<<>>) = {}
  BY DEF ParentsInv, ToSet
<1> QED BY <1>1 DEF ParentsInv, Closed, UpClosed

\* While a request is served, the site is as it was.
LEMMA WayIsClosed ==
    ASSUME site' = site, NEW r, req' = r, Way(r)
    PROVE  ParentsInv'
<1>1. Above(site)' = Above(site)
  BY DEF Above, Climb
<1> QED BY <1>1 DEF ParentsInv, Way, Closed, OnItsWay

\* A step that keeps the parents keeps their order.
LEMMA KeptIsWay ==
    ASSUME ParentsInv, req.pc # "idle", NEW r, Kept(req, r), r.pc # "idle",
           r.pc \in {"hooks", "names"} => req.pc \in {"hooks", "names"}
    PROVE  Way(r)
BY DEF ParentsInv, Kept, Way, OnItsWay

\* The actions of a request, one by one.
LEMMA StartIsClosed ==
    ASSUME Built(site), NEW q \in Requests, Start(q)
    PROVE  ParentsInv'
<1> DEFINE path == Rewritten(q)
           r == [NoRequest EXCEPT !.pc = "hooks", !.q = q, !.stack = Reverse(Clean(path)),
                                  !.parents = <<Root>>, !.roles = RoleOf[Root],
                                  !.look = IF q.method = "GET" THEN "index_html" ELSE "PUT"]
           t == [r EXCEPT !.pc = "answered", !.outcome = "notfound"]
<1>1. /\ Fields \subseteq DOMAIN r /\ r.pc = "hooks" /\ r.parents = <<Root>> /\ r.object = Root
      /\ Fields \subseteq DOMAIN t /\ t.pc = "answered" /\ t.parents = <<Root>> /\ t.object = Root
  BY DEF Fields, NoRequest
<1>2. site' = site /\ req' = IF ToSet(path) \cap Hidden # {} THEN t ELSE r
  BY DEF Start
<1> HIDE DEF path, r, t
<1>3. <<Root>> \in Seq(Things) /\ <<Root>> # <<>> /\ <<Root>>[1] = Root /\ ToSet(<<Root>>) = {Root}
  BY TraversalAssumption DEF Things, ToSet
<1>4. Above(site)[Root] = {} /\ Root \notin Monsters
  BY TraversalAssumption DEF Built, Tree
<1>5. Closed(site, <<Root>>)
  BY <1>3, <1>4 DEF Closed, UpClosed, AboveOf
<1>6. Way(r) /\ Way(t)
  BY <1>1, <1>3, <1>4, <1>5 DEF Way, OnItsWay
<1> QED BY <1>2, <1>6, WayIsClosed

LEMMA CallHooksIsClosed ==
    ASSUME ParentsInv, NEW b \in Bids, CallHooks(b)
    PROVE  ParentsInv'
<1> DEFINE r1 == Hooked(req, "monster", b)
           r2 == Hooked(r1, "bids", b)
           r3 == Hooked(r2, "sessions", b)
           r == [r3 EXCEPT !.pc = "names"]
<1>1. req.pc = "hooks" /\ req' = r /\ site' = site
  BY HooksAre DEF CallHooks
<1>2. Kept(req, req) /\ "monster" \in AppNames /\ "bids" \in AppNames /\ "sessions" \in AppNames
  BY DEF Kept, ParentsInv, AppNames
<1>3. Kept(req, r1)
  BY <1>2, HookedKeeps
<1> HIDE DEF r1
<1>4. Kept(r1, r1)
  BY <1>3 DEF Kept
<1>5. Kept(r1, r2)
  BY <1>2, <1>4, HookedKeeps
<1> HIDE DEF r2
<1>6. Kept(r2, r2)
  BY <1>5 DEF Kept
<1>7. Kept(r2, r3)
  BY <1>2, <1>6, HookedKeeps
<1> HIDE DEF r3
<1>8. Kept(req, r) /\ r.pc = "names"
  BY <1>3, <1>5, <1>7 DEF Kept
<1> HIDE DEF r
<1>9. Way(r)
  BY <1>1, <1>8, KeptIsWay
<1> QED BY <1>1, <1>9, WayIsClosed

LEMMA NextNameIsClosed ==
    ASSUME Built(site), ParentsInv, NextName
    PROVE  ParentsInv'
<1> DEFINE r == [req EXCEPT !.stack = Front(@)]
           u == Entered(r, Last(req.stack))
<1>1. req.pc = "names" /\ req' = u /\ site' = site
  BY DEF NextName
<1>2. Kept(req, r) /\ r.pc = "names"
  BY <1>1 DEF Kept, ParentsInv
<1> HIDE DEF r
<1>3. Way(r) /\ OnItsWay(r)
  <2>1. Way(r)
    BY <1>1, <1>2, KeptIsWay
  <2> QED BY <2>1, <1>2 DEF Way
<1>4. Way(u)
  BY <1>3, EnteredIs
<1> HIDE DEF u
<1> QED BY <1>1, <1>4, WayIsClosed

LEMMA DefaultMethodIsClosed ==
    ASSUME Built(site), ParentsInv, DefaultMethod
    PROVE  ParentsInv'
<1> DEFINE object == NotAcquired(req)
           r == [req EXCEPT !.object = object, !.look = "index_html"]
           u == Entered(r, req.look)
<1>1. req.pc = "names" /\ req' = u /\ site' = site
  BY DEF DefaultMethod
<1>2. object \in Monsters => object = req.object
  <2>1. NullRes \notin Monsters
    BY TraversalAssumption
  <2> QED BY <2>1 DEF NotAcquired
<1> HIDE DEF object
<1>3. Fields \subseteq DOMAIN r /\ r.pc = "names" /\ r.parents = req.parents /\ r.object = object
  BY <1>1 DEF ParentsInv
<1> HIDE DEF r
<1>4. Way(r) /\ OnItsWay(r)
  BY <1>1, <1>2, <1>3 DEF ParentsInv, Way, OnItsWay
<1>5. Way(u)
  BY <1>4, EnteredIs
<1> HIDE DEF u
<1> QED BY <1>1, <1>5, WayIsClosed

LEMMA EndOfPathIsClosed ==
    ASSUME ParentsInv, EndOfPath
    PROVE  ParentsInv'
<1> DEFINE object == NotAcquired(req)
           r == [req EXCEPT !.pc = "authorize", !.object = object, !.url = req.last]
<1>1. req.pc = "names" /\ req' = r /\ site' = site
  BY DEF EndOfPath
<1> HIDE DEF object
<1>2. Fields \subseteq DOMAIN r /\ r.pc = "authorize" /\ r.parents = req.parents
  BY DEF ParentsInv
<1> HIDE DEF r
<1>3. Way(r)
  BY <1>1, <1>2 DEF ParentsInv, Way
<1> QED BY <1>1, <1>3, WayIsClosed

\* Behind the path, the parents stay as they are.
LEMMA AuthorizeKeeps ==
    ASSUME ParentsInv, Authorize
    PROVE  req.pc = "authorize" /\ site' = site /\ Kept(req, req') /\ req'.pc \in {"called", "answered"}
<1>1. \E user, path : /\ req.pc = "authorize" /\ site' = site
                      /\ \/ req' = [req EXCEPT !.pc = "called", !.outcome = "ok", !.upath = path, !.user = user]
                         \/ req' = Refused(req, "unauthorized")
                         \/ req' = [req EXCEPT !.pc = "called", !.outcome = "ok"]
  BY DEF Authorize
<1> QED BY <1>1 DEF Fields, Refused, Kept, ParentsInv

LEMMA AuthorizeIsClosed ==
    ASSUME ParentsInv, Authorize
    PROVE  ParentsInv'
<1>1. req.pc = "authorize" /\ site' = site /\ Kept(req, req') /\ req'.pc \in {"called", "answered"}
  BY AuthorizeKeeps
<1>2. PICK r : r = req'
  OBVIOUS
<1>3. Way(r)
  BY <1>1, <1>2, KeptIsWay
<1> QED BY <1>1, <1>2, <1>3, WayIsClosed

LEMMA BrowserIdKeeps ==
    ASSUME NEW r, NEW m, NEW create, NEW fresh, Kept(r, r)
    PROVE  Kept(r, WithBrowserId(r, m, create, fresh)) /\ WithBrowserId(r, m, create, fresh).pc = r.pc
<1>1. \E bid, from, cookie : \/ WithBrowserId(r, m, create, fresh) = r
                             \/ WithBrowserId(r, m, create, fresh) = [r EXCEPT !.bid = bid, !.from = from]
                             \/ WithBrowserId(r, m, create, fresh) = [r EXCEPT !.bid = bid, !.from = from, !.cookie = cookie]
  BY DEF WithBrowserId
<1> QED BY <1>1 DEF Fields, Kept

LEMMA SessionKeeps ==
    ASSUME ParentsInv,
           \/ \E b \in Bids : UseSession(b)
           \/ \E create \in BOOLEAN, b \in Bids : GetBrowserId(create, b)
           \/ \E b \in Bids \cup {Deleted} : SetCookie(b)
    PROVE  site' = site /\ req.pc = "called" /\ Kept(req, req') /\ req'.pc = "called"
<1>0. Kept(req, req)
  BY DEF Kept, ParentsInv
<1>1. ASSUME NEW b \in Bids, UseSession(b) PROVE site' = site /\ req.pc = "called" /\ Kept(req, req') /\ req'.pc = "called"
  <2> DEFINE r == WithBrowserId(req, ManagerOf(site, req.lazy), TRUE, b)
  <2>1. site' = site /\ req.pc = "called" /\ req' = [r EXCEPT !.lazy = NoNode, !.key = r.bid]
    BY <1>1 DEF UseSession
  <2>2. Kept(req, r) /\ r.pc = req.pc
    BY <1>0, BrowserIdKeeps
  <2> HIDE DEF r
  <2> QED BY <2>1, <2>2 DEF Kept
<1>2. ASSUME NEW create \in BOOLEAN, NEW b \in Bids, GetBrowserId(create, b)
      PROVE  site' = site /\ req.pc = "called" /\ Kept(req, req') /\ req'.pc = "called"
  <2> DEFINE r == WithBrowserId(req, Acquired(site, req.parents, "browser_id_manager"), create, b)
  <2>1. site' = site /\ req.pc = "called" /\ req' = r
    BY <1>2 DEF GetBrowserId
  <2>2. Kept(req, r) /\ r.pc = req.pc
    BY <1>0, BrowserIdKeeps
  <2> HIDE DEF r
  <2> QED BY <2>1, <2>2
<1>3. ASSUME NEW b, SetCookie(b) PROVE site' = site /\ req.pc = "called" /\ Kept(req, req') /\ req'.pc = "called"
  <2>1. site' = site /\ req.pc = "called" /\ req' = [req EXCEPT !.cookie = b, !.forced = TRUE]
    BY <1>3 DEF SetCookie
  <2> QED BY <2>1, <1>0 DEF Kept
<1> QED BY <1>1, <1>2, <1>3

LEMMA SessionIsClosed ==
    ASSUME ParentsInv,
           \/ \E b \in Bids : UseSession(b)
           \/ \E create \in BOOLEAN, b \in Bids : GetBrowserId(create, b)
           \/ \E b \in Bids \cup {Deleted} : SetCookie(b)
    PROVE  ParentsInv'
<1>1. site' = site /\ req.pc = "called" /\ Kept(req, req') /\ req'.pc = "called"
  BY SessionKeeps
<1>2. PICK r : r = req'
  OBVIOUS
<1>3. Way(r)
  BY <1>1, <1>2, KeptIsWay
<1> QED BY <1>1, <1>2, <1>3, WayIsClosed

LEMMA RespondIsClosed == ASSUME ParentsInv, Respond PROVE ParentsInv'
<1>1. req' = NoRequest
  BY DEF Respond
<1>2. /\ Fields \subseteq DOMAIN NoRequest /\ NoRequest.pc = "idle"
      /\ NoRequest.parents = <<>> /\ ToSet(<<>>) = {} /\ <<>> \in Seq(Things)
  BY DEF Fields, NoRequest, ToSet
<1> QED BY <1>1, <1>2 DEF ParentsInv, Closed, UpClosed

\* Each step keeps the parents closed.
LEMMA ParentsStep == ASSUME Built(site), ParentsInv, [Next]_vars PROVE ParentsInv'
<1>1. CASE \/ \E n \in Managed, c \in Folders, id \in Titles, wanted \in BOOLEAN, conf \in Namespaces :
                 AddManager(n, c, id, wanted, conf)
           \/ \E n \in Managed : DelObject(n)
           \/ \E n \in Managed, id \in Titles : RenameObject(n, id)
           \/ \E m \in BidManagers, conf \in Namespaces : ChangeBids(m, conf)
           \/ \E m \in SdManagers, wanted \in BOOLEAN : ChangeSDM(m, wanted)
  <2>1. req' = req /\ req.pc = "idle"
    BY <1>1 DEF AddManager, DelObject, RenameObject, ChangeBids, ChangeSDM, Idle
  <2> QED BY <2>1, IdleIsClosed
<1>2. CASE \E q \in Requests : Start(q)
  BY <1>2, StartIsClosed
<1>3. CASE \E b \in Bids : CallHooks(b)
  BY <1>3, CallHooksIsClosed
<1>4. CASE NextName
  BY <1>4, NextNameIsClosed
<1>5. CASE DefaultMethod
  BY <1>5, DefaultMethodIsClosed
<1>6. CASE EndOfPath
  BY <1>6, EndOfPathIsClosed
<1>7. CASE Authorize
  BY <1>7, AuthorizeIsClosed
<1>8. CASE \/ \E b \in Bids : UseSession(b)
           \/ \E create \in BOOLEAN, b \in Bids : GetBrowserId(create, b)
           \/ \E b \in Bids \cup {Deleted} : SetCookie(b)
  BY <1>8, SessionIsClosed
<1>9. CASE Respond
  BY <1>9, RespondIsClosed
<1>10. CASE UNCHANGED vars
  <2>1. Above(site)' = Above(site) /\ req' = req
    BY <1>10 DEF vars, Above, Climb
  <2> QED BY <2>1 DEF ParentsInv, Closed, OnItsWay
<1> QED BY <1>1, <1>2, <1>3, <1>4, <1>5, <1>6, <1>7, <1>8, <1>9, <1>10 DEF Next

\* No request, no parents.
LEMMA ParentsInit == Init => ParentsInv
<1> SUFFICES ASSUME Init PROVE ParentsInv
  OBVIOUS
<1>1. req = NoRequest
  BY DEF Init
<1>2. /\ Fields \subseteq DOMAIN NoRequest /\ NoRequest.pc = "idle"
      /\ NoRequest.parents = <<>> /\ ToSet(<<>>) = {} /\ <<>> \in Seq(Things)
  BY DEF Fields, NoRequest, ToSet
<1> QED BY <1>1, <1>2 DEF ParentsInv, Closed, UpClosed

\* The list in which the user folder is searched (BaseRequest.py) has no gap: with an
\* object, all its containers are on it, whatever virtual hosts did to the stack.
THEOREM ParentsStayClosed == Spec => []ParentsAreClosed
<1>1. Init => ParentsInv
  BY ParentsInit
<1>2. Built(site) /\ ParentsInv /\ [Next]_vars => ParentsInv'
  BY ParentsStep
<1>3. Built(site) /\ ParentsInv => ParentsAreClosed
  <2> SUFFICES ASSUME Built(site), ParentsInv, NEW k \in DOMAIN req.parents, req.parents[k] \in Nodes
               PROVE  ToSet(Climb(site, req.parents[k])) \subseteq ToSet(req.parents)
    BY DEF ParentsAreClosed
  <2> DEFINE n == req.parents[k]
             A == Above(site)
  <2>1. n \in Things /\ n \in ToSet(req.parents)
    BY DEF Things, ToSet
  <2>2. site.place \in [Nodes -> Folders \cup {NoNode}] /\ Tree(site.place, A)
    BY DEF Built, SiteType
  <2>3. {n} \cup AboveOf(A, n) \subseteq ToSet(req.parents)
    BY <2>1 DEF ParentsInv, Closed, UpClosed
  <2> HIDE DEF A, n
  <2>4. ToSet(Climb(site, n)) = {n} \cup AboveOf(A, n)
    BY <2>1, <2>2, ClimbIs
  <2> QED BY <2>3, <2>4 DEF n
<1> QED BY <1>1, <1>2, <1>3, SiteStaysBuilt, PTL DEF Spec

-----------------------------------------------------------------------------
(* PUT reaches what is in its container *)

\* The names that come to the stack are not that of the method.  Every virtual root has
\* its mark.
PutIsNoName(Names) ==
    /\ "PUT" \notin Names /\ "/" \in Names /\ Ids \subseteq Names
    /\ HostMap \in Seq(Names) /\ HostMap # <<>>
    /\ \A q \in Requests : Rewritten(q) \in Seq(Names) /\ q.method \in {"GET", "PUT"}
    /\ \A pp \in Seq({Segment[v] : v \in DOMAIN Segment}) : VirtualName(pp) \in Names

\* The beginning of a list.
LEMMA CutIs ==
    ASSUME NEW S, NEW b \in Seq(S), NEW k \in Int, k <= Len(b)
    PROVE  SubSeq(b, 1, k) \in Seq(S)
<1>1. CASE k >= 1
  BY <1>1
<1>2. CASE k < 1
  BY <1>2
<1> QED BY <1>1, <1>2

\* Cleaning a path adds no names.
LEMMA CleanIs ==
    ASSUME NEW Names, NEW path \in Seq(Names)
    PROVE  Clean(path) \in Seq(Names)
<1> DEFINE S == DOMAIN path
           D == Seq(Names)
           Step(d, id) == IF id # ".." THEN Append(d, id) ELSE IF d = <<>> THEN d ELSE Front(d)
           G == [p \in S \X D |-> Step(p[2], path[p[1]])]
           C == [u \in SUBSET S |-> Max(u)]
           iter[u \in SUBSET S] == IF u = {} THEN <<>> ELSE Step(iter[u \ {Max(u)}], path[Max(u)])
<1>1. Clean(path) = iter[S]
  BY DEF Clean, FoldLeft, MapThenFoldSet
<1>2. S = 1 .. Len(path) /\ Len(path) \in Nat /\ IsFiniteSet(S)
  BY FS_Interval
<1>3. Picks(C, S)
  <2>1. ASSUME NEW u \in SUBSET S, u # {} PROVE Max(u) \in u
    BY <1>2, <2>1, MaxIs
  <2> QED BY <2>1 DEF Picks
<1>4. G \in [S \X D -> D]
  <2>1. ASSUME NEW k \in S, NEW d \in D PROVE Step(d, path[k]) \in D
    <3>1. path[k] \in Names /\ Append(d, path[k]) \in D
      BY <1>2
    <3>2. d # <<>> => Front(d) \in D
      BY FrontSet
    <3> QED BY <3>1, <3>2
  <2> QED BY <2>1
<1> HIDE DEF Step
<1>5. iter = [u \in SUBSET S |-> IF u = {} THEN <<>> ELSE Step(iter[u \ {Max(u)}], path[Max(u)])]
  <2>0. <<>> \in D
    OBVIOUS
  <2>1. PICK f \in [SUBSET S -> D] : FoldOf(f, <<>>, C, G, SUBSET S)
    <3> HIDE DEF S, C, D, G
    <3> QED BY <1>2, <1>3, <1>4, <2>0, FoldDefined
  <2>2. ASSUME NEW u \in SUBSET S, u # {} PROVE f[u] = Step(f[u \ {Max(u)}], path[Max(u)])
    <3>1. f[u] = G[<<C[u], f[u \ {C[u]}]>>] /\ C[u] \in S /\ u \ {C[u]} \in SUBSET S
      <4> HIDE DEF S, C, D, G
      <4> QED BY <2>1, <2>2, <1>3 DEF FoldOf, Picks
    <3>2. f[u \ {C[u]}] \in D /\ C[u] = Max(u)
      <4> HIDE DEF S, D, G
      <4> QED BY <3>1
    <3>3. f[u] = Step(f[u \ {C[u]}], path[C[u]])
      <4> HIDE DEF S, C, D
      <4> QED BY <3>1, <3>2
    <3> QED BY <3>2, <3>3
  <2>3. {} \in SUBSET S /\ f[{}] = <<>>
    BY <2>1 DEF FoldOf
  <2>4. f = [u \in SUBSET S |-> IF u = {} THEN <<>> ELSE Step(f[u \ {Max(u)}], path[Max(u)])]
    <3>1. f = [u \in SUBSET S |-> f[u]]
      OBVIOUS
    <3> HIDE DEF S, C, D, G
    <3> QED BY <2>2, <2>3, <3>1
  <2> HIDE DEF S, C, D, G
  <2> QED BY <2>4, Zenon
<1> DEFINE F == {u \in SUBSET S : iter[u] \in D}
<1> HIDE DEF iter
<1>6. {} \in F
  BY <1>5
<1>7. ASSUME NEW u \in SUBSET S, u # {}, u \ {C[u]} \in F PROVE u \in F
  <2>1. C[u] \in S /\ C[u] = Max(u)
    BY <1>3, <1>7 DEF Picks
  <2>2. iter[u] = G[<<C[u], iter[u \ {C[u]}]>>]
    BY <2>1, <1>5, <1>7
  <2> HIDE DEF S, C, D, G
  <2> QED BY <2>1, <2>2, <1>4, <1>7
<1>8. S \in F
  <2>1. IsFiniteSet(S) /\ S \in SUBSET S
    BY <1>2
  <2> HIDE DEF S, C, D, G, F
  <2>2. \A u \in SUBSET S : u \in F
    BY <2>1, <1>3, <1>6, <1>7, SubsetInduction
  <2> QED BY <2>1, <2>2
<1> QED BY <1>1, <1>8

\* The _vh_ elements stand next to each other.
LEMMA VhRunIs ==
    ASSUME NEW Names, NEW stack \in Seq(Names), NEW ii \in 1 .. Len(stack)
    PROVE  LET n == Cardinality(VhRun(stack, ii))
           IN  n \in 0 .. ii - 1 /\ \A k \in 1 .. n : stack[ii - k] \in DOMAIN Segment
<1> DEFINE run == VhRun(stack, ii)
<1>1. /\ run \in SUBSET (1 .. ii - 1) /\ ii - 1 \in Nat
      /\ \A k \in 1 .. ii - 1 : k \in run <=> \A j \in k .. ii - 1 : stack[j] \in DOMAIN Segment
  BY DEF VhRun
<1> HIDE DEF run
<1>2. CASE run = {}
  <2>1. Cardinality(run) = 0
    BY <1>2, FS_EmptySet
  <2> QED BY <2>1, <1>1 DEF run
<1>3. CASE run # {}
  <2>1. PICK m \in run : \A y \in run : m <= y
    BY <1>1, <1>3, HasBounds
  <2>2. m \in 1 .. ii - 1 /\ \A j \in m .. ii - 1 : stack[j] \in DOMAIN Segment
    BY <1>1
  <2>3. run = m .. ii - 1
    <3>1. ASSUME NEW k \in m .. ii - 1 PROVE k \in run
      BY <2>2, <1>1
    <3>2. ASSUME NEW k \in run PROVE k \in m .. ii - 1
      BY <2>1, <2>2, <1>1
    <3> QED BY <3>1, <3>2
  <2>4. Cardinality(run) = ii - m
    BY <2>2, <2>3, <1>1, FS_Interval
  <2> QED BY <2>2, <2>4 DEF run
<1> QED BY <1>2, <1>3

\* What a virtual host puts on the stack are names.
LEMMA ConvertedStack ==
    ASSUME NEW Names, PutIsNoName(Names), NEW r, Fields \subseteq DOMAIN r, r.stack \in Seq(Names), NEW id \in Names
    PROVE  Converted(r, id).stack \in Seq(Names)
<1> DEFINE stack == r.stack
           at == {k \in DOMAIN stack : stack[k] = "VirtualHostRoot"}
           ii == CHOOSE k \in at : \A j \in at : k <= j
           run == VhRun(stack, ii)
           n == Cardinality(run)
           pp == [k \in 1 .. n |-> Segment[stack[ii - k]]]
           given == ii > 1 /\ stack[ii - 1] \in DOMAIN Virtual
           m == IF given THEN ii - 2 ELSE ii - 1 - n
           low == SubSeq(stack, 1, m)
           mark == IF given THEN stack[ii - 1] ELSE VirtualName(pp)
           up == SubSeq(stack, ii + 1, Len(stack))
<1>1. Converted(r, id) =
        IF at = {} THEN r
        ELSE IF ii = Len(stack) THEN [SetVirtualRoot(r, Virtual[mark]) EXCEPT !.stack = low]
        ELSE [r EXCEPT !.stack = low \o <<mark, id>> \o up]
  BY DEF Converted
<1>2. CASE at = {}
  BY <1>1, <1>2
<1>3. CASE at # {}
  <2>1. stack \in Seq(Names) /\ Len(stack) \in Nat /\ at \in SUBSET (1 .. Len(stack))
    OBVIOUS
  <2>2. ii \in 1 .. Len(stack)
    <3>1. \E k \in at : \A j \in at : k <= j
      <4> HIDE DEF at
      <4> QED BY <1>3, <2>1, HasBounds
    <3>2. ii \in at
      <4> HIDE DEF at
      <4> QED BY <3>1
    <3> HIDE DEF ii
    <3> QED BY <3>2, <2>1
  <2> HIDE DEF at, ii, stack
  <2>3. n \in 0 .. ii - 1 /\ \A k \in 1 .. n : stack[ii - k] \in DOMAIN Segment
    BY <2>1, <2>2, VhRunIs
  <2> HIDE DEF n
  <2>4. pp \in Seq({Segment[v] : v \in DOMAIN Segment})
    BY <2>3
  <2>5. VirtualName(pp) \in Names
    <3> HIDE DEF pp
    <3> QED BY <2>4 DEF PutIsNoName
  <2> HIDE DEF pp
  <2>6. mark \in Names /\ m \in Int /\ m <= Len(stack)
    BY <2>1, <2>2, <2>3, <2>5
  <2> HIDE DEF mark, m
  <2>7. low \in Seq(Names)
    BY <2>1, <2>6, CutIs
  <2>8. up \in Seq(Names)
    BY <2>1, <2>2
  <2> HIDE DEF low, up
  <2>9. low \o <<mark, id>> \o up \in Seq(Names)
    BY <2>6, <2>7, <2>8
  <2>10. "stack" \in DOMAIN SetVirtualRoot(r, Virtual[mark])
    BY DEF SetVirtualRoot, Fields
  <2> QED BY <2>7, <2>9, <2>10, <1>1, <1>3 DEF Fields
<1> QED BY <1>2, <1>3

LEMMA VirtualizedStack ==
    ASSUME Built(site), NEW Names, PutIsNoName(Names), NEW r, Kept(r, r), r.stack \in Seq(Names), NEW v \in Monsters
    PROVE  Virtualized(r, v).stack \in Seq(Names)
<1> DEFINE id == site.name[v]
           based == r.stack # <<>> /\ Last(r.stack) = "VirtualHostBase"
           cut == SubSeq(r.stack, 1, Len(r.stack) - 3)
           short == [r EXCEPT !.stack = cut]
           left == IF based THEN short ELSE r
           rooted == "VirtualHostRoot" \in ToSet(left.stack)
           mapped == Head(HostMap) = "/"
           host == IF mapped THEN <<"/", id>> \o Tail(HostMap) ELSE HostMap
           more == [r EXCEPT !.stack = r.stack \o host]
<1>1. Virtualized(r, v) =
        IF based \/ rooted THEN Converted(left, id)
        ELSE IF r.q.rule # "map" THEN r ELSE Converted(more, id)
  BY DEF Virtualized
<1>2. id \in Names
  BY TraversalAssumption DEF PutIsNoName, Built, SiteType
<1>3. cut \in Seq(Names)
  <2>1. Len(r.stack) - 3 \in Int /\ Len(r.stack) - 3 <= Len(r.stack)
    OBVIOUS
  <2> QED BY <2>1, CutIs
<1>4. host \in Seq(Names)
  <2>1. HostMap \in Seq(Names) /\ HostMap # <<>> /\ "/" \in Names
    BY DEF PutIsNoName
  <2>2. Tail(HostMap) \in Seq(Names)
    BY <2>1
  <2>3. <<"/", id>> \o Tail(HostMap) \in Seq(Names)
    <3> HIDE DEF id
    <3> QED BY <2>1, <2>2, <1>2
  <2> QED BY <2>1, <2>3
<1> HIDE DEF cut, host, id
<1>5. Fields \subseteq DOMAIN short /\ short.stack \in Seq(Names) /\ Fields \subseteq DOMAIN more /\ more.stack \in Seq(Names)
  BY <1>3, <1>4 DEF Kept, Fields
<1> HIDE DEF short, more
<1>6. Fields \subseteq DOMAIN left /\ left.stack \in Seq(Names)
  BY <1>5 DEF Kept
<1> HIDE DEF left, based, rooted
<1>7. Converted(left, id).stack \in Seq(Names) /\ Converted(more, id).stack \in Seq(Names)
  BY <1>2, <1>5, <1>6, ConvertedStack
<1> QED BY <1>1, <1>7

LEMMA HookedStack ==
    ASSUME Built(site), NEW Names, PutIsNoName(Names), NEW r, Kept(r, r), r.stack \in Seq(Names),
           NEW app \in AppNames, NEW fresh
    PROVE  /\ Hooked(r, app, fresh).stack \in Seq(Names)
           /\ r.object = Handler => Hooked(r, app, fresh) = r
<1> DEFINE c == r.object
           id == IF c \in Folders THEN site.hooks[c][app] ELSE NoId
           m == Acquired(site, r.parents, id)
<1>1. Hooked(r, app, fresh) =
        IF id = NoId THEN r
        ELSE CASE app = "monster" -> IF m \in Monsters THEN Virtualized(r, m) ELSE r
               [] app = "bids" -> BidsTraversed(r, m, fresh)
               [] app = "sessions" -> SessionsTraversed(r, m)
  BY DEF Hooked
<1>0. r.object = Handler => id = NoId
  BY TraversalAssumption
<1> HIDE DEF c, id, m
<1>2. m \in Monsters => Virtualized(r, m).stack \in Seq(Names)
  BY VirtualizedStack
<1>3. SessionsTraversed(r, m).stack \in Seq(Names)
  BY DEF Kept, Fields, SessionsTraversed
<1>4. BidsTraversed(r, m, fresh).stack \in Seq(Names)
  <2> DEFINE n == Len(r.stack)
             given == n >= 2 /\ r.stack[n] = BidName /\ r.stack[n - 1] \in Bids
             cut == SubSeq(r.stack, 1, n - 2)
             short == [r EXCEPT !.stack = cut, !.bid = r.stack[n - 1], !.from = "url"]
             popped == IF given THEN short ELSE [r EXCEPT !.from = "none"]
             bid == IF given THEN popped.bid ELSE fresh
  <2>1. BidsTraversed(r, m, fresh) =
          IF m = NoNode THEN r
          ELSE IF ~site.conf[m].auto THEN popped
          ELSE [popped EXCEPT !.bid = bid, !.script = @ \o <<BidName, bid>>]
    BY DEF BidsTraversed
  <2>2. cut \in Seq(Names)
    <3>1. n - 2 \in Int /\ n - 2 <= Len(r.stack)
      OBVIOUS
    <3> QED BY <3>1, CutIs
  <2> HIDE DEF cut, n, given
  <2>3. short.stack \in Seq(Names) /\ [r EXCEPT !.from = "none"].stack \in Seq(Names) /\ "stack" \in DOMAIN short /\ "stack" \in DOMAIN [r EXCEPT !.from = "none"]
    BY <2>2 DEF Kept, Fields
  <2> HIDE DEF short
  <2>4. popped.stack \in Seq(Names) /\ "stack" \in DOMAIN popped
    BY <2>3
  <2> HIDE DEF popped, bid
  <2>5. [popped EXCEPT !.bid = bid, !.script = @ \o <<BidName, bid>>].stack \in Seq(Names)
    BY <2>4
  <2> QED BY <2>1, <2>4, <2>5
<1>5. app = "monster" \/ app = "bids" \/ app = "sessions"
  BY DEF AppNames
<1> QED BY <1>0, <1>1, <1>2, <1>3, <1>4, <1>5

\* What PUT was called on is in the container named before it.
InItsContainer(object, container) == object \in Nodes \ ({Root} \cup Monsters) => site.place[object] = container

\* The method is reached once, at the end of the path, on what may be written.
Writes(Names, r) ==
    /\ r.look = "PUT" => r.q.method = "PUT"
    /\ r.pc \in {"hooks", "names"} =>
          /\ r.stack \in Seq(Names) /\ r.object = Last(r.parents)
          /\ IF r.object = Handler THEN r.stack = <<>> /\ r.look # "PUT" ELSE Handler \notin ToSet(r.parents)
    /\ r.pc \in {"hooks", "names", "authorize", "called"} /\ r.object = Handler =>
          InItsContainer(r.target, r.parents[Len(r.parents) - 2])

WriteInv(Names) == req.pc # "idle" => Writes(Names, req)

\* A request that may go on to id
MayEnter(Names, r, id) ==
    /\ Way(r) /\ OnItsWay(r) /\ r.stack \in Seq(Names)
    /\ r.look = "PUT" => r.q.method = "PUT"
    /\ Handler \notin ToSet(r.parents) /\ r.object # Handler
    /\ id = "PUT" => r.stack = <<>> /\ r.look # "PUT"
    /\ id = "PUT" /\ r.object \in Nodes \ ({Root} \cup Monsters) =>
          Len(r.parents) >= 2 /\ site.place[r.object] = r.parents[Len(r.parents) - 1]

\* What a turn of the loop reaches may be written, if it is the method.
LEMMA ReachedWrites ==
    ASSUME NEW Names, NEW r, MayEnter(Names, r, r.entry), NEW n \in Things, n = Handler => r.entry = "PUT"
    PROVE  Writes(Names, Reached(r, n))
<1> DEFINE u == Reached(r, n)
           b == r.parents
<1>1. b \in Seq(Things) /\ b # <<>>
  BY DEF MayEnter, Way, OnItsWay
<1>2. /\ Append(b, n) \in Seq(Things) /\ Last(Append(b, n)) = n
      /\ ToSet(Append(b, n)) = ToSet(b) \cup {n}
  BY <1>1, AppendSet
<1>3. /\ u.pc = "hooks" /\ u.object = n /\ u.parents = Append(b, n) /\ u.stack = r.stack /\ u.look = r.look /\ u.q = r.q
      /\ n = Handler => u.target = r.object
  BY DEF Reached, MayEnter, Way, Fields
<1>4. u.stack \in Seq(Names) /\ (u.look = "PUT" => u.q.method = "PUT")
  BY <1>3 DEF MayEnter
<1>5. CASE n # Handler
  <2>1. Handler \notin ToSet(u.parents)
    BY <1>2, <1>3, <1>5 DEF MayEnter
  <2> HIDE DEF u
  <2> QED BY <2>1, <1>2, <1>3, <1>4, <1>5 DEF Writes, u
<1>6. CASE n = Handler
  <2>1. u.stack = <<>> /\ u.look # "PUT" /\ u.target = r.object
    BY <1>3, <1>6 DEF MayEnter
  <2>2. InItsContainer(r.object, u.parents[Len(u.parents) - 2])
    <3>1. SUFFICES ASSUME r.object \in Nodes \ ({Root} \cup Monsters)
                   PROVE  site.place[r.object] = u.parents[Len(u.parents) - 2]
      BY DEF InItsContainer
    <3>2. Len(b) >= 2 /\ site.place[r.object] = b[Len(b) - 1]
      BY <3>1, <1>6 DEF MayEnter
    <3>3. Len(Append(b, n)) - 2 = Len(b) - 1 /\ Len(b) - 1 \in 1 .. Len(b)
      BY <3>2, <1>1
    <3>4. Append(b, n)[Len(b) - 1] = b[Len(b) - 1]
      BY <3>3, <1>1
    <3> HIDE DEF u
    <3> QED BY <3>2, <3>3, <3>4, <1>3
  <2> HIDE DEF u
  <2> QED BY <2>1, <2>2, <1>2, <1>3, <1>4, <1>6 DEF Writes, u
<1> QED BY <1>5, <1>6

\* A monster is not the method.
LEMMA AwayWrites ==
    ASSUME NEW Names, NEW r, MayEnter(Names, r, r.entry), r.object \in Monsters, NEW v
    PROVE  Writes(Names, TraversedAway(r, v))
<1> DEFINE b == r.parents
           front == [r EXCEPT !.parents = Front(@)]
           back == SetVirtualRoot(front, Virtual[v])
           u == TraversedAway(r, v)
<1>1. b \in Seq(Things) /\ b # <<>> /\ b[1] = Root /\ Last(b) \in Monsters /\ Handler \notin ToSet(b)
  BY DEF MayEnter, Way, OnItsWay
<1>2. Front(b) \in Seq(Things) /\ ToSet(b) = ToSet(Front(b)) \cup {Last(b)} /\ Front(b) # <<>>
  <2>1. Last(b) # Root
    BY <1>1, TraversalAssumption
  <2> QED BY <2>1, <1>1, FrontSet
<1>3. /\ front.parents = Front(b) /\ Fields \subseteq DOMAIN front
      /\ front.stack = r.stack /\ front.look = r.look /\ front.q = r.q
  BY DEF MayEnter, Way, Fields
<1> HIDE DEF front
<1>4. /\ back.parents = Front(b) /\ Fields \subseteq DOMAIN back
      /\ back.stack = r.stack /\ back.look = r.look /\ back.q = r.q
  BY <1>3 DEF SetVirtualRoot, Fields
<1> HIDE DEF back
<1>5. /\ u.pc = "hooks" /\ u.object = Last(Front(b)) /\ u.parents = Front(b)
      /\ u.stack = r.stack /\ u.look = r.look /\ u.q = r.q
  BY <1>4 DEF TraversedAway, back, front, Fields
<1>6. Handler \notin ToSet(Front(b)) /\ Last(Front(b)) \in ToSet(Front(b))
  BY <1>1, <1>2, SetOf
<1> HIDE DEF u, b
<1> QED BY <1>5, <1>6 DEF Writes, MayEnter, u

LEMMA TraversedWrites ==
    ASSUME Built(site), NEW Names, NEW r, MayEnter(Names, r, r.entry)
    PROVE  Writes(Names, Traversed(r))
<1> DEFINE id == r.entry
           found == Acquired(site, r.parents, id)
           n == IF id = "PUT" THEN Handler ELSE found
<1>1. Way(r) /\ OnItsWay(r)
  BY DEF MayEnter
<1>2. found = NoNode \/ found \in Nodes
  <2> DEFINE Z == ToSet(r.parents)
             A == Above(site)
  <2>1. Z \in SUBSET Things /\ r.parents \in Seq(Z)
    BY <1>1, SetOf DEF Way
  <2>2. UpClosed(A, Z)
    BY <1>1 DEF Way, Closed
  <2>3. Tree(site.place, A) /\ site.place \in [Nodes -> Folders \cup {NoNode}]
    BY DEF Built, SiteType
  <2> HIDE DEF Z, A
  <2>4. LET m == Acquired(site, r.parents, id)
        IN  m = NoNode \/ (m \in Nodes /\ site.place[m] \in Z \cap Folders /\ site.name[m] = id)
    BY <2>1, <2>2, <2>3, AcquiredIs
  <2> QED BY <2>4
<1>3. n # NoNode => n \in Things /\ (n = Handler => id = "PUT")
  BY <1>2, TraversalAssumption DEF Things
<1>4. n # NoNode => Writes(Names, Reached(r, n))
  <2> HIDE DEF n
  <2> QED BY <1>3, ReachedWrites
<1>5. Writes(Names, Reached(r, NullRes))
  <2>1. NullRes \in Things /\ NullRes # Handler
    BY TraversalAssumption DEF Things
  <2> QED BY <2>1, ReachedWrites
<1>6. r.object \in Monsters => Writes(Names, TraversedAway(r, id))
  BY AwayWrites
<1>7. \A outcome : Writes(Names, Refused(r, outcome))
  <2>1. \A outcome : /\ Refused(r, outcome).pc = "answered" /\ Refused(r, outcome).look = r.look
                     /\ Refused(r, outcome).q = r.q
    BY <1>1 DEF Refused, Way, Fields
  <2> QED BY <2>1 DEF Writes, MayEnter
<1>8. Traversed(r) =
        IF id \in BadNames THEN Refused(r, "forbidden")
        ELSE IF r.object \in Monsters /\ id \in DOMAIN Virtual THEN TraversedAway(r, id)
        ELSE IF n \in Undocumented THEN Refused(r, "forbidden")
        ELSE IF n # NoNode THEN Reached(r, n)
        ELSE IF r.q.method # "PUT" THEN Refused(r, "notfound")
        ELSE IF r.object = NullRes THEN Refused(r, "conflict")
        ELSE IF r.object \in Folders THEN Reached(r, NullRes)
        ELSE Refused(r, "notfound")
  BY DEF Traversed
<1> HIDE DEF id, n, found
<1> QED BY <1>4, <1>5, <1>6, <1>7, <1>8

LEMMA EnteredWrites ==
    ASSUME Built(site), NEW Names, NEW r, NEW id, MayEnter(Names, r, id)
    PROVE  Writes(Names, Entered(r, id))
<1> DEFINE u == [r EXCEPT !.entry = id, !.usteps = Append(@, id), !.url = Append(@, id),
                          !.last = Append(r.url, id)]
<1>1. /\ Fields \subseteq DOMAIN u /\ u.pc = r.pc /\ u.parents = r.parents /\ u.object = r.object
      /\ u.stack = r.stack /\ u.look = r.look /\ u.q = r.q /\ u.entry = id
  BY DEF MayEnter, Way, Fields
<1> HIDE DEF u
<1>2. MayEnter(Names, u, u.entry)
  BY <1>1 DEF MayEnter, Way, OnItsWay
<1>3. Entered(r, id) = Traversed(u)
  BY DEF Entered, u
<1> QED BY <1>2, <1>3, TraversedWrites

\* While a request is served, the site is as it was.
LEMMA WritesIsInv ==
    ASSUME site' = site, NEW Names, NEW r, req' = r, Writes(Names, r)
    PROVE  WriteInv(Names)'
BY DEF WriteInv, Writes, InItsContainer

\* The actions again.
LEMMA StartWrites ==
    ASSUME NEW Names, PutIsNoName(Names), NEW q \in Requests, Start(q)
    PROVE  WriteInv(Names)'
<1> DEFINE path == Rewritten(q)
           r == [NoRequest EXCEPT !.pc = "hooks", !.q = q, !.stack = Reverse(Clean(path)),
                                  !.parents = <<Root>>, !.roles = RoleOf[Root],
                                  !.look = IF q.method = "GET" THEN "index_html" ELSE "PUT"]
           t == [r EXCEPT !.pc = "answered", !.outcome = "notfound"]
<1>1. /\ r.pc = "hooks" /\ r.parents = <<Root>> /\ r.object = Root /\ r.stack = Reverse(Clean(path)) /\ r.q = q
      /\ r.look = IF q.method = "GET" THEN "index_html" ELSE "PUT"
      /\ t.pc = "answered" /\ t.look = r.look /\ t.q = q
  BY DEF NoRequest
<1>2. (req' = r \/ req' = t) /\ site' = site
  BY DEF Start
<1>3. path \in Seq(Names) /\ q.method \in {"GET", "PUT"}
  BY DEF PutIsNoName
<1> HIDE DEF path, r, t
<1>4. Reverse(Clean(path)) \in Seq(Names)
  <2>1. Clean(path) \in Seq(Names)
    BY <1>3, CleanIs
  <2> DEFINE c == Clean(path)
  <2> HIDE DEF c
  <2>2. c \in Seq(Names)
    BY <2>1 DEF c
  <2>3. Reverse(c) \in Seq(Names)
    BY <2>2 DEF Reverse
  <2> QED BY <2>3 DEF c
<1>5. Root # Handler /\ ToSet(<<Root>>) = {Root} /\ Last(<<Root>>) = Root
  BY TraversalAssumption DEF ToSet, Last
<1>6. Writes(Names, r) /\ Writes(Names, t)
  BY <1>1, <1>3, <1>4, <1>5 DEF Writes
<1> QED BY <1>2, <1>6, WritesIsInv

LEMMA CallHooksWrites ==
    ASSUME Built(site), NEW Names, PutIsNoName(Names), ParentsInv, WriteInv(Names), NEW b \in Bids, CallHooks(b)
    PROVE  WriteInv(Names)'
<1> DEFINE r1 == Hooked(req, "monster", b)
           r2 == Hooked(r1, "bids", b)
           r3 == Hooked(r2, "sessions", b)
           r == [r3 EXCEPT !.pc = "names"]
<1>1. req.pc = "hooks" /\ req' = r /\ site' = site
  BY HooksAre DEF CallHooks
<1>2. /\ Kept(req, req) /\ "monster" \in AppNames /\ "bids" \in AppNames /\ "sessions" \in AppNames
      /\ Writes(Names, req) /\ req.stack \in Seq(Names)
  BY <1>1 DEF Kept, ParentsInv, AppNames, WriteInv, Writes
<1>3. Kept(req, r1) /\ r1.stack \in Seq(Names) /\ (req.object = Handler => r1 = req)
  BY <1>2, HookedKeeps, HookedStack
<1> HIDE DEF r1
<1>4. Kept(r1, r1)
  BY <1>3 DEF Kept
<1>5. Kept(r1, r2) /\ r2.stack \in Seq(Names) /\ (r1.object = Handler => r2 = r1)
  BY <1>2, <1>3, <1>4, HookedKeeps, HookedStack
<1> HIDE DEF r2
<1>6. Kept(r2, r2)
  BY <1>5 DEF Kept
<1>7. Kept(r2, r3) /\ r3.stack \in Seq(Names) /\ (r2.object = Handler => r3 = r2)
  BY <1>2, <1>5, <1>6, HookedKeeps, HookedStack
<1> HIDE DEF r3
<1>8. /\ Kept(req, r) /\ r.pc = "names" /\ r.stack \in Seq(Names)
      /\ req.object = Handler => r.stack = req.stack
  BY <1>3, <1>5, <1>7 DEF Kept, Fields
<1> HIDE DEF r
<1>9. Writes(Names, r)
  BY <1>1, <1>2, <1>8 DEF Writes, Kept
<1> QED BY <1>1, <1>9, WritesIsInv

LEMMA NextNameWrites ==
    ASSUME Built(site), NEW Names, PutIsNoName(Names), ParentsInv, WriteInv(Names), NextName
    PROVE  WriteInv(Names)'
<1> DEFINE r == [req EXCEPT !.stack = Front(@)]
           id == Last(req.stack)
           u == Entered(r, id)
<1>1. req.pc = "names" /\ req.stack # <<>> /\ req' = u /\ site' = site
  BY DEF NextName
<1>2. Writes(Names, req) /\ req.stack \in Seq(Names) /\ req.object # Handler /\ Handler \notin ToSet(req.parents)
  BY <1>1 DEF WriteInv, Writes
<1>3. Front(req.stack) \in Seq(Names) /\ id \in Names
  BY <1>1, <1>2, FrontSet, SetOf
<1>4. Kept(req, r) /\ r.pc = "names" /\ r.stack = Front(req.stack)
  BY <1>1 DEF Kept, ParentsInv, Fields
<1> HIDE DEF r, id
<1>5. id # "PUT"
  BY <1>3 DEF PutIsNoName
<1>6. Way(r) /\ OnItsWay(r)
  <2>1. Way(r)
    BY <1>1, <1>4, KeptIsWay
  <2> QED BY <2>1, <1>4 DEF Way
<1>7. MayEnter(Names, r, id)
  BY <1>2, <1>3, <1>4, <1>5, <1>6 DEF MayEnter, Kept, Writes
<1>8. Writes(Names, u)
  BY <1>7, EnteredWrites
<1> HIDE DEF u
<1> QED BY <1>1, <1>8, WritesIsInv

LEMMA DefaultMethodWrites ==
    ASSUME Built(site), NEW Names, PutIsNoName(Names), ParentsInv, WriteInv(Names), DefaultMethod
    PROVE  WriteInv(Names)'
<1> DEFINE object == NotAcquired(req)
           r == [req EXCEPT !.object = object, !.look = "index_html"]
           b == req.parents
           u == Entered(r, req.look)
<1>1. req.pc = "names" /\ req.stack = <<>> /\ HasMethod(req, object) /\ req' = u /\ site' = site
  BY DEF DefaultMethod
<1>2. /\ req.look = "PUT" => req.q.method = "PUT"
      /\ req.object = Last(b) /\ OnItsWay(req) /\ b \in Seq(Things) /\ <<>> \in Seq(Names)
      /\ IF req.object = Handler THEN req.look # "PUT" ELSE Handler \notin ToSet(b)
  BY <1>1 DEF WriteInv, Writes, ParentsInv
<1>3. object \in Nodes => object = req.object
  BY TraversalAssumption DEF NotAcquired
<1>4. object # Handler /\ req.object # Handler
  <2>1. object # Handler
    <3>1. CASE req.look = "PUT"
      BY <3>1, <1>1 DEF HasMethod
    <3>2. CASE req.look # "PUT"
      BY <3>2, <1>1, TraversalAssumption DEF HasMethod
    <3> QED BY <3>1, <3>2
  <2> QED BY <2>1, TraversalAssumption DEF NotAcquired
<1>5. ASSUME req.look = "PUT", object \in Nodes \ ({Root} \cup Monsters)
      PROVE  Len(b) >= 2 /\ site.place[object] = b[Len(b) - 1]
  <2>1. object = req.object /\ req.q.method = "PUT"
    BY <1>2, <1>3, <1>5
  <2>2. site.place[object] = Last(Front(b))
    BY <2>1, <1>5, TraversalAssumption DEF NotAcquired
  <2>3. Len(b) >= 2
    <3>1. b # <<>> /\ b[1] = Root /\ b[Len(b)] # Root /\ Len(b) \in Nat
      BY <2>1, <1>2, <1>5 DEF OnItsWay, Last
    <3> HIDE DEF b
    <3>2. Len(b) # 0 /\ Len(b) # 1
      BY <3>1, <1>2
    <3> QED BY <3>1, <3>2
  <2>4. Last(Front(b)) = b[Len(b) - 1]
    <3> HIDE DEF b
    <3> DEFINE m == Len(b) - 1
    <3>1. m \in Nat /\ m >= 1 /\ m <= Len(b)
      BY <2>3, <1>2
    <3> HIDE DEF m
    <3>2. Len(SubSeq(b, 1, m)) = m /\ SubSeq(b, 1, m)[m] = b[m]
      BY <3>1, <1>2
    <3> QED BY <3>2 DEF Front, Last, m
  <2> QED BY <2>2, <2>3, <2>4
<1>6. /\ Fields \subseteq DOMAIN r /\ r.pc = "names" /\ r.parents = b /\ r.object = object
      /\ r.stack = <<>> /\ r.look = "index_html" /\ r.q = req.q
  BY <1>1 DEF ParentsInv, Fields
<1>0. NullRes \notin Nodes /\ Monsters \subseteq Nodes
  BY TraversalAssumption
<1> HIDE DEF object, r
<1>7. Way(r) /\ OnItsWay(r)
  BY <1>0, <1>1, <1>2, <1>3, <1>6 DEF ParentsInv, Way, OnItsWay
<1>8. MayEnter(Names, r, req.look)
  BY <1>2, <1>4, <1>5, <1>6, <1>7 DEF MayEnter
<1>9. Writes(Names, u)
  BY <1>8, EnteredWrites
<1> HIDE DEF u
<1> QED BY <1>1, <1>9, WritesIsInv

LEMMA EndOfPathWrites ==
    ASSUME NEW Names, ParentsInv, WriteInv(Names), EndOfPath
    PROVE  WriteInv(Names)'
<1> DEFINE object == NotAcquired(req)
           r == [req EXCEPT !.pc = "authorize", !.object = object, !.url = req.last]
<1>1. req.pc = "names" /\ req' = r /\ site' = site
  BY DEF EndOfPath
<1>2. object = Handler => req.object = Handler
  BY TraversalAssumption DEF NotAcquired
<1> HIDE DEF object
<1>3. /\ r.pc = "authorize" /\ r.parents = req.parents /\ r.object = object
      /\ r.look = req.look /\ r.q = req.q /\ r.target = req.target
  BY DEF ParentsInv, Fields
<1> HIDE DEF r
<1>4. Writes(Names, r)
  BY <1>1, <1>2, <1>3 DEF WriteInv, Writes
<1> QED BY <1>1, <1>4, WritesIsInv

\* Once the path is at its end, what is published stays.
LEMMA KeptWrites ==
    ASSUME site' = site, NEW Names, WriteInv(Names), req.pc \in {"authorize", "called"}, Kept(req, req'),
           req'.pc \in {"called", "answered"}
    PROVE  WriteInv(Names)'
BY DEF WriteInv, Writes, Kept, InItsContainer

\* Each step keeps what PUT is called on in its place.
LEMMA WriteStep ==
    ASSUME Built(site), NEW Names, PutIsNoName(Names), ParentsInv, WriteInv(Names), [Next]_vars
    PROVE  WriteInv(Names)'
<1>1. CASE \/ \E n \in Managed, c \in Folders, id \in Titles, wanted \in BOOLEAN, conf \in Namespaces :
                 AddManager(n, c, id, wanted, conf)
           \/ \E n \in Managed : DelObject(n)
           \/ \E n \in Managed, id \in Titles : RenameObject(n, id)
           \/ \E m \in BidManagers, conf \in Namespaces : ChangeBids(m, conf)
           \/ \E m \in SdManagers, wanted \in BOOLEAN : ChangeSDM(m, wanted)
  <2>1. req' = req /\ req.pc = "idle"
    BY <1>1 DEF AddManager, DelObject, RenameObject, ChangeBids, ChangeSDM, Idle
  <2> QED BY <2>1 DEF WriteInv
<1>2. CASE \E q \in Requests : Start(q)
  BY <1>2, StartWrites
<1>3. CASE \E b \in Bids : CallHooks(b)
  BY <1>3, CallHooksWrites
<1>4. CASE NextName
  BY <1>4, NextNameWrites
<1>5. CASE DefaultMethod
  BY <1>5, DefaultMethodWrites
<1>6. CASE EndOfPath
  BY <1>6, EndOfPathWrites
<1>7. CASE Authorize
  BY <1>7, AuthorizeKeeps, KeptWrites
<1>8. CASE \/ \E b \in Bids : UseSession(b)
           \/ \E create \in BOOLEAN, b \in Bids : GetBrowserId(create, b)
           \/ \E b \in Bids \cup {Deleted} : SetCookie(b)
  BY <1>8, SessionKeeps, KeptWrites
<1>9. CASE Respond
  <2>1. req'.pc = "idle"
    BY <1>9 DEF Respond, NoRequest
  <2> QED BY <2>1 DEF WriteInv
<1>10. CASE UNCHANGED vars
  BY <1>10 DEF vars, WriteInv, Writes, InItsContainer
<1> QED BY <1>1, <1>2, <1>3, <1>4, <1>5, <1>6, <1>7, <1>8, <1>9, <1>10 DEF Next

\* PUT is never called on an acquired object (BaseRequest.py): what it is called on is in
\* the container that the path names before it.  Names are those that paths, mappings of
\* hosts and ids of objects put on the stack; none is the name of the method, which
\* traverse adds itself.
THEOREM PutStaysInPlace ==
    ASSUME NEW Names, PutIsNoName(Names)
    PROVE  Spec => []NothingAcquiredIsWritten
<1>1. Init => ParentsInv /\ WriteInv(Names)
  <2>1. Init => WriteInv(Names)
    BY DEF Init, NoRequest, WriteInv
  <2> QED BY <2>1, ParentsInit
<1>2. Built(site) /\ ParentsInv /\ WriteInv(Names) /\ [Next]_vars => ParentsInv' /\ WriteInv(Names)'
  BY ParentsStep, WriteStep
<1>3. WriteInv(Names) => NothingAcquiredIsWritten
  BY DEF WriteInv, Writes, InItsContainer, NothingAcquiredIsWritten
<1> QED BY <1>1, <1>2, <1>3, SiteStaysBuilt, PTL DEF Spec

=============================================================================
