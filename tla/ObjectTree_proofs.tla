------------------------- MODULE ObjectTree_proofs -------------------------
(***************************************************************************)
(* Theorems about the containers and the WebDAV methods over them, for any *)
(* objects, folders, ids and lock tokens.                                  *)
(*                                                                         *)
(* IndexIsExact is not inductive: it says what Below and Located compute,  *)
(* and not why an operation keeps it.  Rooted says it of a set of objects  *)
(* and of what is above each: what is in a folder has the folder and what  *)
(* is above the folder above it, and nothing is above itself.  From there  *)
(* come the depths, the paths, and what the two operators find in as many  *)
(* turns as there are folders.  A site is Sound if its objects are Rooted, *)
(* the lists of the folders are exact, the catalog holds the objects at    *)
(* their paths, and what is outside the tree is empty.                     *)
(*                                                                         *)
(* _delObject prunes the tree and _setObject grafts another on it; what    *)
(* the operations do is put together from these two.  ClipInv is needed    *)
(* for the paste: the clipboard holds paths that are not that of the root, *)
(* and what is found at such a path, by acquisition too, is in the tree.   *)
(*                                                                         *)
(* OrderIsKept is about steps.  SameBut says of a change of a folder which *)
(* ids it touches, and that the others have the same objects in the same   *)
(* order: _delObject, _setObject and moveObjectToPosition touch one each.  *)
(* What is in a folder before and after a step then has its order, if no   *)
(* object that stays has a touched id; the renaming in an ordered folder   *)
(* is the one step where it has, and ToItsPlace says that each object is   *)
(* at its place.                                                           *)
(*                                                                         *)
(* LocksFit is not inductive either: UNLOCK, which takes a token from all  *)
(* the members of a collection, would leave a LockNullResource among them  *)
(* without its lock.  LocksOk adds why that cannot be: a LockNullResource  *)
(* never has the lock of the collection it is in.  It gets its own when it *)
(* is made, a LOCK of the collection with Depth: infinity finds it locked  *)
(* or sweeps it away, and a copy takes the members' locks as they are.     *)
(* What is outside the tree has no lock.                                   *)
(*                                                                         *)
(* DeepIsWhole is about steps.  Only LOCK gives a folder of the tree a     *)
(* lock, and only UNLOCK takes one back with nothing moved; DeepStaysWhole *)
(* says so of each method, with what LOCK's sweep leaves of the members.   *)
(***************************************************************************)
EXTENDS WebDAV, Lists

-----------------------------------------------------------------------------
(* Lists of ids *)

\* What a list keeps of its first elements
Parts(f, seq, kept) ==
    /\ f[0] = <<>>
    /\ \A k \in 1 .. Len(seq) : f[k] = IF seq[k] \in kept THEN Append(f[k - 1], seq[k]) ELSE f[k - 1]

\* Only is the last of the lists that it is built from, element by element.
LEMMA OnlyParts ==
    ASSUME NEW S, NEW seq \in Seq(S), NEW kept
    PROVE  \E f \in [0 .. Len(seq) -> Seq(S)] : Parts(f, seq, kept) /\ Only(seq, kept) = f[Len(seq)]
<1> DEFINE L == Len(seq)
           D == Seq(S)
           G == [p \in (Nat \ {0}) \X D |->
                   IF p[1] \in 1 .. L /\ seq[p[1]] \in kept THEN Append(p[2], seq[p[1]]) ELSE p[2]]
           part[k \in 0 .. L] ==
             IF k = 0 THEN <<>>
             ELSE IF seq[k] \in kept THEN Append(part[k - 1], seq[k]) ELSE part[k - 1]
<1>1. Only(seq, kept) = part[L]
  BY DEF Only
<1>2. L \in Nat /\ <<>> \in D /\ DOMAIN seq = 1 .. L /\ \A k \in 1 .. L : seq[k] \in S
  OBVIOUS
<1>3. G \in [(Nat \ {0}) \X D -> D]
  BY <1>2
<1>4. part \in [0 .. L -> D] /\ Parts(part, seq, kept)
  <2>1. PICK f \in [0 .. L -> D] : RunsOf(f, <<>>, G, L)
    <3> HIDE DEF D, G, L
    <3> QED BY <1>2, <1>3, RunsDefined
  <2>2. ASSUME NEW k \in 0 .. L, k # 0
        PROVE  f[k] = IF seq[k] \in kept THEN Append(f[k - 1], seq[k]) ELSE f[k - 1]
    <3>0. k \in 1 .. L /\ k - 1 \in 0 .. L
      BY <1>2, <2>2
    <3>1. k \in 1 .. L /\ f[k - 1] \in D
      <4> HIDE DEF D, L
      <4> QED BY <3>0, <2>1
    <3>2. f[k] = G[<<k, f[k - 1]>>]
      <4> HIDE DEF D, G
      <4> QED BY <2>1, <2>2 DEF RunsOf
    <3> QED BY <3>1, <3>2
  <2>3. f = [k \in 0 .. L |-> IF k = 0 THEN <<>>
                              ELSE IF seq[k] \in kept THEN Append(f[k - 1], seq[k]) ELSE f[k - 1]]
    <3>1. f[0] = <<>> /\ f = [k \in 0 .. L |-> f[k]]
      BY <2>1, <1>2 DEF RunsOf
    <3> HIDE DEF D, G, L
    <3> QED BY <2>2, <3>1
  <2>4. part = [k \in 0 .. L |-> IF k = 0 THEN <<>>
                                 ELSE IF seq[k] \in kept THEN Append(part[k - 1], seq[k]) ELSE part[k - 1]]
    <3> HIDE DEF L
    <3> QED BY <2>3, Zenon
  <2> HIDE DEF part, L
  <2>5. part[0] = <<>>
    BY <2>4, <1>2
  <2>6. ASSUME NEW k \in 1 .. L
        PROVE  part[k] = IF seq[k] \in kept THEN Append(part[k - 1], seq[k]) ELSE part[k - 1]
    <3>1. k \in 0 .. L /\ k # 0
      BY <1>2
    <3> QED BY <2>4, <3>1
  <2>7. part \in [0 .. L -> D]
    <3> DEFINE H == {k \in Nat : k <= L => part[k] \in D}
    <3> HIDE DEF D
    <3>1. 0 \in H
      BY <1>2, <2>5
    <3>2. ASSUME NEW k \in Nat, k \in H PROVE k + 1 \in H
      <4> SUFFICES ASSUME k + 1 <= L PROVE part[k + 1] \in D
        OBVIOUS
      <4>1. part[k] \in D /\ k + 1 \in 1 .. L /\ (k + 1) - 1 = k
        BY <1>2, <3>2
      <4>2. part[k + 1] = IF seq[k + 1] \in kept THEN Append(part[k], seq[k + 1]) ELSE part[k]
        BY <2>6, <4>1
      <4> QED BY <1>2, <4>1, <4>2 DEF D
    <3>3. Nat \subseteq H
      <4> HIDE DEF H
      <4> QED BY <3>1, <3>2, NatSetInduction
    <3>4. \A k \in 0 .. L : part[k] \in D
      BY <1>2, <3>3
    <3>5. part = [k \in 0 .. L |-> part[k]]
      BY <2>4, Zenon
    <3> QED BY <3>4, <3>5
  <2> QED BY <2>5, <2>6, <2>7 DEF Parts, L
<1> HIDE DEF part
<1> QED BY <1>1, <1>4

\* What a list holds when it keeps some elements only.
LEMMA OnlyIs ==
    ASSUME NEW S, NEW seq \in Seq(S), NEW kept
    PROVE  /\ Only(seq, kept) \in Seq(S)
           /\ ToSet(Only(seq, kept)) = ToSet(seq) \cap kept
           /\ OnceIn(seq, S) => OnceIn(Only(seq, kept), S)
<1> DEFINE L == Len(seq)
<1>0. PICK part \in [0 .. L -> Seq(S)] : Parts(part, seq, kept) /\ Only(seq, kept) = part[L]
  BY OnlyParts
<1>1. Only(seq, kept) = part[L]
  BY <1>0
<1>2. L \in Nat /\ <<>> \in Seq(S) /\ DOMAIN seq = 1 .. L /\ \A k \in 1 .. L : seq[k] \in S
  OBVIOUS
<1>4. /\ part[0] = <<>>
      /\ \A k \in 1 .. L : part[k] = IF seq[k] \in kept THEN Append(part[k - 1], seq[k]) ELSE part[k - 1]
  BY <1>0 DEF Parts
<1> DEFINE Holds(k) == /\ part[k] \in Seq(S)
                       /\ ToSet(part[k]) = {seq[j] : j \in 1 .. k} \cap kept
                       /\ OnceIn(seq, S) => OnceIn(part[k], S)
           F == {k \in Nat : k <= L => Holds(k)}
<1>5. 0 \in F
  <2>1. ToSet(<<>>) = {} /\ OnceIn(<<>>, S) /\ {seq[j] : j \in 1 .. 0} = {}
    BY EmptyList DEF ToSet
  <2>2. Holds(0)
    BY <2>1, <1>2, <1>4
  <2> QED BY <2>2
<1>6. ASSUME NEW k \in Nat, k \in F PROVE k + 1 \in F
  <2> SUFFICES ASSUME k + 1 <= L PROVE Holds(k + 1)
    OBVIOUS
  <2>1. Holds(k) /\ k + 1 \in 1 .. L
    BY <1>6, <1>2
  <2>2. {seq[j] : j \in 1 .. k + 1} = {seq[j] : j \in 1 .. k} \cup {seq[k + 1]} /\ seq[k + 1] \in S
    BY <2>1, <1>2
  <2>3. part[k + 1] = IF seq[k + 1] \in kept THEN Append(part[k], seq[k + 1]) ELSE part[k]
    BY <2>1, <1>4
  <2>4. CASE seq[k + 1] \notin kept
    BY <2>1, <2>2, <2>3, <2>4
  <2>5. CASE seq[k + 1] \in kept
    <3> DEFINE b == part[k]
               x == seq[k + 1]
    <3>1. b \in Seq(S) /\ x \in S /\ part[k + 1] = Append(b, x)
      BY <2>1, <2>2, <2>3, <2>5
    <3>2. \A t : ToSet(t) = Range(t)
      BY DEF ToSet, Range
    <3>3. OnceIn(seq, S) => x \notin {seq[j] : j \in 1 .. k}
      BY <2>1, <2>2, <1>2 DEF OnceIn
    <3> HIDE DEF b, x
    <3>4. Append(b, x) \in Seq(S) /\ Range(Append(b, x)) = Range(b) \cup {x}
      BY <3>1, AppendRange
    <3>5. OnceIn(b, S) /\ x \notin Range(b) => OnceIn(Append(b, x), S)
      BY <3>1, OnceAppend
    <3>6. part[k + 1] \in Seq(S)
      BY <3>1, <3>4
    <3>7. ToSet(part[k + 1]) = {seq[j] : j \in 1 .. k + 1} \cap kept
      BY <2>1, <2>2, <2>5, <3>1, <3>2, <3>4 DEF b, x
    <3>8. OnceIn(seq, S) => OnceIn(part[k + 1], S)
      BY <2>1, <3>1, <3>2, <3>3, <3>5 DEF b
    <3> QED BY <3>6, <3>7, <3>8
  <2> QED BY <2>4, <2>5
<1>7. Nat \subseteq F
  <2> HIDE DEF F
  <2> QED BY <1>5, <1>6, NatSetInduction
<1>8. Holds(L)
  <2> HIDE DEF Holds
  <2> QED BY <1>7, <1>2
<1>9. {seq[j] : j \in 1 .. L} = ToSet(seq)
  BY <1>2 DEF ToSet
<1> QED BY <1>1, <1>8, <1>9

-----------------------------------------------------------------------------
(* Trees *)

SiteType == [list : [Folders -> Seq(Ids)], attr : [Folders -> [Ids -> Nodes \cup {NoNode}]],
             index : SUBSET (Seq(Ids) \X Nodes)]

\* The objects T are a tree from r on in which A tells what is above each, itself included.
Rooted(s, r, T, A) ==
    /\ T \in SUBSET Nodes /\ r \in T /\ A \in [T -> SUBSET T] /\ A[r] = {r}
    /\ \A n \in T : /\ n \in A[n] /\ A[n] \ {n} \subseteq Folders
                    /\ \A m \in A[n] : A[m] \subseteq A[n]
    /\ \A c \in T \cap Folders, i \in Ids : s.attr[c][i] # NoNode =>
          /\ s.attr[c][i] \in T \ {r} /\ s.attr[c][i] \notin A[c]
          /\ A[s.attr[c][i]] = {s.attr[c][i]} \cup A[c]
    /\ \A n \in T \ {r} : \E c \in T \cap Folders, i \in Ids : s.attr[c][i] = n
    /\ \A c, d \in T \cap Folders, i, j \in Ids :
          s.attr[c][i] # NoNode /\ s.attr[c][i] = s.attr[d][j] => c = d /\ i = j

\* How deep an object is, from 1 on
Depth(A, n) == Cardinality(A[n])
UpToDepth(T, A, k) == {n \in T : Depth(A, n) <= k}

\* The objects and the ids are finitely many.
LEMMA FinitelyMany ==
    /\ IsFiniteSet(Folders) /\ IsFiniteSet(Ids) /\ Cardinality(Folders) \in Nat
    /\ \A T \in SUBSET Nodes : IsFiniteSet(T)
    /\ NoNode \notin Nodes /\ Root \in Nodes /\ Folders \subseteq Nodes /\ Root \in Folders
BY TreeAssumption, FS_Subset, FS_CardinalityType

\* What is in a folder of the tree
LEMMA KidIs ==
    ASSUME NEW s, NEW r, NEW T, NEW A, Rooted(s, r, T, A), NEW c \in T \cap Folders, NEW i \in Ids,
           NEW n, s.attr[c][i] = n, n # NoNode
    PROVE  /\ n \in T /\ n # r /\ n \in Nodes /\ n \notin A[c] /\ A[n] = {n} \cup A[c] /\ c \in A[n]
<1>1. /\ n \in T \ {r} /\ n \notin A[c] /\ A[n] = {n} \cup A[c]
  BY DEF Rooted
<1>2. T \subseteq Nodes /\ c \in A[c]
  BY DEF Rooted
<1> QED BY <1>1, <1>2

\* What is in a folder is one deeper, and nothing is deeper than there are folders.
LEMMA DepthIs ==
    ASSUME NEW s, NEW r, NEW T, NEW A, Rooted(s, r, T, A)
    PROVE  /\ \A n \in T : Depth(A, n) \in 1 .. Cardinality(Folders) + 1
           /\ \A n \in T : Depth(A, n) = 1 <=> n = r
           /\ \A c \in T \cap Folders, i \in Ids : s.attr[c][i] # NoNode =>
                 Depth(A, s.attr[c][i]) = Depth(A, c) + 1
<1>1. \A n \in T : IsFiniteSet(A[n]) /\ n \in A[n] /\ IsFiniteSet(A[n] \ {n})
  BY FinitelyMany DEF Rooted
<1>2. ASSUME NEW n \in T PROVE Depth(A, n) \in 1 .. Cardinality(Folders) + 1
  <2>1. A[n] \ {n} \subseteq Folders /\ n \in A[n] /\ IsFiniteSet(A[n])
    BY <1>1 DEF Rooted
  <2>2. Cardinality(A[n] \ {n}) <= Cardinality(Folders) /\ Cardinality(A[n] \ {n}) \in Nat
    BY <2>1, FinitelyMany, FS_Subset, FS_CardinalityType
  <2>3. Cardinality(A[n] \ {n}) = Cardinality(A[n]) - 1 /\ Cardinality(A[n]) \in Nat
    BY <2>1, FS_RemoveElement, FS_CardinalityType
  <2> QED BY <2>2, <2>3, FinitelyMany DEF Depth
<1>3. ASSUME NEW c \in T \cap Folders, NEW i \in Ids, s.attr[c][i] # NoNode
      PROVE  Depth(A, s.attr[c][i]) = Depth(A, c) + 1
  <2> DEFINE n == s.attr[c][i]
  <2>1. A[n] = A[c] \cup {n} /\ n \notin A[c] /\ IsFiniteSet(A[c])
    <3>1. n # NoNode /\ s.attr[c][i] = n /\ IsFiniteSet(A[c])
      BY <1>1, <1>3
    <3> HIDE DEF n
    <3> QED BY <3>1, KidIs
  <2> HIDE DEF n
  <2>2. Cardinality(A[n]) = Cardinality(A[c]) + 1
    BY <2>1, FS_AddElement
  <2> QED BY <2>2 DEF Depth, n
<1>4. ASSUME NEW n \in T PROVE Depth(A, n) = 1 <=> n = r
  <2>1. CASE n = r
    BY <2>1, FS_Singleton DEF Rooted, Depth
  <2>2. CASE n # r
    <3>1. PICK c \in T \cap Folders, i \in Ids : s.attr[c][i] = n
      BY <2>2 DEF Rooted
    <3>2. n # NoNode /\ Depth(A, c) \in 1 .. Cardinality(Folders) + 1
      BY <1>2, FinitelyMany DEF Rooted
    <3>3. Depth(A, n) = Depth(A, c) + 1
      BY <1>3, <3>1, <3>2
    <3> QED BY <2>2, <3>2, <3>3, FinitelyMany
  <2> QED BY <2>1, <2>2
<1> QED BY <1>2, <1>3, <1>4

\* Its folder is less deep.
LEMMA FolderIs ==
    ASSUME NEW s, NEW r, NEW T, NEW A, Rooted(s, r, T, A), NEW n \in T \ {r}
    PROVE  \E c \in T \cap Folders, i \in Ids :
              s.attr[c][i] = n /\ n # NoNode /\ Depth(A, n) = Depth(A, c) + 1
<1>1. PICK c \in T \cap Folders, i \in Ids : s.attr[c][i] = n
  BY DEF Rooted
<1>2. n # NoNode
  BY FinitelyMany DEF Rooted
<1> QED BY <1>1, <1>2, DepthIs

\* Below finds the tree.
LEMMA BelowIs ==
    ASSUME NEW s, s.attr \in [Folders -> [Ids -> Nodes \cup {NoNode}]], NEW r, NEW T, NEW A, Rooted(s, r, T, A)
    PROVE  Below(s, r) = T
<1> DEFINE K == Cardinality(Folders)
           D == SUBSET Nodes
           G == [above \in D |-> WithKids(s, above)]
           down[k \in 0 .. K] == IF k = 0 THEN {r} ELSE WithKids(s, down[k - 1])
<1>1. Below(s, r) = down[K]
  BY DEF Below
<1>2. K \in Nat /\ {r} \in D /\ T \in D
  BY FinitelyMany DEF Rooted
<1>3. G \in [D -> D]
  BY DEF WithKids
<1>4. /\ down[0] = {r}
      /\ \A k \in 0 .. K : k # 0 => down[k] = WithKids(s, down[k - 1])
  <2>1. PICK f \in [0 .. K -> D] : Iterates(f, {r}, G, K)
    <3> HIDE DEF D, G
    <3> QED BY <1>2, <1>3, StepsDefined
  <2>2. ASSUME NEW k \in 0 .. K, k # 0 PROVE f[k] = WithKids(s, f[k - 1])
    <3>0. k - 1 \in 0 .. K
      BY <2>2, <1>2
    <3>1. k - 1 \in 0 .. K /\ f[k] = G[f[k - 1]]
      <4> HIDE DEF D, G, K
      <4> QED BY <3>0, <2>1, <2>2 DEF Iterates
    <3>2. f[k - 1] \in D
      <4> HIDE DEF D, G
      <4> QED BY <3>1
    <3> QED BY <3>1, <3>2
  <2>3. f = [k \in 0 .. K |-> IF k = 0 THEN {r} ELSE WithKids(s, f[k - 1])]
    <3>1. f[0] = {r} /\ f = [k \in 0 .. K |-> f[k]]
      BY <2>1, <1>2 DEF Iterates
    <3> HIDE DEF D, G, K
    <3> QED BY <2>2, <3>1
  <2>4. down = [k \in 0 .. K |-> IF k = 0 THEN {r} ELSE WithKids(s, down[k - 1])]
    <3> HIDE DEF K
    <3> QED BY <2>3, Zenon
  <2> HIDE DEF down, K
  <2>5. down[0] = {r}
    BY <2>4, <1>2
  <2>6. ASSUME NEW k \in 0 .. K, k # 0 PROVE down[k] = WithKids(s, down[k - 1])
    BY <2>4, <2>6
  <2> QED BY <2>5, <2>6
<1> DEFINE F == {k \in Nat : k <= K => down[k] = UpToDepth(T, A, k + 1)}
<1> HIDE DEF down
<1>5. 0 \in F
  <2>1. UpToDepth(T, A, 1) = {r}
    <3>1. r \in T
      BY DEF Rooted
    <3>2. \A n \in T : Depth(A, n) <= 1 <=> n = r
      BY DepthIs, FinitelyMany
    <3> QED BY <3>1, <3>2 DEF UpToDepth
  <2>2. down[0] = UpToDepth(T, A, 0 + 1)
    BY <2>1, <1>4
  <2> QED BY <2>2
<1>6. ASSUME NEW k \in Nat, k \in F PROVE k + 1 \in F
  <2> SUFFICES ASSUME k + 1 <= K PROVE down[k + 1] = UpToDepth(T, A, k + 2)
    OBVIOUS
  <2> DEFINE U == UpToDepth(T, A, k + 1)
             Kids(above) == {s.attr[c][i] : c \in above \cap Folders, i \in Ids} \ {NoNode}
  <2>1. down[k + 1] = U \cup Kids(U)
    <3>1. down[k + 1] = WithKids(s, down[k])
      BY <1>2, <1>4
    <3> QED BY <1>2, <1>6, <3>1 DEF WithKids
  <2>2. \A n \in T : Depth(A, n) \in Nat
    BY DepthIs, FinitelyMany
  <2>3. U \subseteq UpToDepth(T, A, k + 2)
    BY <2>2 DEF UpToDepth
  <2>4. ASSUME NEW n \in Kids(U) PROVE n \in UpToDepth(T, A, k + 2)
    <3>1. PICK c \in U \cap Folders, i \in Ids : n = s.attr[c][i] /\ n # NoNode
      OBVIOUS
    <3>2. c \in T \cap Folders /\ Depth(A, c) <= k + 1
      BY <3>1 DEF UpToDepth
    <3>3. n \in T /\ Depth(A, n) = Depth(A, c) + 1
      BY <3>1, <3>2, KidIs, DepthIs
    <3> QED BY <3>2, <3>3, <2>2 DEF UpToDepth
  <2>5. ASSUME NEW n \in UpToDepth(T, A, k + 2) PROVE n \in U \cup Kids(U)
    <3>1. CASE n = r
      <4>1. r \in U
        BY <3>1, DepthIs, FinitelyMany DEF Rooted, UpToDepth
      <4> QED BY <3>1, <4>1
    <3>2. CASE n # r
      <4>1. PICK c \in T \cap Folders, i \in Ids :
                    s.attr[c][i] = n /\ n # NoNode /\ Depth(A, n) = Depth(A, c) + 1
        BY <2>5, <3>2, FolderIs DEF UpToDepth
      <4>2. c \in U
        BY <4>1, <2>2, <2>5 DEF UpToDepth
      <4> QED BY <4>1, <4>2
    <3> QED BY <3>1, <3>2
  <2> HIDE DEF Kids, U
  <2> QED BY <2>1, <2>3, <2>4, <2>5
<1>7. K \in F
  <2> HIDE DEF F
  <2> QED BY <1>2, <1>5, <1>6, NatSetInduction
<1>8. UpToDepth(T, A, K + 1) = T
  BY DepthIs, FinitelyMany DEF UpToDepth
<1> QED BY <1>1, <1>2, <1>7, <1>8

-----------------------------------------------------------------------------
(* Paths *)

\* P tells the paths of the objects of a tree.
IsPaths(s, r, T, P) ==
    /\ P \in [T -> Seq(Ids)] /\ P[r] = <<>>
    /\ \A c \in T \cap Folders, i \in Ids : s.attr[c][i] # NoNode => P[s.attr[c][i]] = Append(P[c], i)

\* The same up to a depth
PathsTo(s, r, T, A, k, f) ==
    /\ f \in [UpToDepth(T, A, k) -> Seq(Ids)] /\ f[r] = <<>>
    /\ \A c \in T \cap Folders, i \in Ids :
          s.attr[c][i] # NoNode /\ s.attr[c][i] \in UpToDepth(T, A, k) => f[s.attr[c][i]] = Append(f[c], i)

\* The paths of a tree are defined one depth after the other.
LEMMA DeeperPaths ==
    ASSUME NEW s, NEW r, NEW T, NEW A, Rooted(s, r, T, A), NEW k \in Nat, k # 0,
           NEW f, PathsTo(s, r, T, A, k, f)
    PROVE  \E g : PathsTo(s, r, T, A, k + 1, g)
<1> DEFINE U == UpToDepth(T, A, k)
           V == UpToDepth(T, A, k + 1)
           In(n) == CHOOSE c \in T \cap Folders : \E i \in Ids : s.attr[c][i] = n
           Id(n) == CHOOSE i \in Ids : s.attr[In(n)][i] = n
           g == [n \in V |-> IF n \in U THEN f[n] ELSE Append(f[In(n)], Id(n))]
<1>1. \A n \in T : Depth(A, n) \in Nat \ {0}
  BY DepthIs, FinitelyMany
<1>2. r \in U /\ U \subseteq V
  <2>0. r \in T
    BY DEF Rooted
  <2>1. Depth(A, r) = 1
    BY <2>0, DepthIs
  <2> QED BY <1>1, <2>0, <2>1 DEF UpToDepth
<1>3. ASSUME NEW c \in T \cap Folders, NEW i \in Ids, s.attr[c][i] # NoNode
      PROVE  In(s.attr[c][i]) = c /\ Id(s.attr[c][i]) = i
  <2> DEFINE n == s.attr[c][i]
  <2>1. In(n) \in T \cap Folders /\ \E j \in Ids : s.attr[In(n)][j] = n
    OBVIOUS
  <2>2. \A d \in T \cap Folders, j \in Ids : s.attr[d][j] = n => d = c /\ j = i
    BY <1>3 DEF Rooted
  <2>3. In(n) = c
    BY <2>1, <2>2
  <2>4. Id(n) \in Ids /\ s.attr[c][Id(n)] = n
    BY <2>3
  <2> QED BY <2>2, <2>3, <2>4
<1>4. \A c \in T \cap Folders, i \in Ids : s.attr[c][i] # NoNode => s.attr[c][i] \in T /\ Depth(A, s.attr[c][i]) = Depth(A, c) + 1
  BY KidIs, DepthIs
<1>5. \A c \in T \cap Folders, i \in Ids : s.attr[c][i] # NoNode /\ s.attr[c][i] \in V => c \in U
  BY <1>1, <1>4 DEF UpToDepth
<1> HIDE DEF In, Id
<1>6. ASSUME NEW n \in V PROVE g[n] \in Seq(Ids)
  <2>1. CASE n \in U
    BY <2>1 DEF PathsTo
  <2>2. CASE n \notin U
    <3>1. n \in T \ {r}
      BY <2>2, <1>2 DEF UpToDepth
    <3>2. PICK c \in T \cap Folders, i \in Ids : s.attr[c][i] = n /\ n # NoNode
      BY <3>1, FolderIs
    <3>3. In(n) = c /\ Id(n) = i /\ c \in U
      BY <3>2, <1>3, <1>5
    <3>4. f[c] \in Seq(Ids)
      BY <3>3 DEF PathsTo
    <3>5. g[n] = Append(f[c], i)
      BY <2>2, <3>3
    <3> HIDE DEF g
    <3> QED BY <3>4, <3>5
  <2> QED BY <2>1, <2>2
<1>7. g \in [V -> Seq(Ids)]
  BY <1>6
<1>8. g[r] = <<>>
  BY <1>2 DEF PathsTo
<1>9. ASSUME NEW c \in T \cap Folders, NEW i \in Ids, s.attr[c][i] # NoNode, s.attr[c][i] \in V
      PROVE  g[s.attr[c][i]] = Append(g[c], i)
  <2>1. c \in U /\ g[c] = f[c]
    BY <1>2, <1>5, <1>9
  <2>2. CASE s.attr[c][i] \in U
    BY <1>9, <2>1, <2>2 DEF PathsTo
  <2>3. CASE s.attr[c][i] \notin U
    BY <1>3, <1>9, <2>1, <2>3
  <2> QED BY <2>2, <2>3
<1> HIDE DEF g
<1> QED BY <1>7, <1>8, <1>9 DEF PathsTo

\* A tree has paths.
LEMMA PathsExist ==
    ASSUME NEW s, NEW r, NEW T, NEW A, Rooted(s, r, T, A)
    PROVE  \E P : IsPaths(s, r, T, P)
<1> DEFINE N == {k \in Nat : \E f : PathsTo(s, r, T, A, k + 1, f)}
<1>1. 0 \in N
  <2> DEFINE f == [n \in UpToDepth(T, A, 1) |-> <<>>]
  <2>1. \A n \in T : Depth(A, n) \in Nat \ {0} /\ (Depth(A, n) = 1 <=> n = r)
    BY DepthIs, FinitelyMany
  <2>2. UpToDepth(T, A, 1) = {r}
    <3>1. r \in T
      BY DEF Rooted
    <3> QED BY <2>1, <3>1 DEF UpToDepth
  <2>3. \A c \in T \cap Folders, i \in Ids : s.attr[c][i] # NoNode => s.attr[c][i] # r
    BY KidIs
  <2>4. PathsTo(s, r, T, A, 1, f)
    BY <2>2, <2>3 DEF PathsTo
  <2> HIDE DEF f
  <2> QED BY <2>4
<1>2. ASSUME NEW k \in Nat, k \in N PROVE k + 1 \in N
  <2>1. PICK f : PathsTo(s, r, T, A, k + 1, f)
    BY <1>2
  <2>2. k + 1 \in Nat /\ k + 1 # 0
    OBVIOUS
  <2>3. \E g : PathsTo(s, r, T, A, (k + 1) + 1, g)
    BY <2>1, <2>2, DeeperPaths
  <2> QED BY <2>3
<1>3. Nat \subseteq N
  <2> HIDE DEF N
  <2> QED BY <1>1, <1>2, NatSetInduction
<1>4. Cardinality(Folders) \in Nat
  BY FinitelyMany
<1>5. PICK f : PathsTo(s, r, T, A, Cardinality(Folders) + 1, f)
  BY <1>3, <1>4
<1>6. UpToDepth(T, A, Cardinality(Folders) + 1) = T
  BY <1>4, DepthIs DEF UpToDepth
<1>7. IsPaths(s, r, T, f)
  BY <1>5, <1>6, KidIs DEF PathsTo, IsPaths
<1> QED BY <1>7

\* A path is as long as its object is deep.
LEMMA PathLength ==
    ASSUME NEW s, NEW r, NEW T, NEW A, Rooted(s, r, T, A), NEW P, IsPaths(s, r, T, P)
    PROVE  \A n \in T : Len(P[n]) + 1 = Depth(A, n)
<1> DEFINE N == {k \in Nat : \A n \in T : Depth(A, n) = k + 1 => Len(P[n]) = k}
<1>1. 0 \in N
  BY DepthIs DEF IsPaths
<1>2. ASSUME NEW k \in Nat, k \in N PROVE k + 1 \in N
  <2>1. ASSUME NEW n \in T, Depth(A, n) = k + 2 PROVE Len(P[n]) = k + 1
    <3>1. n # r
      BY <2>1, DepthIs
    <3>2. PICK c \in T \cap Folders, i \in Ids : s.attr[c][i] = n /\ n # NoNode /\ Depth(A, n) = Depth(A, c) + 1
      BY <3>1, FolderIs
    <3>3. P[n] = Append(P[c], i) /\ P[c] \in Seq(Ids)
      BY <3>2 DEF IsPaths
    <3>4. Depth(A, c) \in Nat
      BY DepthIs, FinitelyMany
    <3>5. Len(P[c]) = k
      BY <1>2, <2>1, <3>2, <3>4
    <3> QED BY <3>3, <3>5
  <2> QED BY <2>1
<1>3. Nat \subseteq N
  <2> HIDE DEF N
  <2> QED BY <1>1, <1>2, NatSetInduction
<1>4. \A n \in T : Depth(A, n) - 1 \in Nat /\ Depth(A, n) = (Depth(A, n) - 1) + 1
  BY DepthIs, FinitelyMany
<1>5. ASSUME NEW n \in T PROVE Len(P[n]) + 1 = Depth(A, n)
  <2>1. Depth(A, n) - 1 \in N
    BY <1>3, <1>4
  <2>2. Len(P[n]) = Depth(A, n) - 1
    BY <1>4, <2>1
  <2> QED BY <1>4, <2>2
<1> QED BY <1>5

\* Two objects have two paths.
LEMMA PathsDiffer ==
    ASSUME NEW s, NEW r, NEW T, NEW A, Rooted(s, r, T, A), NEW P, IsPaths(s, r, T, P)
    PROVE  \A m, n \in T : P[m] = P[n] => m = n
<1> DEFINE N == {k \in Nat : \A m, n \in T : Depth(A, n) = k + 1 /\ P[m] = P[n] => m = n}
<1>0. \A n \in T : Len(P[n]) + 1 = Depth(A, n)
  BY PathLength
<1>1. 0 \in N
  <2>1. ASSUME NEW m \in T, NEW n \in T, Depth(A, n) = 0 + 1, P[m] = P[n] PROVE m = n
    <3>1. Depth(A, m) = Depth(A, n)
      BY <1>0, <2>1
    <3> QED BY <2>1, <3>1, DepthIs
  <2> QED BY <2>1
<1>2. ASSUME NEW k \in Nat, k \in N PROVE k + 1 \in N
  <2>1. ASSUME NEW m \in T, NEW n \in T, Depth(A, n) = k + 2, P[m] = P[n] PROVE m = n
    <3>1. n # r /\ m # r /\ Depth(A, m) = Depth(A, n)
      BY <1>0, <2>1, DepthIs
    <3>2. PICK c \in T \cap Folders, i \in Ids : s.attr[c][i] = n /\ n # NoNode /\ Depth(A, n) = Depth(A, c) + 1
      BY <3>1, FolderIs
    <3>3. PICK d \in T \cap Folders, j \in Ids : s.attr[d][j] = m /\ m # NoNode /\ Depth(A, m) = Depth(A, d) + 1
      BY <3>1, FolderIs
    <3>4. P[n] = Append(P[c], i) /\ P[c] \in Seq(Ids) /\ P[m] = Append(P[d], j) /\ P[d] \in Seq(Ids)
      BY <3>2, <3>3 DEF IsPaths
    <3>5. P[c] = P[d] /\ i = j
      <4>1. P[c] \in Seq(Ids) /\ P[d] \in Seq(Ids) /\ i \in Ids /\ j \in Ids /\ Append(P[c], i) = Append(P[d], j)
        BY <2>1, <3>4
      <4> HIDE DEF N
      <4> QED BY <4>1, AppendInjective
    <3>6. Depth(A, c) \in Nat
      BY DepthIs, FinitelyMany
    <3>7. d = c
      BY <1>2, <2>1, <3>2, <3>5, <3>6
    <3> QED BY <3>2, <3>3, <3>5, <3>7
  <2> QED BY <2>1
<1>3. Nat \subseteq N
  <2> HIDE DEF N
  <2> QED BY <1>1, <1>2, NatSetInduction
<1>4. ASSUME NEW m \in T, NEW n \in T, P[m] = P[n] PROVE m = n
  <2>1. Depth(A, n) - 1 \in Nat /\ Depth(A, n) = (Depth(A, n) - 1) + 1
    BY DepthIs, FinitelyMany
  <2>2. Depth(A, n) - 1 \in N
    BY <1>3, <2>1
  <2> QED BY <1>4, <2>1, <2>2
<1> QED BY <1>4

\* _objects of a folder lists the ids of its attributes, once.
Listed(s, c) == ToSet(s.list[c]) = {i \in Ids : s.attr[c][i] # NoNode} /\ OnceIn(s.list[c], Ids)

AllListed(s) == \A c \in Folders : Listed(s, c)

\* Objects with their paths
Places(P, T) == {<<P[n], n>> : n \in T}

\* The same up to a depth
PlacesUpTo(T, A, P, k) == {<<P[n], n>> : n \in UpToDepth(T, A, k)}

\* Reached finds what is one deeper.
LEMMA ReachedIs ==
    ASSUME NEW s, NEW r, NEW T, NEW A, Rooted(s, r, T, A), NEW P, IsPaths(s, r, T, P),
           AllListed(s), NEW k \in Nat
    PROVE  Reached(s, PlacesUpTo(T, A, P, k + 1), k) = PlacesUpTo(T, A, P, k + 2)
<1> DEFINE U == PlacesUpTo(T, A, P, k + 1)
           V == PlacesUpTo(T, A, P, k + 2)
           R == Reached(s, U, k)
<1>1. \A n \in T : Depth(A, n) \in Nat \ {0} /\ Len(P[n]) + 1 = Depth(A, n) /\ P[n] \in Seq(Ids)
  <2>1. \A n \in T : Depth(A, n) \in Nat \ {0}
    BY DepthIs, FinitelyMany
  <2>2. \A n \in T : Len(P[n]) + 1 = Depth(A, n)
    BY PathLength
  <2>3. \A n \in T : P[n] \in Seq(Ids)
    BY DEF IsPaths
  <2> QED BY <2>1, <2>2, <2>3
<1>2. U \subseteq V
  <2>1. UpToDepth(T, A, k + 1) \subseteq UpToDepth(T, A, k + 2)
    BY <1>1 DEF UpToDepth
  <2> QED BY <2>1 DEF PlacesUpTo
<1>3. ASSUME NEW e \in U, e[2] \in Folders, Len(e[1]) = k, NEW i \in ToSet(s.list[e[2]])
      PROVE  <<Append(e[1], i), s.attr[e[2]][i]>> \in V
  <2>1. PICK c \in UpToDepth(T, A, k + 1) : e = <<P[c], c>>
    BY DEF PlacesUpTo
  <2>2. c \in T \cap Folders /\ i \in Ids /\ s.attr[c][i] # NoNode /\ Depth(A, c) = k + 1
    BY <1>1, <1>3, <2>1 DEF AllListed, Listed, UpToDepth
  <2> DEFINE n == s.attr[c][i]
  <2>3. n \in T /\ Depth(A, n) = k + 2 /\ P[n] = Append(P[c], i)
    <3>1. n \in T
      BY <2>2, KidIs
    <3>2. Depth(A, n) = Depth(A, c) + 1
      BY <2>2, DepthIs
    <3>3. P[n] = Append(P[c], i)
      BY <2>2 DEF IsPaths
    <3> QED BY <2>2, <3>1, <3>2, <3>3
  <2>4. <<P[n], n>> \in V
    BY <2>3 DEF PlacesUpTo, UpToDepth
  <2> QED BY <2>1, <2>3, <2>4
<1>4. R \subseteq V
  <2> HIDE DEF U, V
  <2> QED BY <1>2, <1>3 DEF Reached
<1>5. ASSUME NEW n \in UpToDepth(T, A, k + 2) PROVE <<P[n], n>> \in R
  <2>1. CASE n \in UpToDepth(T, A, k + 1)
    BY <2>1 DEF PlacesUpTo, Reached
  <2>2. CASE n \notin UpToDepth(T, A, k + 1)
    <3>1. n \in T /\ Depth(A, n) = k + 2
      BY <1>1, <2>2 DEF UpToDepth
    <3>2. n # r
      BY <3>1, DepthIs
    <3>3. PICK c \in T \cap Folders, i \in Ids : s.attr[c][i] = n /\ n # NoNode /\ Depth(A, n) = Depth(A, c) + 1
      BY <3>1, <3>2, FolderIs
    <3>4. Depth(A, c) = k + 1 /\ Len(P[c]) = k
      BY <1>1, <3>1, <3>3
    <3>5. i \in ToSet(s.list[c]) /\ P[n] = Append(P[c], i)
      BY <3>3 DEF AllListed, Listed, IsPaths
    <3> DEFINE e == <<P[c], c>>
    <3>6. e \in U
      BY <3>4 DEF PlacesUpTo, UpToDepth
    <3>7. e[1] = P[c] /\ e[2] = c
      OBVIOUS
    <3>8. <<P[n], n>> = <<Append(e[1], i), s.attr[e[2]][i]>>
      BY <3>3, <3>5, <3>7
    <3>9. e[2] \in Folders /\ Len(e[1]) = k /\ i \in ToSet(s.list[e[2]])
      BY <3>3, <3>4, <3>5, <3>7
    <3> HIDE DEF e, U
    <3> QED BY <3>6, <3>8, <3>9 DEF Reached
  <2> QED BY <2>1, <2>2
<1> HIDE DEF R, U
<1>6. V \subseteq R
  BY <1>5 DEF PlacesUpTo
<1> QED BY <1>4, <1>6 DEF R, U

\* Located finds the objects of the tree, at their paths.
LEMMA LocatedIs ==
    ASSUME NEW s \in SiteType, AllListed(s),
           NEW r, NEW T, NEW A, Rooted(s, r, T, A), NEW P, IsPaths(s, r, T, P)
    PROVE  Located(s, r) = Places(P, T)
<1>0. /\ s.attr \in [Folders -> [Ids -> Nodes \cup {NoNode}]]
      /\ s.list \in [Folders -> Seq(Ids)]
      /\ \A c \in T \cap Folders : Listed(s, c)
  BY DEF SiteType, AllListed
<1> DEFINE K == Cardinality(Folders)
           D == SUBSET (Seq(Ids) \X (Nodes \cup {NoNode}))
           d == {<< <<>>, r >>}
           G == [p \in (Nat \ {0}) \X D |-> Reached(s, p[2], p[1] - 1)]
           down[k \in 0 .. K] == IF k = 0 THEN {<< <<>>, r >>} ELSE Reached(s, down[k - 1], k - 1)
<1>1. Located(s, r) = down[K]
  BY DEF Located
<1>2. K \in Nat /\ d \in D
  <2>1. r \in Nodes
    BY DEF Rooted
  <2>2. <<>> \in Seq(Ids) /\ r \in Nodes \cup {NoNode}
    BY <2>1
  <2>3. d \in D
    <3> DEFINE X == Seq(Ids)
               Y == Nodes \cup {NoNode}
    <3>1. <<>> \in X /\ r \in Y
      BY <2>2
    <3> HIDE DEF X, Y
    <3>2. << <<>>, r >> \in X \X Y
      BY <3>1
    <3>3. {<< <<>>, r >>} \in SUBSET (X \X Y)
      BY <3>2
    <3> QED BY <3>3 DEF X, Y
  <2> QED BY <2>3, FinitelyMany
<1>3. G \in [(Nat \ {0}) \X D -> D]
  <2>1. ASSUME NEW above \in D, NEW k PROVE Reached(s, above, k) \in D
    <3>1. ASSUME NEW e \in above, e[2] \in Folders, NEW i \in ToSet(s.list[e[2]])
          PROVE  <<Append(e[1], i), s.attr[e[2]][i]>> \in Seq(Ids) \X (Nodes \cup {NoNode})
      <4>1. e[1] \in Seq(Ids) /\ s.list[e[2]] \in Seq(Ids)
        BY <1>0, <3>1
      <4>2. i \in Ids
        BY <3>1, <4>1 DEF ToSet
      <4>3. Append(e[1], i) \in Seq(Ids) /\ s.attr[e[2]][i] \in Nodes \cup {NoNode}
        BY <1>0, <3>1, <4>1, <4>2
      <4> QED BY <4>3
    <3> QED BY <3>1 DEF Reached
  <2> HIDE DEF D
  <2> QED BY <2>1
<1>4. /\ down[0] = d
      /\ \A k \in 0 .. K : k # 0 => down[k] = Reached(s, down[k - 1], k - 1)
  <2>1. PICK f \in [0 .. K -> D] : RunsOf(f, d, G, K)
    <3> HIDE DEF D, G, d
    <3> QED BY <1>2, <1>3, RunsDefined
  <2>2. ASSUME NEW k \in 0 .. K, k # 0 PROVE f[k] = Reached(s, f[k - 1], k - 1)
    <3>0. k - 1 \in 0 .. K /\ k \in Nat \ {0}
      BY <2>2, <1>2
    <3>1. f[k] = G[<<k, f[k - 1]>>]
      <4> HIDE DEF D, G, K, d
      <4> QED BY <3>0, <2>1, <2>2 DEF RunsOf
    <3>2. f[k - 1] \in D
      <4> HIDE DEF D, G, d
      <4> QED BY <3>0
    <3> HIDE DEF D, K, d
    <3> QED BY <3>0, <3>1, <3>2
  <2>3. f = [k \in 0 .. K |-> IF k = 0 THEN {<< <<>>, r >>} ELSE Reached(s, f[k - 1], k - 1)]
    <3>1. f[0] = {<< <<>>, r >>} /\ f = [k \in 0 .. K |-> f[k]]
      BY <2>1, <1>2 DEF RunsOf
    <3> HIDE DEF D, G, K, d
    <3> QED BY <2>2, <3>1
  <2>4. down = [k \in 0 .. K |-> IF k = 0 THEN {<< <<>>, r >>} ELSE Reached(s, down[k - 1], k - 1)]
    <3> HIDE DEF K
    <3> QED BY <2>3, Zenon
  <2> HIDE DEF down, K
  <2>5. down[0] = d
    BY <2>4, <1>2
  <2>6. ASSUME NEW k \in 0 .. K, k # 0 PROVE down[k] = Reached(s, down[k - 1], k - 1)
    BY <2>4, <2>6
  <2> QED BY <2>5, <2>6
<1> DEFINE F == {k \in Nat : k <= K => down[k] = PlacesUpTo(T, A, P, k + 1)}
<1> HIDE DEF down
<1>5. 0 \in F
  <2>1. \A n \in T : Depth(A, n) \in Nat \ {0} /\ (Depth(A, n) = 1 <=> n = r)
    BY DepthIs, FinitelyMany
  <2>2. r \in T /\ P[r] = <<>>
    BY DEF Rooted, IsPaths
  <2>3. UpToDepth(T, A, 1) = {r}
    BY <2>1, <2>2 DEF UpToDepth
  <2>4. down[0] = PlacesUpTo(T, A, P, 0 + 1)
    BY <1>4, <2>2, <2>3 DEF PlacesUpTo
  <2> QED BY <2>4
<1>6. ASSUME NEW k \in Nat, k \in F PROVE k + 1 \in F
  <2> SUFFICES ASSUME k + 1 <= K PROVE down[k + 1] = PlacesUpTo(T, A, P, k + 2)
    OBVIOUS
  <2>1. down[k] = PlacesUpTo(T, A, P, k + 1)
    BY <1>2, <1>6
  <2>2. down[k + 1] = Reached(s, down[k], k)
    BY <1>2, <1>4
  <2>3. Reached(s, PlacesUpTo(T, A, P, k + 1), k) = PlacesUpTo(T, A, P, k + 2)
    BY ReachedIs
  <2> QED BY <2>1, <2>2, <2>3
<1>7. K \in F
  <2>1. Nat \subseteq F
    <3> HIDE DEF F
    <3> QED BY <1>5, <1>6, NatSetInduction
  <2> QED BY <1>2, <2>1
<1>8. UpToDepth(T, A, K + 1) = T
  BY DepthIs, FinitelyMany DEF UpToDepth
<1> QED BY <1>1, <1>2, <1>7, <1>8 DEF PlacesUpTo, Places

-----------------------------------------------------------------------------
(* Cutting a tree and putting trees together *)

\* What is below n
Sub(T, A, n) == {m \in T : n \in A[m]}
Part(A, S) == [m \in S |-> A[m] \cap S]

\* Nothing is above what is above it.
LEMMA NoCycle ==
    ASSUME NEW s, NEW r, NEW T, NEW A, Rooted(s, r, T, A), NEW m \in T, NEW n \in T, m \in A[n], n \in A[m]
    PROVE  m = n
<1>1. CASE n = r
  BY <1>1 DEF Rooted
<1>2. CASE n # r
  <2>1. PICK c \in T \cap Folders, i \in Ids : s.attr[c][i] = n /\ n # NoNode
    BY <1>2, FolderIs
  <2>2. n \notin A[c] /\ A[n] = {n} \cup A[c]
    BY <2>1, KidIs
  <2>3. m # n => A[m] \subseteq A[c]
    BY <2>2 DEF Rooted
  <2> QED BY <2>2, <2>3
<1> QED BY <1>1, <1>2

\* A tree is a tree wherever its folders are the same.
LEMMA SameTree ==
    ASSUME NEW s, NEW t, NEW r, NEW T, NEW A, Rooted(s, r, T, A),
           \A c \in T \cap Folders : t.attr[c] = s.attr[c]
    PROVE  Rooted(t, r, T, A)
<1>1. /\ T \in SUBSET Nodes /\ r \in T /\ A \in [T -> SUBSET T] /\ A[r] = {r}
      /\ \A n \in T : /\ n \in A[n] /\ A[n] \ {n} \subseteq Folders
                      /\ \A m \in A[n] : A[m] \subseteq A[n]
  BY DEF Rooted
<1>2. \A c \in T \cap Folders, i \in Ids : t.attr[c][i] # NoNode =>
          /\ t.attr[c][i] \in T \ {r} /\ t.attr[c][i] \notin A[c]
          /\ A[t.attr[c][i]] = {t.attr[c][i]} \cup A[c]
  BY DEF Rooted
<1>3. ASSUME NEW n \in T \ {r} PROVE \E c \in T \cap Folders, i \in Ids : t.attr[c][i] = n
  <2>1. PICK c \in T \cap Folders, i \in Ids : s.attr[c][i] = n
    BY DEF Rooted
  <2> QED BY <2>1
<1>4. ASSUME NEW c \in T \cap Folders, NEW d \in T \cap Folders, NEW i \in Ids, NEW j \in Ids,
             t.attr[c][i] # NoNode, t.attr[c][i] = t.attr[d][j]
      PROVE  c = d /\ i = j
  <2>1. s.attr[c][i] # NoNode /\ s.attr[c][i] = s.attr[d][j]
    BY <1>4
  <2> QED BY <2>1 DEF Rooted
<1> QED BY <1>1, <1>2, <1>3, <1>4 DEF Rooted

\* What is below an object is a tree of its own.
LEMMA SubIs ==
    ASSUME NEW s, NEW r, NEW T, NEW A, Rooted(s, r, T, A), NEW n \in T
    PROVE  Rooted(s, n, Sub(T, A, n), Part(A, Sub(T, A, n)))
<1> DEFINE S == Sub(T, A, n)
           B == Part(A, S)
<1>1. S \in SUBSET Nodes /\ n \in S /\ B \in [S -> SUBSET S] /\ S \subseteq T
  BY DEF Rooted, Sub, Part
<1>2. B[n] = {n}
  <2>1. \A m \in S : m \in A[n] => m = n
    BY NoCycle DEF Sub
  <2> QED BY <1>1, <2>1 DEF Part, Rooted
<1>3. ASSUME NEW m \in S
      PROVE  m \in B[m] /\ B[m] \ {m} \subseteq Folders /\ \A x \in B[m] : B[x] \subseteq B[m]
  BY <1>1 DEF Part, Rooted
<1>4. ASSUME NEW c \in S \cap Folders, NEW i \in Ids, s.attr[c][i] # NoNode
      PROVE  s.attr[c][i] \in S \ {n} /\ s.attr[c][i] \notin B[c] /\ B[s.attr[c][i]] = {s.attr[c][i]} \cup B[c]
  <2> DEFINE k == s.attr[c][i]
  <2>1. k \in T /\ k \notin A[c] /\ A[k] = {k} \cup A[c]
    BY <1>1, <1>4, KidIs
  <2>2. n \in A[c]
    BY DEF Sub
  <2> HIDE DEF k
  <2>3. k \in S /\ k # n
    BY <2>1, <2>2 DEF Sub
  <2>4. k \notin B[c] /\ B[k] = {k} \cup B[c]
    BY <2>1, <2>3, <1>1 DEF Part
  <2> QED BY <2>3, <2>4 DEF k
<1>5. ASSUME NEW m \in S \ {n} PROVE \E c \in S \cap Folders, i \in Ids : s.attr[c][i] = m
  <2>1. m \in T /\ n \in A[m] /\ m # n
    BY DEF Sub
  <2>2. m # r
    BY <2>1 DEF Rooted
  <2>3. PICK c \in T \cap Folders, i \in Ids : s.attr[c][i] = m /\ m # NoNode
    BY <2>1, <2>2, FolderIs
  <2>4. A[m] = {m} \cup A[c]
    BY <2>3, KidIs
  <2>5. c \in S
    BY <2>1, <2>3, <2>4 DEF Sub
  <2> QED BY <2>3, <2>5
<1>6. \A c, d \in S \cap Folders, i, j \in Ids : s.attr[c][i] # NoNode /\ s.attr[c][i] = s.attr[d][j] => c = d /\ i = j
  BY <1>1 DEF Rooted
<1> HIDE DEF S, B
<1>7. Rooted(s, n, S, B)
  BY <1>1, <1>2, <1>3, <1>4, <1>5, <1>6 DEF Rooted
<1> QED BY <1>7 DEF S, B

\* In t an attribute of c has another value than in s.
Differs(s, t, c, id, v) == t.attr = [s.attr EXCEPT ![c][id] = v]

\* What is left when an object is taken out of its folder
LEMMA PruneIs ==
    ASSUME NEW s, NEW r, NEW T, NEW A, Rooted(s, r, T, A), NEW c \in T \cap Folders, NEW id \in Ids,
           s.attr \in [Folders -> [Ids -> Nodes \cup {NoNode}]],
           NEW n, s.attr[c][id] = n, n # NoNode,
           NEW t, Differs(s, t, c, id, NoNode)
    PROVE  Rooted(t, r, T \ Sub(T, A, n), Part(A, T \ Sub(T, A, n)))
<1> DEFINE S == Sub(T, A, n)
           R == T \ S
           B == Part(A, R)
<1>0. n \in T /\ n # r /\ n \notin A[c] /\ A[n] = {n} \cup A[c] /\ n \in S
  BY KidIs DEF Sub
<1>1. /\ \A d \in Folders, i \in Ids : t.attr[d][i] = IF d = c /\ i = id THEN NoNode ELSE s.attr[d][i]
  BY DEF Differs
<1>2. ASSUME NEW m \in R PROVE A[m] \subseteq R
  <2>1. ASSUME NEW x \in A[m], x \in S PROVE FALSE
    <3>1. n \in A[x] /\ A[x] \subseteq A[m]
      BY <2>1 DEF Sub, Rooted
    <3> QED BY <3>1 DEF Sub
  <2> QED BY <2>1 DEF Rooted
<1>3. \A m \in R : B[m] = A[m]
  BY <1>2 DEF Part
<1>4. R \in SUBSET Nodes /\ r \in R /\ B \in [R -> SUBSET R] /\ B[r] = {r}
  <2>1. r \in T /\ A[r] = {r} /\ T \in SUBSET Nodes
    BY DEF Rooted
  <2>2. r \in R
    BY <1>0, <2>1 DEF Sub
  <2> QED BY <1>3, <2>1, <2>2 DEF Part
<1>5. ASSUME NEW m \in R
      PROVE  m \in B[m] /\ B[m] \ {m} \subseteq Folders /\ \A x \in B[m] : B[x] \subseteq B[m]
  <2>1. m \in A[m] /\ A[m] \ {m} \subseteq Folders /\ \A x \in A[m] : A[x] \subseteq A[m]
    BY DEF Rooted
  <2> QED BY <1>2, <1>3, <2>1
<1>6. ASSUME NEW d \in R \cap Folders, NEW i \in Ids, t.attr[d][i] # NoNode
      PROVE  t.attr[d][i] \in R \ {r} /\ t.attr[d][i] \notin B[d] /\ B[t.attr[d][i]] = {t.attr[d][i]} \cup B[d]
  <2> DEFINE k == t.attr[d][i]
  <2>1. k = s.attr[d][i] /\ ~(d = c /\ i = id) /\ k # NoNode
    BY <1>1, <1>6
  <2>2. k \in T /\ k # r /\ k \notin A[d] /\ A[k] = {k} \cup A[d]
    BY <2>1, KidIs
  <2>3. k # n
    BY <2>1 DEF Rooted
  <2> HIDE DEF k
  <2>4. n \notin A[d]
    BY DEF Sub
  <2>5. k \in R
    BY <2>2, <2>3, <2>4 DEF Sub
  <2>6. k \notin B[d] /\ B[k] = {k} \cup B[d]
    BY <1>3, <2>2, <2>5
  <2> QED BY <2>2, <2>5, <2>6 DEF k
<1>7. ASSUME NEW m \in R \ {r} PROVE \E d \in R \cap Folders, i \in Ids : t.attr[d][i] = m
  <2>1. PICK d \in T \cap Folders, i \in Ids : s.attr[d][i] = m /\ m # NoNode
    BY FolderIs
  <2>2. A[m] = {m} \cup A[d] /\ n \notin A[m]
    BY <2>1, KidIs DEF Sub
  <2>3. d \in R
    BY <2>1, <2>2 DEF Sub
  <2>4. m # n
    BY <1>0
  <2>5. t.attr[d][i] = m
    BY <1>1, <2>1, <2>4
  <2> QED BY <2>3, <2>5
<1>8. \A d, e \in R \cap Folders, i, j \in Ids : t.attr[d][i] # NoNode /\ t.attr[d][i] = t.attr[e][j] => d = e /\ i = j
  BY <1>1 DEF Rooted
<1> HIDE DEF S, R, B
<1>9. Rooted(t, r, R, B)
  BY <1>4, <1>5, <1>6, <1>7, <1>8 DEF Rooted
<1> QED BY <1>9 DEF S, R, B

\* A tree put into a folder of another
Grafted(T, A, c, S, B) == [m \in T \cup S |-> IF m \in T THEN A[m] ELSE B[m] \cup A[c]]

\* What a tree becomes when another is put into a folder of it
LEMMA GraftIs ==
    ASSUME NEW s, NEW r, NEW T, NEW A, Rooted(s, r, T, A), NEW c \in T \cap Folders, NEW id \in Ids,
           s.attr \in [Folders -> [Ids -> Nodes \cup {NoNode}]], s.attr[c][id] = NoNode,
           NEW n, NEW S, NEW B, Rooted(s, n, S, B), S \cap T = {},
           NEW t, Differs(s, t, c, id, n)
    PROVE  Rooted(t, r, T \cup S, Grafted(T, A, c, S, B))
<1> DEFINE U == T \cup S
           C == Grafted(T, A, c, S, B)
<1>1. \A d \in Folders, i \in Ids : t.attr[d][i] = IF d = c /\ i = id THEN n ELSE s.attr[d][i]
  BY DEF Differs
<1>2. (\A m \in T : C[m] = A[m]) /\ (\A m \in S : C[m] = B[m] \cup A[c])
  BY DEF Grafted
<1>3. /\ T \subseteq Nodes /\ S \subseteq Nodes /\ r \in T /\ n \in S
      /\ A \in [T -> SUBSET T] /\ B \in [S -> SUBSET S] /\ A[r] = {r} /\ B[n] = {n} /\ n # NoNode
  BY FinitelyMany DEF Rooted
<1>4. U \in SUBSET Nodes /\ r \in U /\ C \in [U -> SUBSET U] /\ C[r] = {r}
  <2>1. U \in SUBSET Nodes /\ r \in U /\ C[r] = {r}
    BY <1>2, <1>3
  <2>2. C \in [U -> SUBSET U]
    BY <1>3 DEF Grafted
  <2> QED BY <2>1, <2>2
<1>5. c \in A[c] /\ A[c] \subseteq Folders /\ \A x \in A[c] : A[x] \subseteq A[c] /\ x \in T
  BY DEF Rooted
<1>6. ASSUME NEW m \in U
      PROVE  m \in C[m] /\ C[m] \ {m} \subseteq Folders /\ \A x \in C[m] : C[x] \subseteq C[m]
  <2>1. CASE m \in T
    <3>1. m \in A[m] /\ A[m] \ {m} \subseteq Folders /\ \A x \in A[m] : A[x] \subseteq A[m] /\ x \in T
      BY <2>1 DEF Rooted
    <3> HIDE DEF C
    <3> QED BY <1>2, <2>1, <3>1
  <2>2. CASE m \in S
    <3>1. m \in B[m] /\ B[m] \ {m} \subseteq Folders /\ \A x \in B[m] : B[x] \subseteq B[m] /\ x \in S
      BY <2>2 DEF Rooted
    <3> HIDE DEF C
    <3>2. ASSUME NEW x \in C[m] PROVE C[x] \subseteq C[m]
      <4>1. CASE x \in B[m]
        BY <4>1, <1>2, <2>2, <3>1
      <4>2. CASE x \in A[c]
        BY <4>2, <1>2, <1>5, <2>2
      <4> QED BY <4>1, <4>2, <1>2, <2>2
    <3> QED BY <1>2, <1>5, <2>2, <3>1, <3>2
  <2> QED BY <2>1, <2>2
<1> HIDE DEF C
<1>7. ASSUME NEW d \in U \cap Folders, NEW i \in Ids, t.attr[d][i] # NoNode
      PROVE  t.attr[d][i] \in U \ {r} /\ t.attr[d][i] \notin C[d] /\ C[t.attr[d][i]] = {t.attr[d][i]} \cup C[d]
  <2>1. CASE d = c /\ i = id
    BY <2>1, <1>1, <1>2, <1>3
  <2>2. CASE d \in T /\ ~(d = c /\ i = id)
    <3> DEFINE k == t.attr[d][i]
    <3>1. k = s.attr[d][i] /\ k # NoNode
      BY <1>1, <1>7, <2>2
    <3>2. k \in T /\ k # r /\ k \notin A[d] /\ A[k] = {k} \cup A[d]
      BY <2>2, <3>1, KidIs
    <3> HIDE DEF k
    <3>3. k \in U \ {r} /\ k \notin C[d] /\ C[k] = {k} \cup C[d]
      BY <2>2, <3>2, <1>2
    <3> QED BY <3>3 DEF k
  <2>3. CASE d \in S
    <3> DEFINE k == t.attr[d][i]
    <3>1. k = s.attr[d][i] /\ k # NoNode
      BY <1>1, <1>7, <2>3
    <3>2. k \in S /\ k \notin B[d] /\ B[k] = {k} \cup B[d]
      BY <2>3, <3>1, KidIs
    <3> HIDE DEF k
    <3>3. k \notin A[c] /\ k # r
      BY <1>3, <1>5, <3>2
    <3>4. k \in U \ {r} /\ k \notin C[d] /\ C[k] = {k} \cup C[d]
      BY <2>3, <3>2, <3>3, <1>2
    <3> QED BY <3>4 DEF k
  <2> QED BY <2>1, <2>2, <2>3
<1>8. ASSUME NEW m \in U \ {r} PROVE \E d \in U \cap Folders, i \in Ids : t.attr[d][i] = m
  <2>1. CASE m = n
    BY <1>1, <2>1
  <2>2. CASE m # n /\ m \in T
    <3>1. PICK d \in T \cap Folders, i \in Ids : s.attr[d][i] = m /\ m # NoNode
      BY <2>2, FolderIs
    <3> QED BY <3>1, <1>1
  <2>3. CASE m # n /\ m \in S
    <3>1. PICK d \in S \cap Folders, i \in Ids : s.attr[d][i] = m /\ m # NoNode
      BY <2>3, FolderIs
    <3> QED BY <3>1, <1>1
  <2> QED BY <2>1, <2>2, <2>3
<1>9. ASSUME NEW d \in U \cap Folders, NEW e \in U \cap Folders, NEW i \in Ids, NEW j \in Ids,
             t.attr[d][i] # NoNode, t.attr[d][i] = t.attr[e][j]
      PROVE  d = e /\ i = j
  <2>1. ASSUME NEW x \in U \cap Folders, NEW h \in Ids, ~(x = c /\ h = id), t.attr[x][h] # NoNode
        PROVE  t.attr[x][h] = s.attr[x][h] /\ t.attr[x][h] # n /\ (x \in T => t.attr[x][h] \in T) /\ (x \in S => t.attr[x][h] \in S)
    <3> DEFINE k == t.attr[x][h]
    <3>1. k = s.attr[x][h] /\ k # NoNode
      BY <1>1, <2>1
    <3>2. CASE x \in T
      <4>1. k \in T
        BY <3>1, <3>2, KidIs
      <4> QED BY <3>1, <3>2, <4>1, <1>3
    <3>3. CASE x \in S
      <4>1. k \in S /\ k # n
        BY <3>1, <3>3, KidIs
      <4> QED BY <3>1, <3>3, <4>1
    <3> QED BY <3>2, <3>3
  <2>2. CASE ~(d = c /\ i = id) /\ ~(e = c /\ j = id)
    <3>1. (d \in T /\ e \in T) \/ (d \in S /\ e \in S)
      BY <1>9, <2>1, <2>2
    <3>2. s.attr[d][i] # NoNode /\ s.attr[d][i] = s.attr[e][j]
      BY <1>9, <2>1, <2>2
    <3> QED BY <3>1, <3>2 DEF Rooted
  <2>3. CASE d = c /\ i = id
    BY <1>1, <1>9, <2>1, <2>3
  <2>4. CASE e = c /\ j = id
    BY <1>1, <1>9, <2>1, <2>4
  <2> QED BY <2>2, <2>3, <2>4
<1> HIDE DEF U
<1>10. Rooted(t, r, U, C)
  BY <1>4, <1>6, <1>7, <1>8, <1>9 DEF Rooted
<1> QED BY <1>10 DEF U, C

-----------------------------------------------------------------------------
(* What operations do to the tree and its catalog *)

Hangs(s, n, S) == \E A : Rooted(s, n, S, A)

\* The objects T are the tree, and the catalog is right.
Fits(s, T) == s \in SiteType /\ AllListed(s) /\ Hangs(s, Root, T) /\ s.index = Located(s, Root)

\* The parts of a site
LEMMA SiteTyped ==
    ASSUME NEW s \in SiteType
    PROVE  /\ s.attr \in [Folders -> [Ids -> Nodes \cup {NoNode}]]
           /\ s.list \in [Folders -> Seq(Ids)]
           /\ s.index \in SUBSET (Seq(Ids) \X Nodes)
           /\ s = [list |-> s.list, attr |-> s.attr, index |-> s.index]
BY DEF SiteType

\* What fits is typed.
LEMMA FitsTyped ==
    ASSUME NEW s, NEW T, Fits(s, T)
    PROVE  s \in SiteType /\ AllListed(s) /\ Root \in T /\ T \subseteq Nodes
BY DEF Fits, Hangs, Rooted

\* The catalog tells each object of the tree, at its path.
LEMMA Known ==
    ASSUME NEW s, NEW T, Fits(s, T)
    PROVE  \E A, P : Rooted(s, Root, T, A) /\ IsPaths(s, Root, T, P) /\ s.index = Places(P, T)
<1>1. PICK A : Rooted(s, Root, T, A)
  BY DEF Fits, Hangs
<1>2. PICK P : IsPaths(s, Root, T, P)
  BY <1>1, PathsExist
<1>3. Located(s, Root) = Places(P, T)
  BY <1>1, <1>2, FitsTyped, LocatedIs
<1> QED BY <1>1, <1>2, <1>3 DEF Fits

\* What shows that a site fits
LEMMA FitsWhen ==
    ASSUME NEW s \in SiteType, AllListed(s), NEW T, NEW A, Rooted(s, Root, T, A), NEW P, IsPaths(s, Root, T, P),
           s.index = Places(P, T)
    PROVE  Fits(s, T)
<1>1. Located(s, Root) = Places(P, T)
  BY LocatedIs
<1> QED BY <1>1 DEF Fits, Hangs

\* The tree is what Below finds.
LEMMA BelowHangs ==
    ASSUME NEW s \in SiteType, NEW r, NEW T, Hangs(s, r, T)
    PROVE  Below(s, r) = T
<1>1. PICK A : Rooted(s, r, T, A)
  BY DEF Hangs
<1>2. s.attr \in [Folders -> [Ids -> Nodes \cup {NoNode}]]
  BY SiteTyped
<1> QED BY <1>1, <1>2, BelowIs

\* Below the root is the tree.
LEMMA BelowFits ==
    ASSUME NEW s, NEW T, Fits(s, T)
    PROVE  Below(s, Root) = T
BY BelowHangs, FitsTyped DEF Fits

\* Below an object is its subtree.
LEMMA BelowSub ==
    ASSUME NEW s \in SiteType, NEW r, NEW T, NEW A, Rooted(s, r, T, A), NEW n \in T
    PROVE  Below(s, n) = Sub(T, A, n) /\ Hangs(s, n, Sub(T, A, n))
<1>1. Hangs(s, n, Sub(T, A, n))
  BY SubIs DEF Hangs
<1> QED BY <1>1, BelowHangs

\* What hangs together does so wherever its folders are the same.
LEMMA SameHangs ==
    ASSUME NEW s, NEW t, NEW r, NEW T, Hangs(s, r, T), \A c \in T \cap Folders : t.attr[c] = s.attr[c]
    PROVE  Hangs(t, r, T)
<1>1. PICK A : Rooted(s, r, T, A)
  BY DEF Hangs
<1>2. Rooted(t, r, T, A)
  BY <1>1, SameTree
<1> QED BY <1>2 DEF Hangs

\* A state whose tree and lists are the same fits as well.
LEMMA FitsElse ==
    ASSUME NEW s, NEW T, Fits(s, T), NEW t \in SiteType, t.index = s.index,
           \A c \in T \cap Folders : t.attr[c] = s.attr[c], AllListed(t)
    PROVE  Fits(t, T)
<1>1. PICK A, P : Rooted(s, Root, T, A) /\ IsPaths(s, Root, T, P) /\ s.index = Places(P, T)
  BY Known
<1>2. Rooted(t, Root, T, A)
  BY <1>1, SameTree
<1>3. IsPaths(t, Root, T, P)
  BY <1>1 DEF IsPaths
<1> QED BY <1>1, <1>2, <1>3, FitsWhen

\* What leaves the catalog with an object
LEMMA UnindexedIs ==
    ASSUME NEW s \in SiteType, AllListed(s), NEW T, NEW A, Rooted(s, Root, T, A),
           NEW P, IsPaths(s, Root, T, P), NEW n \in T, s.index = Places(P, T)
    PROVE  Unindexed(s, n) = [s EXCEPT !.index = Places(P, T \ Sub(T, A, n))]
<1> DEFINE S == Sub(T, A, n)
           below == Below(s, n)
           gone == {e[1] : e \in {x \in Located(s, Root) : x[2] \in below}}
<1>1. below = S
  BY BelowSub
<1>2. Located(s, Root) = Places(P, T)
  BY LocatedIs
<1>3. S \subseteq T
  BY DEF Sub
<1>4. gone = {P[m] : m \in S}
  <2>1. {x \in Places(P, T) : x[2] \in S} = Places(P, S)
    <3> HIDE DEF S
    <3> QED BY <1>3 DEF Places
  <2>2. gone = {e[1] : e \in Places(P, S)}
    <3> HIDE DEF S, below
    <3> QED BY <1>1, <1>2, <2>1
  <2>3. ASSUME NEW m \in S PROVE P[m] \in {e[1] : e \in Places(P, S)}
    <3>1. <<P[m], m>> \in Places(P, S) /\ <<P[m], m>>[1] = P[m]
      BY DEF Places
    <3> QED BY <3>1
  <2>4. ASSUME NEW e \in Places(P, S) PROVE e[1] \in {P[m] : m \in S}
    BY DEF Places
  <2> HIDE DEF S, gone
  <2> QED BY <2>2, <2>3, <2>4
<1>5. {e \in s.index : e[1] \notin gone} = Places(P, T \ S)
  <2>1. \A m, x \in T : P[m] = P[x] => m = x
    BY PathsDiffer
  <2> HIDE DEF S, gone
  <2> QED BY <1>3, <1>4, <2>1 DEF Places
<1> QED BY <1>5 DEF Unindexed

\* What the catalog holds has the type of it.
LEMMA PlacesTyped ==
    ASSUME NEW s, NEW r, NEW T, NEW P, IsPaths(s, r, T, P), NEW R, R \subseteq T, T \subseteq Nodes
    PROVE  Places(P, R) \in SUBSET (Seq(Ids) \X Nodes)
BY DEF IsPaths, Places

\* A change of one folder leaves the lists of the others exact.
LEMMA ListedElse ==
    ASSUME NEW s, NEW t, NEW c, AllListed(s), Listed(t, c),
           \A d \in Folders \ {c} : t.list[d] = s.list[d] /\ t.attr[d] = s.attr[d]
    PROVE  AllListed(t)
<1>1. ASSUME NEW d \in Folders PROVE Listed(t, d)
  <2>1. CASE d = c
    BY <2>1
  <2>2. CASE d # c
    <3>1. t.list[d] = s.list[d] /\ t.attr[d] = s.attr[d] /\ Listed(s, d)
      BY <2>2 DEF AllListed
    <3> QED BY <3>1 DEF Listed
  <2> QED BY <2>1, <2>2
<1> QED BY <1>1 DEF AllListed

\* One attribute of one folder is replaced.
LEMMA PointIs ==
    ASSUME NEW V, NEW f \in [Folders -> [Ids -> V]], NEW c \in Folders, NEW id \in Ids, NEW v \in V,
           NEW g, g = [f EXCEPT ![c][id] = v]
    PROVE  /\ g \in [Folders -> [Ids -> V]]
           /\ \A d \in Folders, i \in Ids : g[d][i] = IF d = c /\ i = id THEN v ELSE f[d][i]
           /\ \A d \in Folders : d # c => g[d] = f[d]
OBVIOUS

\* In t, the objects S at n have been taken from folder c of s.
DelDone(s, T, c, id, n, S, t) ==
    /\ Fits(t, T \ S) /\ Hangs(t, n, S) /\ Hangs(s, n, S)
    /\ n \in S /\ S \subseteq T /\ Root \notin S /\ c \notin S
    /\ Differs(s, t, c, id, NoNode)
    /\ t = DelObject(Unindexed(s, n), c, id, FALSE)

\* _delObject takes an object with its subtree out, and out of the catalog.
LEMMA DelFits ==
    ASSUME NEW s, NEW T, Fits(s, T), NEW c \in T \cap Folders, NEW id \in Ids,
           NEW n, s.attr[c][id] = n, n # NoNode, NEW t, DelObject(s, c, id, TRUE) = t,
           NEW S, Below(s, n) = S
    PROVE  DelDone(s, T, c, id, n, S, t)
<1>0. s \in SiteType /\ AllListed(s) /\ Root \in T /\ T \subseteq Nodes
  BY FitsTyped
<1>t. /\ s.attr \in [Folders -> [Ids -> Nodes \cup {NoNode}]]
      /\ s.list \in [Folders -> Seq(Ids)]
      /\ s = [list |-> s.list, attr |-> s.attr, index |-> s.index]
  BY <1>0, SiteTyped
<1>1. PICK A, P : Rooted(s, Root, T, A) /\ IsPaths(s, Root, T, P) /\ s.index = Places(P, T)
  BY Known
<1> DEFINE R == T \ S
           Q == [m \in R |-> P[m]]
           B == Part(A, R)
<1>2. n \in T /\ n # Root /\ n \notin A[c] /\ A[n] = {n} \cup A[c]
  BY <1>1, KidIs
<1>3. S = Sub(T, A, n) /\ n \in S /\ S \subseteq T /\ Root \notin S /\ c \notin S /\ Hangs(s, n, S)
  <2>1. S = Sub(T, A, n) /\ Hangs(s, n, S)
    BY <1>0, <1>1, <1>2, BelowSub
  <2>2. A[Root] = {Root} /\ n \in A[n]
    BY <1>1, <1>2 DEF Rooted
  <2> QED BY <1>2, <2>1, <2>2 DEF Sub
<1>4. Unindexed(s, n) = [s EXCEPT !.index = Places(P, R)]
  BY <1>0, <1>1, <1>2, <1>3, UnindexedIs
<1>5. /\ t.attr = [s.attr EXCEPT ![c][id] = NoNode]
      /\ t.list = [s.list EXCEPT ![c] = Only(@, Ids \ {id})]
      /\ t.index = Places(P, R)
  <2>1. t = [Unindexed(s, n) EXCEPT !.list[c] = Only(@, Ids \ {id}), !.attr[c][id] = NoNode]
    BY DEF DelObject
  <2> HIDE DEF R
  <2> QED BY <1>4, <1>t, <2>1
<1>a. /\ t.attr \in [Folders -> [Ids -> Nodes \cup {NoNode}]]
      /\ \A d \in Folders, i \in Ids : t.attr[d][i] = IF d = c /\ i = id THEN NoNode ELSE s.attr[d][i]
      /\ \A d \in Folders : d # c => t.attr[d] = s.attr[d]
  <2> DEFINE f == s.attr
             g == t.attr
             V == Nodes \cup {NoNode}
  <2>1. f \in [Folders -> [Ids -> V]] /\ g = [f EXCEPT ![c][id] = NoNode] /\ NoNode \in V
    BY <1>5, <1>t
  <2> HIDE DEF f, g, V
  <2>2. /\ g \in [Folders -> [Ids -> V]]
        /\ \A d \in Folders, i \in Ids : g[d][i] = IF d = c /\ i = id THEN NoNode ELSE f[d][i]
        /\ \A d \in Folders : d # c => g[d] = f[d]
    BY <2>1, PointIs
  <2> QED BY <2>2 DEF f, g, V
<1>r. t = [list |-> t.list, attr |-> t.attr, index |-> t.index]
  <2>1. t = [Unindexed(s, n) EXCEPT !.list[c] = Only(@, Ids \ {id}), !.attr[c][id] = NoNode]
    BY DEF DelObject
  <2> HIDE DEF R
  <2> QED BY <1>4, <1>t, <2>1
<1>6. t = DelObject(Unindexed(s, n), c, id, FALSE)
  BY DEF DelObject
<1>7. s.list[c] \in Seq(Ids) /\ Listed(s, c)
  BY <1>0, <1>t DEF AllListed
<1>8. /\ Only(s.list[c], Ids \ {id}) \in Seq(Ids)
      /\ ToSet(Only(s.list[c], Ids \ {id})) = ToSet(s.list[c]) \cap (Ids \ {id})
      /\ OnceIn(Only(s.list[c], Ids \ {id}), Ids)
  BY <1>7, OnlyIs DEF Listed
<1>9. t \in SiteType
  <2>1. t.attr \in [Folders -> [Ids -> Nodes \cup {NoNode}]]
    BY <1>a
  <2>2. t.list \in [Folders -> Seq(Ids)]
    BY <1>5, <1>8, <1>t
  <2>3. t.index \in SUBSET (Seq(Ids) \X Nodes)
    <3>1. R \subseteq T
      OBVIOUS
    <3>2. Places(P, R) \in SUBSET (Seq(Ids) \X Nodes)
      <4> HIDE DEF R
      <4> QED BY <1>0, <1>1, <3>1, PlacesTyped
    <3> QED BY <1>5, <3>2
  <2> QED BY <1>r, <2>1, <2>2, <2>3 DEF SiteType
<1>10. AllListed(t)
  <2>1. t.list[c] = Only(s.list[c], Ids \ {id})
    BY <1>5, <1>t
  <2>2. {i \in Ids : t.attr[c][i] # NoNode} = {i \in Ids : s.attr[c][i] # NoNode} \ {id}
    BY <1>a
  <2>3. Listed(t, c)
    BY <1>7, <1>8, <2>1, <2>2 DEF Listed
  <2>4. \A d \in Folders \ {c} : t.list[d] = s.list[d] /\ t.attr[d] = s.attr[d]
    BY <1>a, <1>5, <1>t
  <2> QED BY <1>0, <2>3, <2>4, ListedElse
<1>11. Rooted(t, Root, R, B)
  <2>1. Rooted(t, Root, T \ Sub(T, A, n), Part(A, T \ Sub(T, A, n)))
    <3>1. s.attr \in [Folders -> [Ids -> Nodes \cup {NoNode}]] /\ Differs(s, t, c, id, NoNode)
      BY <1>t, <1>5 DEF Differs
    <3>2. Rooted(s, Root, T, A) /\ c \in T \cap Folders /\ id \in Ids /\ n = s.attr[c][id] /\ n # NoNode
      BY <1>1
    <3> QED BY <3>1, <3>2, PruneIs
  <2> QED BY <1>3, <2>1
<1>12. IsPaths(t, Root, R, Q)
  <2>1. Q \in [R -> Seq(Ids)] /\ Q[Root] = <<>>
    BY <1>0, <1>1, <1>3 DEF IsPaths
  <2>2. ASSUME NEW d \in R \cap Folders, NEW i \in Ids, t.attr[d][i] # NoNode
        PROVE  Q[t.attr[d][i]] = Append(Q[d], i)
    <3>1. t.attr[d][i] = s.attr[d][i]
      BY <1>a, <2>2
    <3>2. t.attr[d][i] \in R
      <4> DEFINE k == t.attr[d][i]
      <4>1. k = t.attr[d][i] /\ k # NoNode /\ d \in R \cap Folders
        BY <2>2
      <4> HIDE DEF B, R, k
      <4>2. k \in R
        BY <1>11, <4>1 DEF Rooted
      <4> QED BY <4>2 DEF k
    <3> QED BY <1>1, <2>2, <3>1, <3>2 DEF IsPaths
  <2> HIDE DEF Q, R
  <2> QED BY <2>1, <2>2 DEF IsPaths
<1>13. t.index = Places(Q, R)
  BY <1>5 DEF Places
<1>14. Fits(t, R)
  <2> HIDE DEF R, Q, B
  <2> QED BY <1>9, <1>10, <1>11, <1>12, <1>13, FitsWhen
<1>16. Hangs(t, n, S)
  <2>1. \A d \in S \cap Folders : t.attr[d] = s.attr[d]
    BY <1>3, <1>a
  <2> QED BY <1>3, <2>1, SameHangs
<1> QED BY <1>3, <1>5, <1>6, <1>14, <1>16 DEF DelDone, Differs

\* In t, the objects S at n are in a folder of s, and the catalog is told.
SetDone(s, T, c, id, n, S, t) ==
    /\ Fits(t, T \cup S)
    /\ Differs(s, t, c, id, n)
    /\ t = Indexed(SetObject(s, c, id, n, FALSE), n)

\* _setObject puts a tree in, and into the catalog.
LEMMA SetFits ==
    ASSUME NEW s, NEW T, Fits(s, T), NEW c \in T \cap Folders, NEW id \in Ids, s.attr[c][id] = NoNode,
           NEW n, NEW S, Hangs(s, n, S), S \cap T = {}, NEW t, SetObject(s, c, id, n, TRUE) = t
    PROVE  SetDone(s, T, c, id, n, S, t)
<1>0. s \in SiteType /\ AllListed(s) /\ Root \in T /\ T \subseteq Nodes
  BY FitsTyped
<1>t. /\ s.attr \in [Folders -> [Ids -> Nodes \cup {NoNode}]]
      /\ s.list \in [Folders -> Seq(Ids)]
      /\ s.index \in SUBSET (Seq(Ids) \X Nodes)
      /\ s = [list |-> s.list, attr |-> s.attr, index |-> s.index]
  BY <1>0, SiteTyped
<1>1. PICK A, P : Rooted(s, Root, T, A) /\ IsPaths(s, Root, T, P) /\ s.index = Places(P, T)
  BY Known
<1>2. PICK B : Rooted(s, n, S, B)
  BY DEF Hangs
<1> DEFINE U == T \cup S
           C == Grafted(T, A, c, S, B)
           set == [s EXCEPT !.list[c] = Append(@, id), !.attr[c][id] = n]
<1>3. n \in S /\ S \subseteq Nodes /\ n \in Nodes /\ n # NoNode
  BY <1>2, FinitelyMany DEF Rooted
<1>4. t = Indexed(set, n) /\ t = Indexed(SetObject(s, c, id, n, FALSE), n)
  BY DEF SetObject
<1>5. /\ set.attr = [s.attr EXCEPT ![c][id] = n]
      /\ set.list = [s.list EXCEPT ![c] = Append(@, id)]
      /\ set.index = s.index
      /\ set = [list |-> set.list, attr |-> set.attr, index |-> set.index]
  <2> DEFINE l == Append(s.list[c], id)
  <2>1. set = [s EXCEPT !.list[c] = l, !.attr[c][id] = n]
    OBVIOUS
  <2> HIDE DEF set, l
  <2>2. /\ set.attr = [s.attr EXCEPT ![c][id] = n]
        /\ set.list = [s.list EXCEPT ![c] = l]
        /\ set.index = s.index
        /\ set = [list |-> set.list, attr |-> set.attr, index |-> set.index]
    <3>1. set = [list |-> [s.list EXCEPT ![c] = l], attr |-> [s.attr EXCEPT ![c][id] = n], index |-> s.index]
      BY <1>0, <2>1 DEF SiteType
    <3> QED BY <3>1
  <2> QED BY <2>2 DEF l
<1>r. set = [list |-> set.list, attr |-> set.attr, index |-> set.index]
  BY <1>5
<1> HIDE DEF set
<1>a. /\ set.attr \in [Folders -> [Ids -> Nodes \cup {NoNode}]]
      /\ \A d \in Folders, i \in Ids : set.attr[d][i] = IF d = c /\ i = id THEN n ELSE s.attr[d][i]
      /\ \A d \in Folders : d # c => set.attr[d] = s.attr[d]
  <2> DEFINE f == s.attr
             g == set.attr
             V == Nodes \cup {NoNode}
  <2>1. f \in [Folders -> [Ids -> V]] /\ g = [f EXCEPT ![c][id] = n] /\ n \in V
    BY <1>3, <1>5, <1>t
  <2> HIDE DEF f, g, V
  <2>2. /\ g \in [Folders -> [Ids -> V]]
        /\ \A d \in Folders, i \in Ids : g[d][i] = IF d = c /\ i = id THEN n ELSE f[d][i]
        /\ \A d \in Folders : d # c => g[d] = f[d]
    BY <2>1, PointIs
  <2> QED BY <2>2 DEF f, g, V
<1>6. set \in SiteType
  <2>1. set.attr \in [Folders -> [Ids -> Nodes \cup {NoNode}]]
    BY <1>a
  <2>2. set.list \in [Folders -> Seq(Ids)]
    <3>1. s.list[c] \in Seq(Ids)
      BY <1>t
    <3>2. Append(s.list[c], id) \in Seq(Ids)
      BY <3>1
    <3> QED BY <1>5, <1>t, <3>2
  <2>3. set.index \in SUBSET (Seq(Ids) \X Nodes)
    BY <1>5, <1>t
  <2> QED BY <1>r, <2>1, <2>2, <2>3 DEF SiteType
<1>7. AllListed(set)
  <2>1. set.list[c] = Append(s.list[c], id) /\ s.list[c] \in Seq(Ids) /\ Listed(s, c)
    BY <1>0, <1>5, <1>t DEF AllListed
  <2>2. {i \in Ids : set.attr[c][i] # NoNode} = {i \in Ids : s.attr[c][i] # NoNode} \cup {id}
    BY <1>3, <1>a
  <2>3. \A q : ToSet(q) = Range(q)
    BY DEF ToSet, Range
  <2>4. id \notin Range(s.list[c])
    BY <2>1, <2>3 DEF Listed
  <2>5. Range(Append(s.list[c], id)) = Range(s.list[c]) \cup {id}
    BY <2>1, AppendRange
  <2>6. OnceIn(Append(s.list[c], id), Ids)
    BY <2>1, <2>4, OnceAppend DEF Listed
  <2>7. Listed(set, c)
    BY <2>1, <2>2, <2>3, <2>5, <2>6 DEF Listed
  <2>8. \A d \in Folders \ {c} : set.list[d] = s.list[d] /\ set.attr[d] = s.attr[d]
    BY <1>a, <1>5, <1>t
  <2> QED BY <1>0, <2>7, <2>8, ListedElse
<1>8. Rooted(set, Root, U, C)
  <2>1. s.attr \in [Folders -> [Ids -> Nodes \cup {NoNode}]] /\ Differs(s, set, c, id, n)
    BY <1>t, <1>5 DEF Differs
  <2> QED BY <1>1, <1>2, <2>1, GraftIs
<1>9. PICK Q : IsPaths(set, Root, U, Q)
  <2> HIDE DEF U, C
  <2> QED BY <1>8, PathsExist
<1>10. Located(set, Root) = Places(Q, U)
  <2> HIDE DEF U, C
  <2> QED BY <1>6, <1>7, <1>8, <1>9, LocatedIs
<1>11. Below(set, n) = S
  <2>1. c \notin S
    OBVIOUS
  <2>2. \A d \in S \cap Folders : set.attr[d] = s.attr[d]
    BY <1>a, <2>1
  <2>3. Hangs(set, n, S)
    BY <2>2, SameHangs
  <2> QED BY <1>6, <2>3, BelowHangs
<1>12. s.index = Places(Q, T)
  <2> DEFINE q == [m \in T |-> Q[m]]
  <2>1. IsPaths(s, Root, T, q)
    <3>1. q \in [T -> Seq(Ids)] /\ q[Root] = <<>>
      BY <1>0, <1>9 DEF IsPaths
    <3>2. ASSUME NEW d \in T \cap Folders, NEW i \in Ids, s.attr[d][i] # NoNode
          PROVE  q[s.attr[d][i]] = Append(q[d], i)
      <4>1. set.attr[d][i] = s.attr[d][i]
        BY <1>a, <3>2
      <4>2. s.attr[d][i] \in T
        BY <1>1, <3>2, KidIs
      <4> QED BY <1>9, <3>2, <4>1, <4>2 DEF IsPaths
    <3> HIDE DEF q
    <3> QED BY <3>1, <3>2 DEF IsPaths
  <2>2. Located(s, Root) = Places(q, T)
    <3> HIDE DEF q
    <3> QED BY <1>0, <1>1, <2>1, LocatedIs
  <2>3. Places(q, T) = Places(Q, T)
    BY DEF Places
  <2> QED BY <2>2, <2>3 DEF Fits
<1>13. t = [set EXCEPT !.index = Places(Q, U)]
  <2>1. s.index \cup {x \in Located(set, Root) : x[2] \in S} = Places(Q, U)
    BY <1>10, <1>12 DEF Places
  <2> HIDE DEF U
  <2> QED BY <1>4, <1>5, <1>11, <2>1 DEF Indexed
<1>14. t.attr = set.attr /\ t.list = set.list /\ t.index = Places(Q, U) /\ t \in SiteType
  <2>1. Places(Q, U) \in SUBSET (Seq(Ids) \X Nodes)
    <3>1. U \subseteq Nodes
      BY <1>0, <1>3
    <3> HIDE DEF U
    <3> QED BY <1>9, <3>1, PlacesTyped
  <2> HIDE DEF U
  <2> QED BY <1>r, <1>6, <1>13, <2>1 DEF SiteType
<1>15. Rooted(t, Root, U, C) /\ IsPaths(t, Root, U, Q) /\ AllListed(t)
  <2>1. Rooted(t, Root, U, C)
    <3> HIDE DEF U, C
    <3> QED BY <1>8, <1>14, SameTree
  <2>2. IsPaths(t, Root, U, Q)
    BY <1>9, <1>14 DEF IsPaths
  <2>3. AllListed(t)
    BY <1>7, <1>14 DEF AllListed, Listed
  <2> QED BY <2>1, <2>2, <2>3
<1>16. Fits(t, U)
  <2> HIDE DEF U, C
  <2> QED BY <1>14, <1>15, FitsWhen
<1> QED BY <1>4, <1>5, <1>14, <1>16 DEF SetDone, Differs

-----------------------------------------------------------------------------
(* The site between two operations *)

\* Nothing is kept of what left the tree.
Sound(s, T) == Fits(s, T) /\ \A c \in Folders \ T, i \in Ids : s.attr[c][i] = NoNode

TreeInv == \E T : Sound(Site, T)

\* An object that is not in the tree is one alone.
LEMMA AloneHangs ==
    ASSUME NEW s, NEW n \in Nodes, n \in Folders => \A i \in Ids : s.attr[n][i] = NoNode
    PROVE  Hangs(s, n, {n})
<1> DEFINE A == [m \in {n} |-> {n}]
<1>1. Rooted(s, n, {n}, A)
  BY DEF Rooted
<1> HIDE DEF A
<1> QED BY <1>1 DEF Hangs

\* What an operation leaves, when what left the tree is forgotten
Left(s, T) == [list |-> [c \in Folders |-> IF c \in T THEN s.list[c] ELSE <<>>],
               attr |-> [c \in Folders |-> [i \in Ids |-> IF c \in T THEN s.attr[c][i] ELSE NoNode]],
               index |-> s.index]

\* What is left when all that is outside the tree is forgotten
LEMMA LeftSound ==
    ASSUME NEW s, NEW T, Fits(s, T)
    PROVE  Sound(Left(s, T), T)
<1> DEFINE t == Left(s, T)
<1>0. s \in SiteType /\ AllListed(s) /\ Root \in T /\ T \subseteq Nodes
  BY FitsTyped
<1>1. /\ s.attr \in [Folders -> [Ids -> Nodes \cup {NoNode}]]
      /\ s.list \in [Folders -> Seq(Ids)]
      /\ s.index \in SUBSET (Seq(Ids) \X Nodes)
  BY <1>0, SiteTyped
<1>2. /\ t.attr \in [Folders -> [Ids -> Nodes \cup {NoNode}]]
      /\ \A c \in T \cap Folders : t.attr[c] = s.attr[c]
      /\ \A c \in Folders \ T, i \in Ids : t.attr[c][i] = NoNode
  <2>1. t.attr = [c \in Folders |-> [i \in Ids |-> IF c \in T THEN s.attr[c][i] ELSE NoNode]]
    BY DEF Left
  <2> HIDE DEF t
  <2>2. ASSUME NEW c \in T \cap Folders PROVE t.attr[c] = s.attr[c]
    <3>1. s.attr[c] = [i \in Ids |-> s.attr[c][i]]
      BY <1>1
    <3>2. t.attr[c] = [i \in Ids |-> s.attr[c][i]]
      BY <2>1
    <3> QED BY <3>1, <3>2
  <2>3. \A c \in Folders \ T, i \in Ids : t.attr[c][i] = NoNode
    BY <2>1
  <2>4. t.attr \in [Folders -> [Ids -> Nodes \cup {NoNode}]]
    BY <1>1, <2>1
  <2> QED BY <2>2, <2>3, <2>4
<1>3. /\ t.list \in [Folders -> Seq(Ids)]
      /\ \A c \in T \cap Folders : t.list[c] = s.list[c]
      /\ \A c \in Folders \ T : t.list[c] = <<>>
  <2>1. <<>> \in Seq(Ids)
    OBVIOUS
  <2> QED BY <1>1, <2>1 DEF Left
<1>4. t.index = s.index /\ t = [list |-> t.list, attr |-> t.attr, index |-> t.index]
  BY DEF Left
<1> HIDE DEF t
<1>5. t \in SiteType
  BY <1>1, <1>2, <1>3, <1>4 DEF SiteType
<1>6. ASSUME NEW c \in Folders PROVE Listed(t, c)
  <2>1. CASE c \in T
    <3>1. t.list[c] = s.list[c] /\ t.attr[c] = s.attr[c] /\ Listed(s, c)
      BY <1>0, <1>2, <1>3, <2>1 DEF AllListed
    <3> QED BY <3>1 DEF Listed
  <2>2. CASE c \notin T
    <3>1. t.list[c] = <<>> /\ {i \in Ids : t.attr[c][i] # NoNode} = {}
      BY <1>2, <1>3, <2>2
    <3>2. ToSet(<<>>) = {} /\ OnceIn(<<>>, Ids)
      BY EmptyList DEF ToSet
    <3> QED BY <3>1, <3>2 DEF Listed
  <2> QED BY <2>1, <2>2
<1>7. AllListed(t)
  BY <1>6 DEF AllListed
<1>8. Fits(t, T)
  BY <1>2, <1>4, <1>5, <1>7, FitsElse
<1>9. Sound(t, T)
  BY <1>2, <1>8 DEF Sound
<1> QED BY <1>9 DEF t

\* An operation ends with the site it made, or with what is left of it.
LEMMA BecomesSound ==
    ASSUME NEW CONSTANT s, NEW CONSTANT T, Fits(s, T), NEW ls, Becomes(s, ls)
    PROVE  Site' = Left(s, T) /\ Sound(Left(s, T), T) /\ (TreeInv)'
<1>1. Below(s, Root) = T
  BY BelowFits
<1>2. Site' = Left(s, T)
  BY <1>1 DEF Becomes, Site, Left
<1>3. Sound(Left(s, T), T)
  BY LeftSound
<1>4. TreeInv'
  BY <1>2, <1>3 DEF TreeInv
<1> QED BY <1>2, <1>3, <1>4

\* What a sound site is made of
LEMMA SoundTyped ==
    ASSUME NEW s, NEW T, Sound(s, T)
    PROVE  /\ s \in SiteType /\ AllListed(s) /\ Root \in T /\ T \subseteq Nodes /\ Fits(s, T)
           /\ s.attr \in [Folders -> [Ids -> Nodes \cup {NoNode}]]
           /\ s.list \in [Folders -> Seq(Ids)]
           /\ \A c \in Folders \ T, i \in Ids : s.attr[c][i] = NoNode
           /\ Below(s, Root) = T
<1>1. Fits(s, T) /\ \A c \in Folders \ T, i \in Ids : s.attr[c][i] = NoNode
  BY DEF Sound
<1>2. s \in SiteType /\ AllListed(s) /\ Root \in T /\ T \subseteq Nodes
  BY <1>1, FitsTyped
<1>3. Below(s, Root) = T
  BY <1>1, BelowFits
<1> QED BY <1>1, <1>2, <1>3, SiteTyped

\* What is in a folder is in the tree, in that folder alone.
LEMMA KidSound ==
    ASSUME NEW s, NEW T, Sound(s, T), NEW c \in Folders, NEW i \in Ids, NEW n, s.attr[c][i] = n, n # NoNode
    PROVE  /\ n \in T \ {Root} /\ c \in T
           /\ \A d \in Folders, j \in Ids : s.attr[d][j] = n => d = c /\ j = i
           /\ Placed(s, n) /\ Container(s, n) = c /\ IdOf(s, n) = i
<1>0. \A d \in Folders \ T, j \in Ids : s.attr[d][j] = NoNode
  BY SoundTyped
<1>1. PICK A : Rooted(s, Root, T, A)
  BY DEF Sound, Fits, Hangs
<1>2. c \in T
  BY <1>0
<1>3. n \in T \ {Root}
  BY <1>1, <1>2 DEF Rooted
<1>4. ASSUME NEW d \in Folders, NEW j \in Ids, s.attr[d][j] = n PROVE d = c /\ j = i
  <2>1. d \in T
    BY <1>0, <1>4
  <2> QED BY <1>1, <1>2, <1>4, <2>1 DEF Rooted
<1>5. Container(s, n) = c
  BY <1>4 DEF Container
<1>6. IdOf(s, n) = i
  BY <1>4, <1>5 DEF IdOf
<1> QED BY <1>2, <1>3, <1>4, <1>5, <1>6 DEF Placed

\* Container and IdOf tell where an object is.
LEMMA PlacedSound ==
    ASSUME NEW s, NEW T, Sound(s, T), NEW n
    PROVE  /\ n \in T \ {Root} =>
                 /\ Container(s, n) \in T \cap Folders /\ IdOf(s, n) \in Ids
                 /\ s.attr[Container(s, n)][IdOf(s, n)] = n /\ n # NoNode /\ Placed(s, n)
           /\ n # NoNode => (Placed(s, n) <=> n \in T \ {Root})
<1>1. PICK A : Rooted(s, Root, T, A)
  BY DEF Sound, Fits, Hangs
<1>2. ASSUME n \in T \ {Root}
      PROVE  /\ Container(s, n) \in T \cap Folders /\ IdOf(s, n) \in Ids
             /\ s.attr[Container(s, n)][IdOf(s, n)] = n /\ n # NoNode /\ Placed(s, n)
  <2>1. PICK c \in T \cap Folders, i \in Ids : s.attr[c][i] = n /\ n # NoNode
    BY <1>1, <1>2, FolderIs
  <2> QED BY <2>1, KidSound
<1>3. ASSUME n # NoNode, Placed(s, n) PROVE n \in T \ {Root}
  BY <1>3, KidSound DEF Placed
<1> QED BY <1>2, <1>3

\* The objects that InTree allows are those of the tree.
LEMMA InTreeIs ==
    ASSUME NEW T, Sound(Site, T), NEW n \in Nodes
    PROVE  InTree(n) <=> n \in T
<1>1. n # NoNode /\ Root \in T
  BY FinitelyMany, SoundTyped
<1>2. Placed(Site, n) <=> n \in T \ {Root}
  BY <1>1, PlacedSound
<1> QED BY <1>1, <1>2 DEF InTree

\* No folder of t has another object than it had in s, but n.
NothingElse(s, t, n) == \A d \in Folders, i \in Ids : t.attr[d][i] \in {NoNode, n, s.attr[d][i]}

\* What changes in one place
LEMMA DiffersIs ==
    ASSUME NEW s, s.attr \in [Folders -> [Ids -> Nodes \cup {NoNode}]], NEW c \in Folders, NEW id \in Ids,
           NEW n, NEW v \in {NoNode, n}, NEW t, Differs(s, t, c, id, v)
    PROVE  NothingElse(s, t, n)
BY DEF Differs, NothingElse

\* What _setObject puts may take the place of another object.
SetOverDone(s, T, c, id, n, S, t) ==
    /\ \E R : R \subseteq T /\ c \in R /\ Fits(t, R \cup S)
    /\ s.attr[c][id] = NoNode => Fits(t, T \cup S)
    /\ t = Indexed(SetObject(s, c, id, n, FALSE), n) /\ t.attr[c][id] = n
    /\ NothingElse(s, t, n)

\* _setObject where something may be in the place already
LEMMA SetOver ==
    ASSUME NEW s, NEW T, Fits(s, T), NEW c \in T \cap Folders, NEW id \in Ids,
           NEW n, NEW S, Hangs(s, n, S), S \cap T = {}, NEW t, SetObject(s, c, id, n, TRUE) = t
    PROVE  SetOverDone(s, T, c, id, n, S, t)
<1>1. CASE s.attr[c][id] = NoNode
  <2>1. SetDone(s, T, c, id, n, S, t)
    BY <1>1, SetFits
  <2>2. t.attr[c][id] = n
    <3>1. s.attr \in [Folders -> [Ids -> Nodes \cup {NoNode}]]
      BY FitsTyped, SiteTyped
    <3> QED BY <2>1, <3>1 DEF SetDone, Differs
  <2>3. NothingElse(s, t, n)
    <3>1. s.attr \in [Folders -> [Ids -> Nodes \cup {NoNode}]]
      BY FitsTyped, SiteTyped
    <3> QED BY <2>1, <3>1, DiffersIs DEF SetDone
  <2> QED BY <1>1, <2>1, <2>2, <2>3 DEF SetDone, SetOverDone
<1>2. CASE s.attr[c][id] # NoNode
  <2> DEFINE old == s.attr[c][id]
             free == DelObject(s, c, id, TRUE)
             B == Below(s, old)
             R == T \ B
  <2>1. DelDone(s, T, c, id, old, B, free)
    BY <1>2, DelFits
  <2>2. Fits(free, T \ B) /\ c \notin B /\ Differs(s, free, c, id, NoNode)
    BY <2>1 DEF DelDone
  <2>3. s.attr \in [Folders -> [Ids -> Nodes \cup {NoNode}]]
    BY FitsTyped, SiteTyped
  <2>4. free.attr[c][id] = NoNode /\ \A d \in Folders : d # c => free.attr[d] = s.attr[d]
    <3> HIDE DEF free
    <3> QED BY <2>2, <2>3 DEF Differs
  <2>5. Hangs(free, n, S)
    <3>1. \A d \in S \cap Folders : free.attr[d] = s.attr[d]
      <4> HIDE DEF free
      <4> QED BY <2>4
    <3> HIDE DEF free
    <3> QED BY <3>1, SameHangs
  <2>6. SetObject(free, c, id, n, TRUE) = t /\ SetObject(s, c, id, n, FALSE) = SetObject(free, c, id, n, FALSE)
    <3> HIDE DEF free
    <3>1. free = DelObject(s, c, id, TRUE)
      BY DEF free
    <3> QED BY <1>2, <2>4, <3>1 DEF SetObject
  <2>7. SetDone(free, R, c, id, n, S, t)
    <3>1. Fits(free, R) /\ c \in R \cap Folders /\ S \cap R = {}
      BY <2>2
    <3>2. free.attr[c][id] = NoNode
      BY <2>4
    <3> HIDE DEF free, R
    <3> QED BY <3>1, <3>2, <2>5, <2>6, SetFits
  <2>8. R \subseteq T /\ c \in R
    BY <2>2
  <2>9. t.attr[c][id] = n
    <3>1. free.attr \in [Folders -> [Ids -> Nodes \cup {NoNode}]]
      BY <2>2, FitsTyped, SiteTyped
    <3> HIDE DEF R, free
    <3> QED BY <2>7, <3>1 DEF SetDone, Differs
  <2>10. NothingElse(s, t, n)
    <3>1. free.attr \in [Folders -> [Ids -> Nodes \cup {NoNode}]]
      BY <2>2, FitsTyped, SiteTyped
    <3> HIDE DEF R, free
    <3>2. NothingElse(free, t, n) /\ NothingElse(s, free, n)
      BY <2>2, <2>3, <2>7, <3>1, DiffersIs DEF SetDone
    <3> QED BY <3>2 DEF NothingElse
  <2> HIDE DEF R, free
  <2> QED BY <1>2, <2>6, <2>7, <2>8, <2>9, <2>10 DEF SetDone, SetOverDone
<1> QED BY <1>1, <1>2

\* _get_id finds ids that are free.
LEMMA FreeIdsAre ==
    ASSUME NEW s, NEW c, NEW id \in Ids
    PROVE  FreeIds(s, c, id) \subseteq {i \in Ids : s.attr[c][i] = NoNode}
<1> DEFINE K == Cardinality(Ids)
           D == {q \in Seq(Ids) : q # <<>>}
           WithNext(t) == IF Last(t) \in DOMAIN CopyOf THEN Append(t, CopyOf[Last(t)]) ELSE t
           G == [t \in D |-> WithNext(t)]
           tried[k \in 0 .. K] == IF k = 0 THEN <<id>> ELSE WithNext(tried[k - 1])
<1>1. FreeIds(s, c, id) = {tried[K][k] : k \in {x \in {k \in DOMAIN tried[K] : s.attr[c][tried[K][k]] = NoNode} :
                                            \A y \in {k \in DOMAIN tried[K] : s.attr[c][tried[K][k]] = NoNode} : x <= y}}
  BY DEF FreeIds
<1>2. K \in Nat /\ <<id>> \in D
  BY FinitelyMany, FS_CardinalityType
<1>3. G \in [D -> D]
  <2>1. ASSUME NEW t \in D PROVE WithNext(t) \in D
    <3>1. ASSUME Last(t) \in DOMAIN CopyOf PROVE Append(t, CopyOf[Last(t)]) \in D
      <4>1. CopyOf[Last(t)] \in Ids
        BY <3>1, TreeAssumption
      <4>2. t \in Seq(Ids)
        OBVIOUS
      <4> QED BY <4>1, <4>2, AppendProperties
    <3> QED BY <3>1
  <2> HIDE DEF D, WithNext
  <2> QED BY <2>1
<1>4. tried \in [0 .. K -> D]
  <2>1. PICK f \in [0 .. K -> D] : Iterates(f, <<id>>, G, K)
    <3> HIDE DEF D, G, K
    <3> QED BY <1>2, <1>3, StepsDefined
  <2>2. ASSUME NEW k \in 0 .. K, k # 0 PROVE f[k] = WithNext(f[k - 1])
    <3>0. k - 1 \in 0 .. K
      BY <2>2, <1>2
    <3>1. k - 1 \in 0 .. K /\ f[k] = G[f[k - 1]]
      <4> HIDE DEF D, G, K
      <4> QED BY <3>0, <2>1, <2>2 DEF Iterates
    <3>2. f[k - 1] \in D
      <4> HIDE DEF D, G
      <4> QED BY <3>1
    <3> HIDE DEF D, WithNext
    <3> QED BY <3>1, <3>2
  <2>3. f = [k \in 0 .. K |-> IF k = 0 THEN <<id>> ELSE WithNext(f[k - 1])]
    <3>1. f[0] = <<id>> /\ f = [k \in 0 .. K |-> f[k]]
      BY <2>1, <1>2 DEF Iterates
    <3> HIDE DEF D, G, K, WithNext
    <3> QED BY <2>2, <3>1
  <2>4. tried = [k \in 0 .. K |-> IF k = 0 THEN <<id>> ELSE WithNext(tried[k - 1])]
    <3> HIDE DEF K
    <3> QED BY <2>3, Zenon
  <2> DEFINE F == {k \in Nat : k <= K => tried[k] \in D}
  <2> HIDE DEF tried, K
  <2>5. 0 \in F
    BY <2>4, <1>2
  <2>6. ASSUME NEW k \in Nat, k \in F PROVE k + 1 \in F
    <3> SUFFICES ASSUME k + 1 <= K PROVE tried[k + 1] \in D
      OBVIOUS
    <3>1. tried[k] \in D /\ k + 1 \in 0 .. K /\ k + 1 # 0 /\ (k + 1) - 1 = k
      BY <1>2, <2>6
    <3>2. tried[k + 1] = WithNext(tried[k])
      <4> HIDE DEF WithNext, D
      <4> QED BY <2>4, <3>1
    <3>3. G[tried[k]] = WithNext(tried[k]) /\ G[tried[k]] \in D
      <4>1. G[tried[k]] = WithNext(tried[k])
        <5> HIDE DEF WithNext, D
        <5> QED BY <3>1
      <4> HIDE DEF WithNext, D, G
      <4> QED BY <1>3, <3>1, <4>1
    <3> HIDE DEF WithNext, D, G
    <3> QED BY <3>2, <3>3
  <2>7. Nat \subseteq F
    <3> HIDE DEF F
    <3> QED BY <2>5, <2>6, NatSetInduction
  <2>8. \A k \in 0 .. K : tried[k] \in D
    <3> HIDE DEF D
    <3> QED BY <2>7, <1>2
  <2>9. tried = [k \in 0 .. K |-> tried[k]]
    <3> DEFINE Body(k) == IF k = 0 THEN <<id>> ELSE WithNext(tried[k - 1])
    <3>1. tried = [k \in 0 .. K |-> Body(k)]
      BY <2>4
    <3> HIDE DEF Body
    <3> QED BY <3>1
  <2> HIDE DEF D
  <2> QED BY <2>8, <2>9
<1> DEFINE ids == tried[K]
<1>5. ids \in Seq(Ids)
  <2> HIDE DEF tried
  <2> QED BY <1>2, <1>4
<1>6. ASSUME NEW k \in DOMAIN ids PROVE ids[k] \in Ids
  <2> HIDE DEF ids
  <2> QED BY <1>5
<1> HIDE DEF tried
<1> QED BY <1>1, <1>6

-----------------------------------------------------------------------------
(* Copies *)

\* m makes copies of some objects, which are new and of the same kinds.
Copying(s, T, U, m) ==
    /\ m \in [U -> Nodes \ T] /\ U \subseteq T
    /\ \A x, y \in U : m[x] = m[y] => x = y
    /\ \A x \in U : x \in Folders <=> m[x] \in Folders

Made(U, m) == {m[x] : x \in U}

\* What the folders of the copies hold
CopyIs(s, U, m, t) ==
    /\ \A x \in U \cap Folders : /\ t.list[m[x]] = Only(s.list[x], {i \in Ids : s.attr[x][i] \in U})
                                 /\ \A i \in Ids : t.attr[m[x]][i] = IF s.attr[x][i] \in U THEN m[s.attr[x][i]] ELSE NoNode
    /\ \A c \in Folders \ Made(U, m) : t.list[c] = s.list[c] /\ t.attr[c] = s.attr[c]
    /\ t.index = s.index

\* What WithCopies makes
LEMMA WithCopiesIs ==
    ASSUME NEW s, NEW T, Fits(s, T), NEW U, NEW m, Copying(s, T, U, m), NEW t, WithCopies(s, m) = t
    PROVE  CopyIs(s, U, m, t) /\ t \in SiteType
<1>0. s \in SiteType /\ T \subseteq Nodes
  BY FitsTyped
<1>t. /\ s.attr \in [Folders -> [Ids -> Nodes \cup {NoNode}]]
      /\ s.list \in [Folders -> Seq(Ids)]
      /\ s.index \in SUBSET (Seq(Ids) \X Nodes)
  BY <1>0, SiteTyped
<1>m. /\ m \in [U -> Nodes \ T] /\ U \subseteq T /\ DOMAIN m = U
      /\ \A x, y \in U : m[x] = m[y] => x = y
      /\ \A x \in U : x \in Folders <=> m[x] \in Folders
  BY DEF Copying
<1> DEFINE source(n) == CHOOSE x \in DOMAIN m : m[x] = n
           made == {m[x] : x \in DOMAIN m}
           L == [c \in Folders |-> IF c \notin made THEN s.list[c]
                                   ELSE Only(s.list[source(c)], {i \in Ids : s.attr[source(c)][i] \in DOMAIN m})]
           M == [c \in Folders |-> IF c \notin made THEN s.attr[c]
                                   ELSE [i \in Ids |-> LET k == s.attr[source(c)][i]
                                                       IN  IF k \in DOMAIN m THEN m[k] ELSE NoNode]]
<1>1. t = [s EXCEPT !.list = L, !.attr = M]
  BY DEF WithCopies
<1>2. made = Made(U, m)
  BY <1>m DEF Made
<1>3. ASSUME NEW x \in U PROVE source(m[x]) = x
  BY <1>m
<1>4. ASSUME NEW c \in made PROVE source(c) \in U /\ m[source(c)] = c
  BY <1>m
<1> HIDE DEF source
<1>5. ASSUME NEW c \in Folders PROVE L[c] \in Seq(Ids)
  <2>1. CASE c \notin made
    BY <1>t, <2>1
  <2>2. CASE c \in made
    <3> DEFINE x == source(c)
               kept == {i \in Ids : s.attr[x][i] \in DOMAIN m}
    <3>1. x \in Folders
      BY <1>4, <1>m, <2>2
    <3>2. s.list[x] \in Seq(Ids)
      BY <1>t, <3>1
    <3>3. Only(s.list[x], kept) \in Seq(Ids)
      <4> HIDE DEF kept, x
      <4> QED BY <3>2, OnlyIs
    <3> QED BY <2>2, <3>3
  <2> QED BY <2>1, <2>2
<1>6. ASSUME NEW c \in Folders PROVE M[c] \in [Ids -> Nodes \cup {NoNode}]
  <2>1. CASE c \notin made
    BY <1>t, <2>1
  <2>2. CASE c \in made
    BY <1>m, <2>2
  <2> QED BY <2>1, <2>2
<1>7. L \in [Folders -> Seq(Ids)] /\ M \in [Folders -> [Ids -> Nodes \cup {NoNode}]]
  <2>1. L \in [Folders -> Seq(Ids)]
    BY <1>5
  <2>2. M \in [Folders -> [Ids -> Nodes \cup {NoNode}]]
    BY <1>6
  <2> QED BY <2>1, <2>2
<1>8. ASSUME NEW x \in U \cap Folders
      PROVE  /\ L[m[x]] = Only(s.list[x], {i \in Ids : s.attr[x][i] \in U})
             /\ \A i \in Ids : M[m[x]][i] = IF s.attr[x][i] \in U THEN m[s.attr[x][i]] ELSE NoNode
  <2>1. m[x] \in made /\ m[x] \in Folders /\ source(m[x]) = x
    BY <1>3, <1>m
  <2> HIDE DEF made
  <2> QED BY <1>m, <2>1
<1>9. \A c \in Folders \ made : L[c] = s.list[c] /\ M[c] = s.attr[c]
  OBVIOUS
<1> HIDE DEF L, M, made
<1>10. t.list = L /\ t.attr = M /\ t.index = s.index /\ t \in SiteType
  BY <1>0, <1>1, <1>7 DEF SiteType
<1> QED BY <1>2, <1>8, <1>9, <1>10 DEF CopyIs

\* The copies hang together as what they are copies of.
LEMMA CopyRooted ==
    ASSUME NEW s, NEW T, NEW U, NEW m, Copying(s, T, U, m), T \subseteq Nodes,
           NEW n, NEW V, NEW B, Rooted(s, n, V, B), n \in U, U \subseteq V, \A x \in U : B[x] \subseteq U,
           NEW t, CopyIs(s, U, m, t)
    PROVE  Hangs(t, m[n], Made(U, m))
<1>m. /\ m \in [U -> Nodes \ T] /\ U \subseteq T
      /\ \A x, y \in U : m[x] = m[y] => x = y
      /\ \A x \in U : x \in Folders <=> m[x] \in Folders
  BY DEF Copying
<1> DEFINE made == Made(U, m)
           src == [k \in made |-> CHOOSE x \in U : m[x] = k]
           C == [k \in made |-> {m[y] : y \in B[src[k]]}]
<1>1. /\ \A x \in U : m[x] \in made /\ src[m[x]] = x
      /\ \A k \in made : src[k] \in U /\ m[src[k]] = k
  BY <1>m DEF Made
<1>2. \A x \in U : C[m[x]] = {m[y] : y \in B[x]}
  <2> HIDE DEF src, made
  <2> QED BY <1>1
<1>3. made \in SUBSET Nodes /\ m[n] \in made
  BY <1>m DEF Made
<1> HIDE DEF src, made
<1>4. C \in [made -> SUBSET made]
  BY <1>1
<1> HIDE DEF C
<1>5. C[m[n]] = {m[n]}
  BY <1>2 DEF Rooted
<1>6. ASSUME NEW k \in made
      PROVE  k \in C[k] /\ C[k] \ {k} \subseteq Folders /\ \A l \in C[k] : C[l] \subseteq C[k]
  <2>1. PICK x \in U : k = m[x]
    BY <1>1
  <2>2. x \in B[x] /\ B[x] \ {x} \subseteq Folders /\ (\A y \in B[x] : B[y] \subseteq B[x]) /\ B[x] \subseteq U
    BY DEF Rooted
  <2>3. C[k] = {m[y] : y \in B[x]}
    BY <1>2, <2>1
  <2>4. k \in C[k] /\ C[k] \ {k} \subseteq Folders
    BY <1>m, <2>1, <2>2, <2>3
  <2>5. ASSUME NEW l \in C[k] PROVE C[l] \subseteq C[k]
    <3>1. PICK y \in B[x] : l = m[y]
      BY <2>3
    <3>2. C[l] = {m[z] : z \in B[y]}
      BY <1>2, <2>2, <3>1
    <3> QED BY <2>2, <2>3, <3>2
  <2> QED BY <2>4, <2>5
<1>7. ASSUME NEW c \in made \cap Folders, NEW i \in Ids, t.attr[c][i] # NoNode
      PROVE  \E x \in U \cap Folders : /\ c = m[x] /\ s.attr[x][i] \in U /\ s.attr[x][i] # NoNode
                                       /\ t.attr[c][i] = m[s.attr[x][i]]
  <2>1. PICK x \in U : c = m[x]
    BY <1>1
  <2>2. x \in Folders
    BY <1>m, <2>1
  <2>3. t.attr[c][i] = IF s.attr[x][i] \in U THEN m[s.attr[x][i]] ELSE NoNode
    BY <2>1, <2>2 DEF CopyIs
  <2>4. NoNode \notin U
    BY <1>m, FinitelyMany
  <2> QED BY <1>7, <2>1, <2>2, <2>3, <2>4
<1>8. ASSUME NEW c \in made \cap Folders, NEW i \in Ids, t.attr[c][i] # NoNode
      PROVE  t.attr[c][i] \in made \ {m[n]} /\ t.attr[c][i] \notin C[c] /\ C[t.attr[c][i]] = {t.attr[c][i]} \cup C[c]
  <2>1. PICK x \in U \cap Folders : c = m[x] /\ s.attr[x][i] \in U /\ s.attr[x][i] # NoNode /\ t.attr[c][i] = m[s.attr[x][i]]
    BY <1>7, <1>8
  <2> DEFINE k == s.attr[x][i]
  <2>2. k \in U /\ k # n /\ k \notin B[x] /\ B[k] = {k} \cup B[x] /\ B[x] \subseteq U
    <3>1. s.attr[x][i] = k /\ k # NoNode /\ x \in V \cap Folders
      BY <2>1
    <3>2. k \in U
      BY <2>1
    <3> HIDE DEF k
    <3> QED BY <3>1, <3>2, KidIs
  <2> HIDE DEF k
  <2>3. C[m[k]] = {m[y] : y \in B[k]} /\ C[c] = {m[y] : y \in B[x]}
    BY <1>2, <2>1, <2>2
  <2>4. m[k] \in made \ {m[n]}
    BY <1>1, <1>m, <2>2
  <2>5. m[k] \notin C[c]
    BY <1>m, <2>2, <2>3
  <2>6. C[m[k]] = {m[k]} \cup C[c]
    BY <2>2, <2>3
  <2> QED BY <2>1, <2>4, <2>5, <2>6 DEF k
<1>9. ASSUME NEW k \in made \ {m[n]} PROVE \E c \in made \cap Folders, i \in Ids : t.attr[c][i] = k
  <2>1. PICK x \in U : k = m[x] /\ x # n
    BY <1>1
  <2>2. x \in V \ {n}
    BY <2>1
  <2>3. PICK d \in V \cap Folders, i \in Ids : s.attr[d][i] = x /\ x # NoNode
    BY <2>2, FolderIs
  <2>4. d \in B[x]
    BY <2>3, KidIs
  <2>5. d \in U /\ m[d] \in made \cap Folders
    BY <1>1, <1>m, <2>3, <2>4
  <2>6. t.attr[m[d]][i] = k
    BY <2>1, <2>3, <2>5 DEF CopyIs
  <2> QED BY <2>5, <2>6
<1>10. ASSUME NEW c \in made \cap Folders, NEW d \in made \cap Folders, NEW i \in Ids, NEW j \in Ids,
             t.attr[c][i] # NoNode, t.attr[c][i] = t.attr[d][j]
      PROVE  c = d /\ i = j
  <2>1. PICK x \in U \cap Folders : c = m[x] /\ s.attr[x][i] \in U /\ s.attr[x][i] # NoNode /\ t.attr[c][i] = m[s.attr[x][i]]
    BY <1>7, <1>10
  <2>2. PICK y \in U \cap Folders : d = m[y] /\ s.attr[y][j] \in U /\ s.attr[y][j] # NoNode /\ t.attr[d][j] = m[s.attr[y][j]]
    BY <1>7, <1>10
  <2>3. s.attr[x][i] = s.attr[y][j]
    BY <1>m, <1>10, <2>1, <2>2
  <2>4. x = y /\ i = j
    BY <2>1, <2>3 DEF Rooted
  <2> QED BY <2>1, <2>2, <2>4
<1>11. Rooted(t, m[n], made, C)
  BY <1>3, <1>4, <1>5, <1>6, <1>8, <1>9, <1>10 DEF Rooted
<1> QED BY <1>11 DEF Hangs, made

\* The copies, outside the tree yet, change nothing in it.
LEMMA CopyFits ==
    ASSUME NEW s, NEW T, Fits(s, T), NEW U, NEW m, Copying(s, T, U, m), NEW t, t \in SiteType, CopyIs(s, U, m, t)
    PROVE  Fits(t, T)
<1>0. s \in SiteType /\ T \subseteq Nodes /\ AllListed(s)
  BY FitsTyped
<1>t. /\ s.attr \in [Folders -> [Ids -> Nodes \cup {NoNode}]]
      /\ s.list \in [Folders -> Seq(Ids)]
  BY <1>0, SiteTyped
<1>m. /\ m \in [U -> Nodes \ T] /\ U \subseteq T
      /\ \A x \in U : x \in Folders <=> m[x] \in Folders
  BY DEF Copying
<1>1. \A c \in T \cap Folders : t.attr[c] = s.attr[c]
  BY <1>m DEF CopyIs, Made
<1>2. ASSUME NEW c \in Folders PROVE Listed(t, c)
  <2>1. CASE c \notin Made(U, m)
    <3>1. t.list[c] = s.list[c] /\ t.attr[c] = s.attr[c] /\ Listed(s, c)
      BY <1>0, <2>1 DEF CopyIs, AllListed
    <3> QED BY <3>1 DEF Listed
  <2>2. CASE c \in Made(U, m)
    <3>1. PICK x \in U : c = m[x]
      BY <2>2 DEF Made
    <3>2. x \in Folders
      BY <1>m, <3>1
    <3> DEFINE kept == {i \in Ids : s.attr[x][i] \in U}
    <3>3. t.list[c] = Only(s.list[x], kept) /\ \A i \in Ids : t.attr[c][i] = IF s.attr[x][i] \in U THEN m[s.attr[x][i]] ELSE NoNode
      BY <3>1, <3>2 DEF CopyIs
    <3>4. NoNode \notin U /\ \A y \in U : m[y] # NoNode
      BY <1>0, <1>m, FinitelyMany
    <3>5. {i \in Ids : t.attr[c][i] # NoNode} = kept
      BY <3>3, <3>4
    <3>6. Listed(s, x) /\ s.list[x] \in Seq(Ids)
      BY <1>0, <1>t, <3>2 DEF AllListed
    <3>7. kept \subseteq ToSet(s.list[x])
      BY <3>4, <3>6 DEF Listed
    <3> HIDE DEF kept
    <3>8. ToSet(Only(s.list[x], kept)) = ToSet(s.list[x]) \cap kept /\ OnceIn(Only(s.list[x], kept), Ids)
      BY <3>6, OnlyIs DEF Listed
    <3> QED BY <3>3, <3>5, <3>7, <3>8 DEF Listed
  <2> QED BY <2>1, <2>2
<1>3. AllListed(t)
  BY <1>2 DEF AllListed
<1>4. t.index = s.index
  BY DEF CopyIs
<1> QED BY <1>1, <1>3, <1>4, FitsElse

-----------------------------------------------------------------------------
(* manage_delObjects *)

\* What is left when objects are deleted one by one
DelsOf(s, c, ids) == FoldLeft(LAMBDA x, id : DelObject(x, c, id, TRUE), s, SetToSeq(ids))

\* W tells what holds of a site once some ids are deleted, and holds after one more.
HoldsOfMore(W, c, ids) ==
    \A u \in SUBSET ids, i \in ids, x, y \in SiteType :
        <<u, x>> \in W /\ x.attr[c][i] # NoNode /\ y = DelObject(x, c, i, TRUE) => <<u \cup {i}, y>> \in W

\* manage_delObjects deletes one object after the other: each deletion leaves a tree.
LEMMA DelsFit ==
    ASSUME NEW s, NEW T, Fits(s, T), NEW c \in T \cap Folders, NEW ids \in SUBSET Ids,
           \A i \in ids : s.attr[c][i] # NoNode,
           NEW t, DelsOf(s, c, ids) = t,
           NEW W, <<{}, s>> \in W, HoldsOfMore(W, c, ids)
    PROVE  (\E R : Fits(t, R)) /\ <<ids, t>> \in W
<1> DEFINE n == Cardinality(ids)
           q == SetToSeq(ids)
           D == {x \in SiteType : \E R \in SUBSET Nodes : Fits(x, R) /\ c \in R}
           G == [p \in (1 .. n) \X D |-> IF p[2].attr[c][q[p[1]]] = NoNode THEN p[2]
                                         ELSE DelObject(p[2], c, q[p[1]], TRUE)]
           iter[u \in SUBSET DOMAIN q] ==
             IF u = {} THEN s ELSE DelObject(iter[u \ {Max(u)}], c, q[Max(u)], TRUE)
<1>1. t = iter[DOMAIN q]
  BY DEF DelsOf, FoldLeft, MapThenFoldSet
<1>2. IsFiniteSet(ids)
  BY FinitelyMany, FS_Subset
<1>3. /\ n \in Nat /\ q \in [1 .. n -> ids] /\ DOMAIN q = 1 .. n
      /\ \A i, j \in 1 .. n : q[i] = q[j] => i = j
      /\ \A i \in ids : \E k \in 1 .. n : q[k] = i
  BY <1>2, SeqOfSet
<1>4. ASSUME NEW x \in D, NEW k \in 1 .. n, x.attr[c][q[k]] # NoNode
      PROVE  /\ DelObject(x, c, q[k], TRUE) \in D
             /\ \A j \in 1 .. n : j # k => DelObject(x, c, q[k], TRUE).attr[c][q[j]] = x.attr[c][q[j]]
  <2>0. q[k] \in Ids
    <3> HIDE DEF q, n
    <3> QED BY <1>3
  <2>1. PICK R \in SUBSET Nodes : Fits(x, R) /\ c \in R
    BY <1>4
  <2>2. PICK m, y, S : x.attr[c][q[k]] = m /\ DelObject(x, c, q[k], TRUE) = y /\ Below(x, m) = S
    OBVIOUS
  <2> HIDE DEF q, n, D
  <2>3. DelDone(x, R, c, q[k], m, S, y)
    BY <1>4, <2>0, <2>1, <2>2, DelFits
  <2>4. Fits(y, R \ S) /\ c \in R \ S /\ Differs(x, y, c, q[k], NoNode)
    BY <2>1, <2>3 DEF DelDone
  <2>5. y \in D
    BY <2>4, FitsTyped DEF D
  <2>6. x.attr \in [Folders -> [Ids -> Nodes \cup {NoNode}]]
    BY <2>1, FitsTyped, SiteTyped
  <2>7. ASSUME NEW j \in 1 .. n, j # k PROVE y.attr[c][q[j]] = x.attr[c][q[j]]
    <3>1. q[j] \in Ids /\ q[j] # q[k]
      BY <1>3, <2>7
    <3> QED BY <2>0, <2>4, <2>6, <3>1 DEF Differs
  <2> QED BY <2>2, <2>5, <2>7
<1>5. G \in [(1 .. n) \X D -> D]
  <2> HIDE DEF n, q, D
  <2> QED BY <1>4
<1>6. s \in D
  BY FitsTyped
<1>7. PICK f \in [SUBSET (1 .. n) -> D] : FoldsUp(f, s, G, n)
  <2> HIDE DEF n, q, D, G
  <2> QED BY <1>3, <1>5, <1>6, FoldUp
<1> DEFINE E(u) == {q[k] : k \in u}
           F == {u \in SUBSET (1 .. n) : /\ \A k \in (1 .. n) \ u : f[u].attr[c][q[k]] # NoNode
                                        /\ <<E(u), f[u]>> \in W}
<1>8. {} \in F
  <2>1. ASSUME NEW k \in 1 .. n PROVE f[{}].attr[c][q[k]] # NoNode
    <3> HIDE DEF n, q, G, D
    <3>1. q[k] \in ids /\ f[{}] = s
      BY <1>3, <1>7 DEF FoldsUp
    <3> QED BY <3>1
  <2>2. f[{}] = s
    <3> HIDE DEF n, q, G, D
    <3> QED BY <1>7 DEF FoldsUp
  <2>3. <<E({}), f[{}]>> \in W
    <3>1. E({}) = {}
      OBVIOUS
    <3> HIDE DEF n, q, G, D, E
    <3> QED BY <2>2, <3>1
  <2> HIDE DEF n, q, G, D, E
  <2> QED BY <2>1, <2>3
<1>9. ASSUME NEW u \in SUBSET (1 .. n), u # {}, u \ {Max(u)} \in F
      PROVE  f[u] = DelObject(f[u \ {Max(u)}], c, q[Max(u)], TRUE) /\ u \in F
  <2>0. PICK k, v : k = Max(u) /\ v = u \ {Max(u)}
    OBVIOUS
  <2>1. k \in 1 .. n /\ v \in SUBSET (1 .. n) /\ v = u \ {k} /\ k \in u
    <3> HIDE DEF n
    <3> QED BY <1>3, <1>9, <2>0, MaxIs
  <2>2. f[v] \in D /\ f[u] = G[<<k, f[v]>>]
    <3> HIDE DEF n, q, G, D
    <3> QED BY <1>7, <1>9, <2>0, <2>1 DEF FoldsUp
  <2>3. f[v].attr[c][q[k]] # NoNode
    <3> HIDE DEF n, q, G, D, E
    <3> QED BY <1>9, <2>0, <2>1
  <2>4. f[u] = DelObject(f[v], c, q[k], TRUE)
    <3> HIDE DEF n, q, D
    <3> QED BY <2>1, <2>2, <2>3
  <2>5. ASSUME NEW j \in (1 .. n) \ u PROVE f[u].attr[c][q[j]] # NoNode
    <3> HIDE DEF n, q, D, G, E
    <3>1. f[v].attr[c][q[j]] # NoNode /\ j # k
      BY <1>9, <2>0, <2>1
    <3>2. DelObject(f[v], c, q[k], TRUE).attr[c][q[j]] = f[v].attr[c][q[j]]
      BY <1>4, <2>1, <2>2, <2>3, <3>1
    <3> QED BY <2>4, <3>1, <3>2
  <2>6. <<E(u), f[u]>> \in W
    <3>1. q[k] \in ids /\ E(v) \in SUBSET ids /\ E(u) = E(v) \cup {q[k]}
      <4>1. \A m \in 1 .. n : q[m] \in ids
        <5> HIDE DEF n, q
        <5> QED BY <1>3
      <4> HIDE DEF n, q, G, D
      <4> QED BY <2>1, <4>1
    <3>2. <<E(v), f[v]>> \in W
      <4> HIDE DEF n, q, G, D, E
      <4> QED BY <1>9, <2>0
    <3>3. f[v] \in SiteType /\ f[u] \in SiteType
      <4> HIDE DEF n, q, G
      <4> QED BY <1>7, <2>1
    <3> HIDE DEF n, q, G, D, E
    <3>4. <<E(v) \cup {q[k]}, f[u]>> \in W
      BY <2>3, <2>4, <3>1, <3>2, <3>3 DEF HoldsOfMore
    <3> QED BY <3>1, <3>4
  <2> HIDE DEF n, q, D, G, E
  <2> QED BY <2>0, <2>4, <2>5, <2>6
<1>10. \A u \in SUBSET (1 .. n) : u \in F
  <2> HIDE DEF n, F
  <2> QED BY <1>3, <1>8, <1>9, FoldInduction
<1>11. ASSUME NEW u \in SUBSET (1 .. n), u # {}
       PROVE  f[u] = DelObject(f[u \ {Max(u)}], c, q[Max(u)], TRUE)
  <2>1. u \ {Max(u)} \in F
    <3> HIDE DEF F, n
    <3> QED BY <1>3, <1>10, <1>11, PeelMax
  <2> HIDE DEF F, n, q
  <2> QED BY <1>9, <1>11, <2>1
<1>12. f = [u \in SUBSET DOMAIN q |-> IF u = {} THEN s ELSE DelObject(f[u \ {Max(u)}], c, q[Max(u)], TRUE)]
  <2>1. f = [u \in SUBSET (1 .. n) |-> f[u]] /\ f[{}] = s
    <3> HIDE DEF n, q, G
    <3> QED BY <1>7 DEF FoldsUp
  <2> HIDE DEF n, q, F, D, G
  <2> QED BY <1>3, <1>11, <2>1
<1>13. iter = [u \in SUBSET DOMAIN q |-> IF u = {} THEN s ELSE DelObject(iter[u \ {Max(u)}], c, q[Max(u)], TRUE)]
  <2> HIDE DEF n, q, F, D, G
  <2> QED BY <1>12, Zenon
<1> DEFINE H == {u \in SUBSET (1 .. n) : iter[u] = f[u]}
<1> HIDE DEF iter
<1>d. DOMAIN q = 1 .. n /\ n \in Nat
  BY <1>3
<1>14. {} \in H
  <2> HIDE DEF n, q, F, D, G
  <2> QED BY <1>d, <1>12, <1>13
<1>15. ASSUME NEW u \in SUBSET (1 .. n), u # {}, u \ {Max(u)} \in H PROVE u \in H
  <2> HIDE DEF n, q, F, D, G
  <2> QED BY <1>d, <1>12, <1>13, <1>15
<1>16. \A u \in SUBSET (1 .. n) : u \in H
  <2> HIDE DEF n, H
  <2> QED BY <1>3, <1>14, <1>15, FoldInduction
<1>17. t \in D /\ <<ids, t>> \in W
  <2>1. iter[1 .. n] = f[1 .. n]
    <3> HIDE DEF n, q, F, D, G
    <3>1. 1 .. n \in SUBSET (1 .. n)
      OBVIOUS
    <3> HIDE DEF n, q, F, D, G
    <3> QED BY <1>16, <3>1
  <2>2. f[1 .. n] \in D
    <3> HIDE DEF n, q, F, D, G
    <3> QED BY <1>7
  <2>3. E(1 .. n) = ids
    <3> HIDE DEF n, q
    <3> QED BY <1>3
  <2>4. 1 .. n \in F
    <3>1. 1 .. n \in SUBSET (1 .. n)
      OBVIOUS
    <3> HIDE DEF n, q, F
    <3> QED BY <1>10, <3>1
  <2>5. <<E(1 .. n), f[1 .. n]>> \in W
    <3> HIDE DEF n, q, D, G, E
    <3> QED BY <2>4
  <2> HIDE DEF n, q, F, D, G, E
  <2> QED BY <1>1, <1>3, <2>1, <2>2, <2>3, <2>5
<1> HIDE DEF n, q, F, G
<1> QED BY <1>17

\* Every operation leaves a tree, with the catalog of it: Add
LEMMA AddKeeps ==
    ASSUME TreeInv, NEW c \in Folders, NEW id \in Ids, NEW n \in Nodes, Add(c, id, n)
    PROVE  TreeInv'
<1>1. PICK T : Sound(Site, T)
  BY DEF TreeInv
<1>2. PICK s : s = Site
  OBVIOUS
<1>3. Sound(s, T) /\ c \in T \cap Folders /\ n \notin T
  BY <1>1, <1>2, FinitelyMany, InTreeIs DEF Add
<1>4. PICK S : S = {n} /\ Hangs(s, n, S)
  BY <1>3, AloneHangs DEF Sound
<1>5. PICK t : SetObject(s, c, id, n, TRUE) = t
  OBVIOUS
<1>6. PICK R : Fits(t, R)
  <2>1. Fits(s, T) /\ S \cap T = {}
    BY <1>3, <1>4 DEF Sound
  <2>2. SetOverDone(s, T, c, id, n, S, t)
    BY <1>3, <1>4, <1>5, <2>1, SetOver
  <2> QED BY <2>2 DEF SetOverDone
<1>7. Becomes(t, locks)
  BY <1>2, <1>5 DEF Add
<1> QED BY <1>6, <1>7, BecomesSound

\* DelObjects
LEMMA DelObjectsKeeps ==
    ASSUME TreeInv, NEW c \in Folders, NEW ids \in SUBSET Ids, DelObjects(c, ids)
    PROVE  TreeInv'
<1>1. PICK T : Sound(Site, T)
  BY DEF TreeInv
<1>2. PICK s : s = Site
  OBVIOUS
<1>3. Fits(s, T) /\ c \in T \cap Folders
  BY <1>1, <1>2, FinitelyMany, InTreeIs DEF DelObjects, Sound
<1>4. \A i \in ids : s.attr[c][i] # NoNode
  BY <1>2 DEF DelObjects, Deletable
<1>5. PICK t : DelsOf(s, c, ids) = t
  OBVIOUS
<1>6. PICK R : Fits(t, R)
  <2>1. PICK W : W = (SUBSET Ids) \X SiteType
    OBVIOUS
  <2>2. <<{}, s>> \in W
    <3>1. s \in SiteType
      BY <1>3, FitsTyped
    <3> QED BY <2>1, <3>1
  <2>3. HoldsOfMore(W, c, ids)
    <3>1. \A u \in SUBSET ids, i \in ids : u \cup {i} \in SUBSET Ids
      OBVIOUS
    <3> QED BY <2>1, <3>1 DEF HoldsOfMore
  <2>4. Fits(s, T) /\ c \in T \cap Folders
    BY <1>3
  <2>5. (\E R : Fits(t, R)) /\ <<ids, t>> \in W
    BY <1>4, <1>5, <2>2, <2>3, <2>4, DelsFit
  <2> QED BY <2>5
<1>7. Becomes(t, locks)
  BY <1>2, <1>5 DEF DelObjects, DelsOf
<1> QED BY <1>6, <1>7, BecomesSound

-----------------------------------------------------------------------------
(* manage_pasteObjects of what was cut *)

\* An object that is moved stays in the tree, with what is below it.
LEMMA MoveSound ==
    ASSUME NEW s, NEW T, Sound(s, T), NEW c \in T \cap Folders, NEW n, n # NoNode, NEW x \in PastedMove(s, c, n)
    PROVE  Sound(x, T)
<1>1. PICK d, i : d = Container(s, n) /\ i = IdOf(s, n)
  OBVIOUS
<1>2. PICK out : out = DelObject(Unindexed(s, n), d, i, FALSE)
  OBVIOUS
<1>3. PICK id \in IF d = c THEN {i} ELSE FreeIds(s, c, i) :
         /\ Placed(s, n) /\ Sane(s, c, n)
         /\ x = Indexed(SetObject(out, c, id, n, FALSE), n)
  BY <1>1, <1>2 DEF PastedMove
<1>4. n \in T \ {Root} /\ d \in T \cap Folders /\ i \in Ids /\ s.attr[d][i] = n
  BY <1>1, <1>3, PlacedSound
<1>5. PICK S, y : S = Below(s, n) /\ DelObject(s, d, i, TRUE) = y
  OBVIOUS
<1>6. Fits(s, T) /\ s.attr \in [Folders -> [Ids -> Nodes \cup {NoNode}]]
  BY SoundTyped
<1>7. DelDone(s, T, d, i, n, S, y)
  BY <1>4, <1>5, <1>6, DelFits
<1>8. /\ out = y /\ Fits(out, T \ S) /\ Hangs(out, n, S) /\ Differs(s, out, d, i, NoNode)
      /\ S \subseteq T
  BY <1>2, <1>7 DEF DelDone
<1>9. c \in (T \ S) \cap Folders
  BY <1>3, <1>5 DEF Sane
<1>10. id \in Ids /\ out.attr[c][id] = NoNode
  <2>1. CASE d = c
    <3>1. id = i
      BY <1>3, <2>1
    <3> QED BY <1>4, <1>6, <1>8, <2>1, <3>1 DEF Differs
  <2>2. CASE d # c
    <3>1. id \in Ids /\ s.attr[c][id] = NoNode
      BY <1>3, <1>4, <2>2, FreeIdsAre
    <3> QED BY <1>4, <1>6, <1>8, <2>2, <3>1 DEF Differs
  <2> QED BY <2>1, <2>2
<1>11. PICK z, U : SetObject(out, c, id, n, TRUE) = z /\ U = T \ S
  OBVIOUS
<1>12. SetDone(out, U, c, id, n, S, z)
  <2>1. Fits(out, U) /\ c \in U \cap Folders /\ S \cap U = {}
    BY <1>8, <1>9, <1>11
  <2> QED BY <1>8, <1>10, <1>11, <2>1, SetFits
<1>13. z = x /\ Fits(x, U \cup S) /\ Differs(out, x, c, id, n)
  BY <1>3, <1>12 DEF SetDone
<1>14. Fits(x, T)
  BY <1>8, <1>11, <1>13
<1>15. ASSUME NEW e \in Folders \ T, NEW j \in Ids PROVE x.attr[e][j] = NoNode
  <2>1. s.attr[e][j] = NoNode /\ e # c /\ e # d
    BY <1>4, SoundTyped
  <2>2. out.attr[e][j] = NoNode
    BY <1>4, <1>6, <1>8, <2>1 DEF Differs
  <2>3. out.attr \in [Folders -> [Ids -> Nodes \cup {NoNode}]]
    BY <1>8, FitsTyped, SiteTyped
  <2> QED BY <1>10, <1>13, <2>1, <2>2, <2>3 DEF Differs
<1> QED BY <1>14, <1>15 DEF Sound

\* What may be left when objects are moved one by one
Pasted(s, c, q) == FoldLeft(LAMBDA ss, n : UNION {PastedMove(x, c, n) : x \in ss}, {s}, q)

\* One object after the other is moved: each keeps the tree.
LEMMA PastedSound ==
    ASSUME NEW s, NEW T, Sound(s, T), NEW c \in T \cap Folders, NEW n \in Nat,
           NEW q, DOMAIN q = 1 .. n, \A k \in 1 .. n : q[k] # NoNode
    PROVE  \A x \in Pasted(s, c, q) : Sound(x, T)
<1> DEFINE D == SUBSET {x \in SiteType : Sound(x, T)}
           All(ss, m) == UNION {PastedMove(x, c, m) : x \in ss}
           G == [p \in (1 .. n) \X D |-> All(p[2], q[p[1]])]
           iter[u \in SUBSET DOMAIN q] ==
             IF u = {} THEN {s} ELSE All(iter[u \ {Max(u)}], q[Max(u)])
<1>1. Pasted(s, c, q) = iter[DOMAIN q]
  BY DEF Pasted, FoldLeft, MapThenFoldSet
<1>2. ASSUME NEW ss \in D, NEW k \in 1 .. n PROVE All(ss, q[k]) \in D
  <2>1. ASSUME NEW x \in ss, NEW y \in PastedMove(x, c, q[k]) PROVE y \in SiteType /\ Sound(y, T)
    <3>1. Sound(x, T) /\ q[k] # NoNode
      OBVIOUS
    <3>2. Sound(y, T)
      BY <2>1, <3>1, MoveSound
    <3> QED BY <3>2, SoundTyped
  <2> QED BY <2>1
<1>3. G \in [(1 .. n) \X D -> D]
  <2> HIDE DEF D, All
  <2> QED BY <1>2
<1>4. {s} \in D
  BY SoundTyped
<1>5. PICK f \in [SUBSET (1 .. n) -> D] : FoldsUp(f, {s}, G, n)
  <2> HIDE DEF D, G
  <2> QED BY <1>3, <1>4, FoldUp
<1>6. ASSUME NEW u \in SUBSET (1 .. n), u # {}
      PROVE  f[u] = All(f[u \ {Max(u)}], q[Max(u)])
  <2>0. PICK k, v : k = Max(u) /\ v = u \ {Max(u)}
    OBVIOUS
  <2>1. k \in 1 .. n /\ v \in SUBSET (1 .. n)
    BY <1>6, <2>0, PeelMax
  <2>2. f[v] \in D /\ f[u] = G[<<k, f[v]>>]
    <3> HIDE DEF G, D
    <3> QED BY <1>5, <1>6, <2>0, <2>1 DEF FoldsUp
  <2>3. f[u] = All(f[v], q[k])
    <3> HIDE DEF D, All
    <3> QED BY <2>1, <2>2
  <2> HIDE DEF D, All
  <2> QED BY <2>0, <2>3
<1>7. f = [u \in SUBSET DOMAIN q |-> IF u = {} THEN {s} ELSE All(f[u \ {Max(u)}], q[Max(u)])]
  <2>1. f = [u \in SUBSET (1 .. n) |-> f[u]] /\ f[{}] = {s}
    <3> HIDE DEF G
    <3> QED BY <1>5 DEF FoldsUp
  <2> HIDE DEF D, G, All
  <2> QED BY <1>6, <2>1
<1>8. iter = [u \in SUBSET DOMAIN q |-> IF u = {} THEN {s} ELSE All(iter[u \ {Max(u)}], q[Max(u)])]
  <2> HIDE DEF D, G
  <2> QED BY <1>7, Zenon
<1> DEFINE H == {u \in SUBSET (1 .. n) : iter[u] \in D}
<1> HIDE DEF iter
<1>9. {} \in H
  <2> HIDE DEF D, G, All
  <2> QED BY <1>4, <1>8
<1>10. ASSUME NEW u \in SUBSET (1 .. n), u # {}, u \ {Max(u)} \in H PROVE u \in H
  <2>0. PICK k, v : k = Max(u) /\ v = u \ {Max(u)}
    OBVIOUS
  <2>1. k \in 1 .. n /\ v \in SUBSET (1 .. n)
    BY <1>10, <2>0, PeelMax
  <2>2. iter[u] = All(iter[v], q[k]) /\ iter[v] \in D
    <3> HIDE DEF D, G, All
    <3> QED BY <1>8, <1>10, <2>0
  <2> HIDE DEF D, G, All
  <2> QED BY <1>2, <2>1, <2>2
<1>11. \A u \in SUBSET (1 .. n) : u \in H
  <2> HIDE DEF H
  <2> QED BY <1>9, <1>10, FoldInduction
<1>12. iter[1 .. n] \in D
  <2>1. 1 .. n \in SUBSET (1 .. n)
    OBVIOUS
  <2> HIDE DEF D, G
  <2> QED BY <1>11, <2>1
<1> HIDE DEF iter
<1> QED BY <1>1, <1>12

\* The paste of what was cut
LEMMA PasteMoveKeeps ==
    ASSUME NEW T, Sound(Site, T), NEW n \in Nat, DOMAIN clip.paths = 1 .. n,
           NEW c \in Folders, PasteMove(c)
    PROVE  (TreeInv)' /\ \E s : Site' = Left(s, T) /\ Sound(Left(s, T), T)
<1>1. PICK q, z : q = Targets /\ z = Site
  OBVIOUS
<1>2. DOMAIN q = 1 .. n /\ \A k \in 1 .. n : q[k] # NoNode
  <2>1. q = [k \in DOMAIN clip.paths |-> Bound(Site, clip.paths[k])]
    BY <1>1 DEF PasteMove, Targets
  <2>2. DOMAIN q = 1 .. n
    BY <2>1
  <2>3. NoNode \notin ToSet(q)
    BY <1>1 DEF PasteMove
  <2> QED BY <2>2, <2>3 DEF ToSet
<1>3. c \in T \cap Folders
  BY FinitelyMany, InTreeIs DEF PasteMove
<1>4. PICK s \in Pasted(z, c, q) : Becomes(s, locks)
  BY <1>1 DEF PasteMove, Pasted
<1>5. Sound(s, T)
  BY <1>1, <1>2, <1>3, PastedSound
<1>6. Fits(s, T)
  BY <1>5 DEF Sound
<1>7. Site' = Left(s, T) /\ Sound(Left(s, T), T) /\ TreeInv'
  BY <1>4, <1>6, BecomesSound
<1> QED BY <1>7

-----------------------------------------------------------------------------
(* Recursion up a tree *)

\* In a tree, containers lead up.
LEMMA ContainersLeadUp ==
    ASSUME NEW s, NEW T, Sound(s, T)
    PROVE  /\ \E depth, K : LeadsUp(T, {Root}, [n \in T \ {Root} |-> Container(s, n)], depth, K)
           /\ \E depth, K : LeadsUp(Nodes, {n \in Nodes : n = Root \/ ~Placed(s, n)},
                                    [n \in T \ {Root} |-> Container(s, n)], depth, K)
<1> DEFINE K == Cardinality(Folders) + 1
           up == [n \in T \ {Root} |-> Container(s, n)]
           base == {n \in Nodes : n = Root \/ ~Placed(s, n)}
<1>1. PICK A : Rooted(s, Root, T, A)
  BY DEF Sound, Fits, Hangs
<1> DEFINE d1 == [n \in T |-> Depth(A, n)]
           d2 == [n \in Nodes |-> IF n \in T THEN Depth(A, n) ELSE 0]
<1>2. K \in Nat
  BY FinitelyMany
<1>3. ASSUME NEW n \in T \ {Root}
      PROVE  up[n] \in T /\ up[n] \in Nodes /\ Depth(A, up[n]) < Depth(A, n)
  <2>1. PICK c, i : c = Container(s, n) /\ i = IdOf(s, n)
    OBVIOUS
  <2>2. c \in T \cap Folders /\ i \in Ids /\ s.attr[c][i] = n /\ n # NoNode
    BY <2>1, PlacedSound
  <2>3. Depth(A, n) = Depth(A, c) + 1 /\ Depth(A, c) \in 1 .. K
    BY <1>1, <2>2, DepthIs
  <2>4. Depth(A, c) < Depth(A, n)
    BY <1>2, <2>3
  <2>5. up[n] = c
    BY <2>1
  <2> QED BY <2>2, <2>4, <2>5, FinitelyMany
<1>4. \A n \in T : Depth(A, n) \in 0 .. K
  <2>1. \A n \in T : Depth(A, n) \in 1 .. K
    BY <1>1, DepthIs
  <2> HIDE DEF K
  <2> QED BY <1>2, <2>1
<1>5. T \subseteq Nodes /\ Root \in T
  BY SoundTyped
<1>6. Nodes \ base = T \ {Root}
  <2>1. \A n \in Nodes : Placed(s, n) <=> n \in T \ {Root}
    BY FinitelyMany, PlacedSound
  <2> QED BY <1>5, <2>1
<1>7. LeadsUp(T, {Root}, up, d1, K)
  <2>1. d1 \in [T -> 0 .. K]
    BY <1>4
  <2>2. up \in [T \ {Root} -> T]
    BY <1>3
  <2>3. \A n \in T \ {Root} : d1[up[n]] < d1[n]
    <3> HIDE DEF up
    <3> QED BY <1>3
  <2> HIDE DEF d1, up, K
  <2> QED BY <1>2, <1>5, <2>1, <2>2, <2>3 DEF LeadsUp
<1>8. LeadsUp(Nodes, base, up, d2, K)
  <2>1. d2 \in [Nodes -> 0 .. K]
    BY <1>2, <1>4
  <2>2. up \in [T \ {Root} -> Nodes]
    BY <1>3
  <2>3. \A n \in T \ {Root} : d2[up[n]] < d2[n]
    <3> HIDE DEF up
    <3> QED BY <1>3, <1>5
  <2>4. base \subseteq Nodes
    OBVIOUS
  <2> HIDE DEF d2, up, K, base
  <2> QED BY <1>2, <1>6, <2>1, <2>2, <2>3, <2>4 DEF LeadsUp
<1> HIDE DEF up, d1, d2, K, base
<1>9. \E depth, L : LeadsUp(T, {Root}, up, depth, L)
  BY <1>7
<1>10. \E depth, L : LeadsUp(Nodes, base, up, depth, L)
  BY <1>8
<1> QED BY <1>9, <1>10 DEF up, base

-----------------------------------------------------------------------------
(* Paths *)

\* getPhysicalPath gives a list of ids.
LEMMA PathIs ==
    ASSUME NEW s, NEW T, Sound(s, T), NEW n \in T
    PROVE  PathOf(s, n) \in Seq(Ids) /\ (n # Root => PathOf(s, n) # <<>>)
<1> DEFINE D == Seq(Ids)
           base == {Root}
           up == [m \in T \ {Root} |-> Container(s, m)]
           b == [m \in base |-> <<>>]
           G == [p \in T \X D |-> IF p[1] = Root THEN p[2] ELSE Append(p[2], IdOf(s, p[1]))]
           path[m \in Below(s, Root)] ==
             IF m = Root THEN <<>> ELSE Append(path[Container(s, m)], IdOf(s, m))
<1>1. PathOf(s, n) = path[n]
  BY DEF PathOf
<1>2. PICK depth, K : LeadsUp(T, base, up, depth, K)
  BY ContainersLeadUp
<1>3. Below(s, Root) = T /\ Root \in T
  BY SoundTyped
<1>4. \A m \in T \ {Root} : IdOf(s, m) \in Ids /\ Container(s, m) \in T
  BY PlacedSound
<1>5. G \in [T \X D -> D]
  <2>1. ASSUME NEW m \in T, NEW q \in D PROVE (IF m = Root THEN q ELSE Append(q, IdOf(s, m))) \in D
    <3>1. m # Root => IdOf(s, m) \in Ids
      BY <1>4
    <3> QED BY <3>1
  <2> HIDE DEF D
  <2> QED BY <2>1
<1>6. PICK f \in [T -> D] : ClimbsOf(f, base, up, b, G, T)
  <2>1. b \in [base -> D]
    OBVIOUS
  <2> HIDE DEF base, D, G, up, b
  <2> QED BY <1>2, <1>5, <2>1, UpDefined
<1>7. ASSUME NEW m \in T PROVE f[m] = IF m = Root THEN <<>> ELSE Append(f[Container(s, m)], IdOf(s, m))
  <2>1. CASE m = Root
    <3>1. f[m] = b[m]
      <4> HIDE DEF D, G, up, b
      <4> QED BY <1>6, <2>1 DEF ClimbsOf
    <3> QED BY <2>1, <3>1
  <2>2. CASE m # Root
    <3>1. f[m] = G[<<m, f[up[m]]>>]
      <4> HIDE DEF D, G, up, b
      <4> QED BY <1>6, <2>2 DEF ClimbsOf
    <3>2. up[m] = Container(s, m) /\ f[Container(s, m)] \in D
      <4> HIDE DEF D, G
      <4> QED BY <1>4, <2>2
    <3>3. f[m] = G[<<m, f[Container(s, m)]>>]
      <4> HIDE DEF D, G, up
      <4> QED BY <3>1, <3>2
    <3> HIDE DEF D
    <3> QED BY <2>2, <3>2, <3>3
  <2> QED BY <2>1, <2>2
<1>8. f = [m \in Below(s, Root) |-> IF m = Root THEN <<>> ELSE Append(f[Container(s, m)], IdOf(s, m))]
  <2>1. f = [m \in T |-> f[m]]
    OBVIOUS
  <2> HIDE DEF D, G
  <2> QED BY <1>3, <1>7, <2>1
<1>9. path = [m \in Below(s, Root) |-> IF m = Root THEN <<>> ELSE Append(path[Container(s, m)], IdOf(s, m))]
  BY <1>8, Zenon
<1> DEFINE F == {m \in T : path[m] \in Seq(Ids)}
<1> HIDE DEF path
<1>10. base \subseteq F
  <2>1. path[Root] = <<>>
    BY <1>3, <1>9
  <2>2. path[Root] \in Seq(Ids)
    BY <2>1
  <2>3. Root \in F
    BY <1>3, <2>2
  <2> HIDE DEF F
  <2> QED BY <2>3
<1>11. ASSUME NEW m \in T \ base, up[m] \in F PROVE m \in F
  <2>1. path[m] = Append(path[Container(s, m)], IdOf(s, m))
    BY <1>3, <1>9, <1>11
  <2>2. PICK q, i : q = path[Container(s, m)] /\ i = IdOf(s, m)
    OBVIOUS
  <2>3. q \in Seq(Ids) /\ i \in Ids /\ m \in T
    BY <1>4, <1>11, <2>2
  <2>4. Append(q, i) \in Seq(Ids)
    BY <2>3
  <2> QED BY <2>1, <2>2, <2>3, <2>4
<1>12. T \subseteq F
  <2> HIDE DEF F, base, up
  <2> QED BY <1>2, <1>10, <1>11, UpInduction
<1>13. ASSUME n # Root PROVE path[n] # <<>>
  <2>1. path[n] = Append(path[Container(s, n)], IdOf(s, n))
    BY <1>3, <1>9, <1>13
  <2>2. PICK q, i : q = path[Container(s, n)] /\ i = IdOf(s, n)
    OBVIOUS
  <2>3. q \in Seq(Ids) /\ i \in Ids
    BY <1>4, <1>12, <1>13, <2>2
  <2>4. Append(q, i) # <<>>
    BY <2>3
  <2> QED BY <2>1, <2>2, <2>4
<1>14. path[n] \in Seq(Ids)
  BY <1>12
<1> QED BY <1>1, <1>13, <1>14

\* The chain of an object, and of what an id leads to from a chain
ClimbOf(s, n) ==
    LET up[m \in Nodes] == IF m = Root \/ ~Placed(s, m) THEN <<m>>
                           ELSE <<m>> \o up[Container(s, m)]
    IN  up[n]

FirstHolder(s, chain, id) ==
    CHOOSE x \in {j \in DOMAIN chain : Child(s, chain[j], id) # NoNode} :
        \A y \in {j \in DOMAIN chain : Child(s, chain[j], id) # NoNode} : x <= y

NextOf(s, chain, id) ==
    IF {j \in DOMAIN chain : Child(s, chain[j], id) # NoNode} = {} THEN <<>>
    ELSE ClimbOf(s, Child(s, chain[FirstHolder(s, chain, id)], id)) \o chain

\* The chain of an object of the tree starts with it, and is in the tree.
LEMMA ClimbIs ==
    ASSUME NEW s, NEW T, Sound(s, T), NEW n \in T
    PROVE  ClimbOf(s, n) \in Seq(T) /\ ClimbOf(s, n) # <<>> /\ ClimbOf(s, n)[1] = n
<1> DEFINE D == Seq(Nodes)
           base == {m \in Nodes : m = Root \/ ~Placed(s, m)}
           up == [m \in T \ {Root} |-> Container(s, m)]
           b == [m \in base |-> <<m>>]
           G == [p \in Nodes \X D |-> <<p[1]>> \o p[2]]
           climb[m \in Nodes] == IF m = Root \/ ~Placed(s, m) THEN <<m>>
                                 ELSE <<m>> \o climb[Container(s, m)]
<1>1. ClimbOf(s, n) = climb[n]
  BY DEF ClimbOf
<1>2. PICK depth, K : LeadsUp(Nodes, base, up, depth, K)
  BY ContainersLeadUp
<1>3. T \subseteq Nodes /\ Root \in T
  BY SoundTyped
<1>4. ASSUME NEW m \in T \ {Root} PROVE Container(s, m) \in T /\ Placed(s, m)
  BY PlacedSound
<1>5. ASSUME NEW m \in Nodes \ base PROVE m \in T \ {Root}
  <2>1. m # NoNode
    BY FinitelyMany
  <2> QED BY <2>1, PlacedSound
<1>6. G \in [Nodes \X D -> D]
  BY ConcatProperties
<1>7. PICK f \in [Nodes -> D] : ClimbsOf(f, base, up, b, G, Nodes)
  <2>1. b \in [base -> D]
    OBVIOUS
  <2> HIDE DEF base, D, G, up, b
  <2> QED BY <1>2, <1>6, <2>1, UpDefined
<1>8. ASSUME NEW m \in Nodes PROVE f[m] = IF m = Root \/ ~Placed(s, m) THEN <<m>> ELSE <<m>> \o f[Container(s, m)]
  <2>1. CASE m \in base
    <3>1. f[m] = b[m]
      <4> HIDE DEF D, G, up, b, base
      <4> QED BY <1>7, <2>1 DEF ClimbsOf
    <3> QED BY <2>1, <3>1
  <2>2. CASE m \notin base
    <3>1. f[m] = G[<<m, f[up[m]]>>]
      <4> HIDE DEF D, G, up, b, base
      <4> QED BY <1>7, <2>2 DEF ClimbsOf
    <3>2. up[m] = Container(s, m) /\ f[Container(s, m)] \in D
      <4>1. m \in T \ {Root}
        BY <1>5, <2>2
      <4> HIDE DEF D, G, base
      <4> QED BY <1>3, <1>4, <4>1
    <3>3. f[m] = G[<<m, f[Container(s, m)]>>]
      <4> HIDE DEF D, G, up, base
      <4> QED BY <3>1, <3>2
    <3>4. f[m] = <<m>> \o f[Container(s, m)]
      <4> HIDE DEF D, base
      <4> QED BY <3>2, <3>3
    <3> QED BY <2>2, <3>4
  <2> QED BY <2>1, <2>2
<1>9. f = [m \in Nodes |-> IF m = Root \/ ~Placed(s, m) THEN <<m>> ELSE <<m>> \o f[Container(s, m)]]
  <2>1. f = [m \in Nodes |-> f[m]]
    OBVIOUS
  <2> HIDE DEF D, G
  <2> QED BY <1>8, <2>1
<1>10. climb = [m \in Nodes |-> IF m = Root \/ ~Placed(s, m) THEN <<m>> ELSE <<m>> \o climb[Container(s, m)]]
  BY <1>9, Zenon
<1> DEFINE F == {m \in T : climb[m] \in Seq(T) /\ climb[m] # <<>> /\ climb[m][1] = m}
           up1 == [m \in T \ {Root} |-> Container(s, m)]
<1> HIDE DEF climb
<1>11. PICK depth1, K1 : LeadsUp(T, {Root}, up1, depth1, K1)
  BY ContainersLeadUp
<1>12. {Root} \subseteq F
  <2>1. climb[Root] = <<Root>>
    BY <1>3, <1>10
  <2>2. <<Root>> \in Seq(T) /\ <<Root>> # <<>> /\ <<Root>>[1] = Root
    BY <1>3
  <2> QED BY <1>3, <2>1, <2>2
<1>13. ASSUME NEW m \in T \ {Root}, up1[m] \in F PROVE m \in F
  <2>1. climb[m] = <<m>> \o climb[Container(s, m)]
    BY <1>3, <1>4, <1>10
  <2>2. PICK q : q = climb[Container(s, m)]
    OBVIOUS
  <2>3. q \in Seq(T)
    BY <1>13, <2>2
  <2>4. <<m>> \o q \in Seq(T) /\ (<<m>> \o q)[1] = m /\ Len(<<m>> \o q) = 1 + Len(q)
    BY <2>3
  <2>5. <<m>> \o q # <<>>
    <3>1. Len(q) \in Nat
      BY <2>3
    <3>2. Len(<<m>> \o q) # 0
      BY <2>4, <3>1
    <3> QED BY <3>2
  <2> QED BY <2>1, <2>2, <2>4, <2>5
<1>14. T \subseteq F
  <2> HIDE DEF F, up1
  <2> QED BY <1>11, <1>12, <1>13, UpInduction
<1> QED BY <1>1, <1>14

\* An id leads from a chain of the tree to another, of what the id names.
LEMMA NextIs ==
    ASSUME NEW s, NEW T, Sound(s, T), NEW chain \in Seq(T), NEW id \in Ids
    PROVE  /\ NextOf(s, chain, id) \in Seq(T)
           /\ NextOf(s, chain, id) # <<>> => NextOf(s, chain, id)[1] \in T \ {Root}
<1> DEFINE holders == {j \in DOMAIN chain : Child(s, chain[j], id) # NoNode}
<1>1. CASE holders = {}
  BY <1>1 DEF NextOf
<1>2. CASE holders # {}
  <2>1. PICK j : j = FirstHolder(s, chain, id)
    OBVIOUS
  <2>2. j \in holders
    <3>1. DOMAIN chain = 1 .. Len(chain) /\ Len(chain) \in Nat
      OBVIOUS
    <3>2. holders \in SUBSET (1 .. Len(chain))
      BY <3>1
    <3>3. \E x \in holders : \A y \in holders : x <= y
      <4> HIDE DEF holders
      <4> QED BY <1>2, <3>1, <3>2, HasBounds
    <3>4. FirstHolder(s, chain, id) = CHOOSE x \in holders : \A y \in holders : x <= y
      BY DEF FirstHolder
    <3> HIDE DEF holders
    <3> QED BY <2>1, <3>3, <3>4
  <2>3. PICK n : n = Child(s, chain[j], id)
    OBVIOUS
  <2>4. n \in T \ {Root}
    <3>1. PICK c : c = chain[j]
      OBVIOUS
    <3>2. c \in Folders /\ s.attr[c][id] = n /\ n # NoNode
      BY <2>2, <2>3, <3>1 DEF Child
    <3> QED BY <3>2, KidSound
  <2>5. PICK q : q = ClimbOf(s, n)
    OBVIOUS
  <2>6. q \in Seq(T) /\ q # <<>> /\ q[1] = n
    BY <2>4, <2>5, ClimbIs
  <2>7. NextOf(s, chain, id) = q \o chain
    BY <1>2, <2>1, <2>3, <2>5 DEF NextOf
  <2>8. q \o chain \in Seq(T) /\ (q \o chain)[1] = q[1]
    <3>1. Len(q) \in Nat \ {0}
      BY <2>6
    <3> QED BY <2>6, <3>1
  <2> QED BY <2>4, <2>6, <2>7, <2>8
<1> QED BY <1>1, <1>2

\* A path that is not empty leads to an object of the tree, below the root, or nowhere.
LEMMA BoundIs ==
    ASSUME NEW s, NEW T, Sound(s, T), NEW path \in Seq(Ids), path # <<>>, Bound(s, path) # NoNode
    PROVE  Bound(s, path) \in T \ {Root}
<1> DEFINE n == Len(path)
           D == Seq(T)
           G == [p \in (1 .. n) \X D |-> NextOf(s, p[2], path[p[1]])]
           iter[u \in SUBSET DOMAIN path] ==
             IF u = {} THEN <<Root>> ELSE NextOf(s, iter[u \ {Max(u)}], path[Max(u)])
<1>1. Bound(s, path) = IF iter[DOMAIN path] = <<>> THEN NoNode ELSE Head(iter[DOMAIN path])
  BY DEF Bound, FoldLeft, MapThenFoldSet, NextOf, ClimbOf, FirstHolder
<1>2. n \in Nat /\ n # 0 /\ DOMAIN path = 1 .. n /\ \A k \in 1 .. n : path[k] \in Ids
  OBVIOUS
<1>3. G \in [(1 .. n) \X D -> D]
  <2>1. ASSUME NEW k \in 1 .. n, NEW q \in D PROVE NextOf(s, q, path[k]) \in D
    BY <1>2, NextIs
  <2> HIDE DEF D, n
  <2> QED BY <2>1
<1>4. <<Root>> \in D
  BY SoundTyped
<1>5. PICK f \in [SUBSET (1 .. n) -> D] : FoldsUp(f, <<Root>>, G, n)
  <2> HIDE DEF D, G, n
  <2> QED BY <1>2, <1>3, <1>4, FoldUp
<1>6. ASSUME NEW u \in SUBSET (1 .. n), u # {}
      PROVE  f[u] = NextOf(s, f[u \ {Max(u)}], path[Max(u)])
  <2>0. PICK k, v : k = Max(u) /\ v = u \ {Max(u)}
    OBVIOUS
  <2>1. k \in 1 .. n /\ v \in SUBSET (1 .. n)
    <3> HIDE DEF n
    <3> QED BY <1>2, <1>6, <2>0, PeelMax
  <2>2. f[v] \in D /\ f[u] = G[<<k, f[v]>>]
    <3> HIDE DEF G, D, n
    <3> QED BY <1>5, <1>6, <2>0, <2>1 DEF FoldsUp
  <2>3. f[u] = NextOf(s, f[v], path[k])
    <3> HIDE DEF D, n
    <3> QED BY <2>1, <2>2
  <2> HIDE DEF D, n
  <2> QED BY <2>0, <2>3
<1>7. f = [u \in SUBSET DOMAIN path |-> IF u = {} THEN <<Root>> ELSE NextOf(s, f[u \ {Max(u)}], path[Max(u)])]
  <2>1. f = [u \in SUBSET (1 .. n) |-> f[u]] /\ f[{}] = <<Root>>
    <3> HIDE DEF G, n
    <3> QED BY <1>5 DEF FoldsUp
  <2> HIDE DEF D, G, n
  <2> QED BY <1>2, <1>6, <2>1
<1>8. iter = [u \in SUBSET DOMAIN path |-> IF u = {} THEN <<Root>> ELSE NextOf(s, iter[u \ {Max(u)}], path[Max(u)])]
  <2> HIDE DEF D, G, n
  <2> QED BY <1>7, Zenon
<1> DEFINE E == {q \in D : q # <<>> => q[1] \in T \ {Root}}
           H == {u \in SUBSET (1 .. n) : iter[u] \in D /\ (u # {} => iter[u] \in E)}
<1> HIDE DEF iter
<1>9. {} \in H
  <2> HIDE DEF D, G, n, E
  <2> QED BY <1>2, <1>4, <1>8
<1>10. ASSUME NEW u \in SUBSET (1 .. n), u # {}, u \ {Max(u)} \in H PROVE u \in H
  <2>0. PICK k, v : k = Max(u) /\ v = u \ {Max(u)}
    OBVIOUS
  <2>1. k \in 1 .. n /\ v \in SUBSET (1 .. n)
    <3> HIDE DEF n
    <3> QED BY <1>2, <1>10, <2>0, PeelMax
  <2>2. iter[u] = NextOf(s, iter[v], path[k]) /\ iter[v] \in D
    <3> HIDE DEF D, G, n, E
    <3> QED BY <1>2, <1>8, <1>10, <2>0
  <2>3. PICK q : q = iter[v]
    OBVIOUS
  <2>4. NextOf(s, q, path[k]) \in E
    BY <1>2, <2>1, <2>2, <2>3, NextIs
  <2>5. iter[u] \in E
    <3> HIDE DEF E, D, n
    <3> QED BY <2>2, <2>3, <2>4
  <2>6. E \subseteq D
    OBVIOUS
  <2> HIDE DEF D, G, n, E
  <2> QED BY <2>5, <2>6
<1>11. \A u \in SUBSET (1 .. n) : u \in H
  <2> HIDE DEF H, n
  <2> QED BY <1>2, <1>9, <1>10, FoldInduction
<1>12. iter[1 .. n] \in E
  <2>1. 1 .. n \in SUBSET (1 .. n) /\ 1 .. n # {}
    BY <1>2
  <2> HIDE DEF D, G, E, n
  <2> QED BY <1>11, <2>1
<1>13. PICK q : q = iter[1 .. n]
  OBVIOUS
<1>14. q \in Seq(T) /\ (q # <<>> => q[1] \in T \ {Root})
  BY <1>12, <1>13
<1>15. Bound(s, path) = IF q = <<>> THEN NoNode ELSE Head(q)
  <2> HIDE DEF n
  <2> QED BY <1>1, <1>2, <1>13
<1>16. q # <<>> => Head(q) = q[1]
  BY <1>14
<1> QED BY <1>14, <1>15, <1>16

-----------------------------------------------------------------------------
(* Copies and the clipboard *)

\* The clipboard holds the paths of objects below the root.
ClipInv == clip = NoClip \/ (clip.paths \in Seq(Seq(Ids) \ {<<>>}) /\ clip.paths # <<>>)

\* In t, there are copies of the objects U of s, n on top, and the tree is as it was.
CopyDone(s, T, U, m, n, t) ==
    /\ Fits(t, T) /\ Hangs(t, m[n], Made(U, m)) /\ Made(U, m) \cap T = {}
    /\ Copying(s, T, U, m) /\ CopyIs(s, U, m, t)

\* The copies are a tree of their own outside the tree.
LEMMA CopiesAre ==
    ASSUME NEW T, Sound(Site, T), NEW n \in T, NEW U, U \in {Below(Site, n), {n}}, NEW m \in Copies(U),
           NEW s, s = Site, NEW t, WithCopies(s, m) = t
    PROVE  CopyDone(s, T, U, m, n, t)
<1>1. PICK V : V = Below(Site, n)
  OBVIOUS
<1>2. Fits(s, T) /\ s \in SiteType /\ Below(Site, Root) = T /\ T \subseteq Nodes
  BY SoundTyped
<1>3. PICK A : Rooted(s, Root, T, A)
  BY <1>2 DEF Fits, Hangs
<1>4. V = Sub(T, A, n) /\ Hangs(s, n, V)
  BY <1>1, <1>2, <1>3, BelowSub
<1>5. PICK B : Rooted(s, n, V, B)
  BY <1>4 DEF Hangs
<1>6. n \in V /\ B[n] = {n} /\ \A x \in V : B[x] \subseteq V
  BY <1>5 DEF Rooted
<1>7. n \in U /\ U \subseteq V /\ U \subseteq T /\ \A x \in U : B[x] \subseteq U
  <2>1. V \subseteq T
    BY <1>4 DEF Sub
  <2> QED BY <1>1, <1>6, <2>1
<1>8. Copying(s, T, U, m)
  <2>1. m \in [U -> Nodes \ T] /\ \A x, y \in U : m[x] = m[y] => x = y
    BY <1>2 DEF Copies
  <2>2. \A x \in U : x \in Folders <=> m[x] \in Folders
    <3>1. Folders \in Kinds
      BY TreeAssumption
    <3> QED BY <3>1 DEF Copies
  <2> QED BY <1>7, <2>1, <2>2 DEF Copying
<1>9. CopyIs(s, U, m, t) /\ t \in SiteType
  BY <1>2, <1>8, WithCopiesIs
<1>10. Fits(t, T)
  BY <1>2, <1>8, <1>9, CopyFits
<1>11. Hangs(t, m[n], Made(U, m))
  BY <1>2, <1>5, <1>7, <1>8, <1>9, CopyRooted
<1>12. Made(U, m) \cap T = {}
  BY <1>8 DEF Copying, Made
<1> QED BY <1>8, <1>9, <1>10, <1>11, <1>12 DEF CopyDone

\* The end of a copy and of a clone
LEMMA PutCopyKeeps ==
    ASSUME NEW T, Sound(Site, T), NEW c \in T \cap Folders, NEW id \in Ids, NEW n \in T,
           NEW m \in Copies(Below(Site, n)), NEW ls, PutCopy(c, id, m, n, ls)
    PROVE  TreeInv'
<1>1. PICK s, t, k : s = Site /\ WithCopies(s, m) = t /\ m[n] = k
  OBVIOUS
<1>2. PICK S : Fits(t, T) /\ Hangs(t, k, S) /\ S \cap T = {}
  BY <1>1, CopiesAre DEF CopyDone
<1>3. PICK y : SetObject(t, c, id, k, TRUE) = y
  OBVIOUS
<1>4. SetOverDone(t, T, c, id, k, S, y)
  BY <1>2, <1>3, SetOver
<1>5. PICK R : Fits(y, R)
  BY <1>4 DEF SetOverDone
<1>6. Becomes(y, ls)
  BY <1>1, <1>3 DEF PutCopy
<1> QED BY <1>5, <1>6, BecomesSound

\* Clone
LEMMA CloneKeeps ==
    ASSUME TreeInv, NEW c \in Folders, NEW n \in Nodes, NEW id \in Ids, Clone(c, n, id)
    PROVE  TreeInv'
<1>1. PICK T : Sound(Site, T)
  BY DEF TreeInv
<1>2. c \in T \cap Folders /\ n \in T
  BY <1>1, FinitelyMany, InTreeIs DEF Clone
<1>3. PICK m \in Copies(Below(Site, n)) : PutCopy(c, id, m, n, CopiedLocks(m))
  BY DEF Clone
<1> QED BY <1>1, <1>2, <1>3, PutCopyKeeps

\* A paste of a copy puts copies of an object of the tree into a folder of it.
LEMMA PasteCopyPuts ==
    ASSUME NEW T, Sound(Site, T), ClipInv, NEW c \in Folders, PasteCopy(c)
    PROVE  /\ c \in T \cap Folders
           /\ \E n \in T, id \in Ids : \E m \in Copies(Below(Site, n)) :
                 PutCopy(c, id, m, n, [CopiedLocks(m) EXCEPT ![m[n]] = {}])
<1>2. PICK n : n = Head(Targets)
  OBVIOUS
<1>3. PICK m \in Copies(Below(Site, n)), id \in FreeIds(Site, c, IdOf(Site, n)) :
         PutCopy(c, id, m, n, [CopiedLocks(m) EXCEPT ![m[n]] = {}])
  BY <1>2 DEF PasteCopy
<1>4. c \in T \cap Folders
  BY FinitelyMany, InTreeIs DEF PasteCopy
<1>5. n \in T \ {Root}
  <2>1. PICK p, q : p = clip.paths /\ q = Targets
    OBVIOUS
  <2>2. p \in Seq(Seq(Ids) \ {<<>>}) /\ p # <<>>
    BY <2>1 DEF ClipInv, PasteCopy
  <2>3. q = [k \in DOMAIN p |-> Bound(Site, p[k])]
    BY <2>1 DEF PasteCopy, Targets
  <2>4. Len(p) \in Nat \ {0} /\ DOMAIN p = 1 .. Len(p) /\ p[1] \in Seq(Ids) \ {<<>>}
    BY <2>2
  <2>5. 1 \in DOMAIN q /\ q[1] = Bound(Site, p[1])
    BY <2>3, <2>4
  <2>6. n = q[1]
    <3>1. Head(q) = q[1]
      OBVIOUS
    <3> QED BY <1>2, <2>1, <3>1
  <2>7. n # NoNode
    <3>1. NoNode \notin ToSet(q)
      BY <2>1 DEF PasteCopy
    <3> QED BY <2>5, <2>6, <3>1 DEF ToSet
  <2> QED BY <2>4, <2>5, <2>6, <2>7, BoundIs
<1>6. id \in Ids
  <2>1. IdOf(Site, n) \in Ids
    BY <1>5, PlacedSound
  <2> QED BY <2>1, FreeIdsAre
<1> QED BY <1>3, <1>4, <1>5, <1>6

\* The paste of what was copied
LEMMA PasteCopyKeeps ==
    ASSUME TreeInv, ClipInv, NEW c \in Folders, PasteCopy(c)
    PROVE  TreeInv'
<1>1. PICK T : Sound(Site, T)
  BY DEF TreeInv
<1>2. c \in T \cap Folders
  BY <1>1, PasteCopyPuts
<1>3. PICK n \in T, id \in Ids : \E m \in Copies(Below(Site, n)) :
         PutCopy(c, id, m, n, [CopiedLocks(m) EXCEPT ![m[n]] = {}])
  BY <1>1, PasteCopyPuts
<1>4. PICK m \in Copies(Below(Site, n)) : PutCopy(c, id, m, n, [CopiedLocks(m) EXCEPT ![m[n]] = {}])
  BY <1>3
<1> QED BY <1>1, <1>2, <1>3, <1>4, PutCopyKeeps

\* What is selected are ids, one at least.
LEMMA SelectionIs ==
    ASSUME NEW ids \in Selections
    PROVE  /\ ids \in Seq(Ids) /\ ids # <<>> /\ Len(ids) \in {1, 2} /\ DOMAIN ids = 1 .. Len(ids)
           /\ \A i, j \in DOMAIN ids : ids[i] = ids[j] => i = j
<1>1. PICK S \in SUBSET Ids : ids \in SetToSeqs(S)
  BY DEF Selections, SetToAllKPermutations
<1>2. PICK n : n = Cardinality(S) /\ n \in Nat
  BY FinitelyMany, FS_Subset, FS_CardinalityType
<1>3. ids \in [1 .. n -> S] /\ \A i, j \in 1 .. n : i # j => ids[i] # ids[j]
  BY <1>1, <1>2 DEF SetToSeqs
<1>4. ids \in [1 .. n -> Ids]
  BY <1>3
<1>5. ids \in Seq(Ids) /\ DOMAIN ids = 1 .. n /\ Len(ids) = n
  BY <1>2, <1>4
<1>6. Len(ids) \in {1, 2}
  BY DEF Selections
<1>7. ids # <<>>
  BY <1>5, <1>6
<1> QED BY <1>2, <1>3, <1>5, <1>6, <1>7

\* Cut puts paths into the clipboard, of objects below the root.
LEMMA CutKeeps ==
    ASSUME TreeInv, NEW c \in Folders, NEW ids \in Selections, Cut(c, ids)
    PROVE  Site' = Site /\ ClipInv'
<1>1. PICK T : Sound(Site, T)
  BY DEF TreeInv
<1>2. PICK p : p = [k \in DOMAIN ids |-> PathOf(Site, attr[c][ids[k]])]
  OBVIOUS
<1>3. ids \in Seq(Ids) /\ ids # <<>> /\ Len(ids) \in Nat /\ DOMAIN ids = 1 .. Len(ids)
  BY SelectionIs
<1>4. ASSUME NEW k \in 1 .. Len(ids) PROVE p[k] \in Seq(Ids) \ {<<>>}
  <2>1. PICK i, n : i = ids[k] /\ n = attr[c][i]
    OBVIOUS
  <2>2. i \in Ids /\ i \in ToSet(ids)
    BY <1>3, <2>1 DEF ToSet
  <2>3. n # NoNode
    BY <2>1, <2>2 DEF Cut
  <2>4. n \in T \ {Root}
    <3>1. Site.attr[c][i] = n
      BY <2>1 DEF Site
    <3> QED BY <1>1, <2>2, <2>3, <3>1, KidSound
  <2>5. PathOf(Site, n) \in Seq(Ids) \ {<<>>}
    BY <1>1, <2>4, PathIs
  <2>6. p[k] = PathOf(Site, n)
    BY <1>2, <1>3, <2>1
  <2> QED BY <2>5, <2>6
<1>5. p \in Seq(Seq(Ids) \ {<<>>}) /\ p # <<>>
  <2>1. DOMAIN p = 1 .. Len(ids) /\ p = [k \in 1 .. Len(ids) |-> p[k]]
    BY <1>2, <1>3
  <2>2. p \in [1 .. Len(ids) -> Seq(Ids) \ {<<>>}]
    BY <1>4, <2>1
  <2>3. p \in Seq(Seq(Ids) \ {<<>>}) /\ Len(p) = Len(ids)
    BY <1>3, <2>2
  <2>4. Len(ids) # 0
    BY <1>3
  <2> QED BY <2>3, <2>4
<1>6. clip' = [op |-> "cut", paths |-> p] /\ Site' = Site
  BY <1>2 DEF Cut, Site
<1>7. clip'.paths = p
  BY <1>6
<1> QED BY <1>5, <1>6, <1>7 DEF ClipInv

\* So does Copy.
LEMMA CopyKeeps ==
    ASSUME TreeInv, NEW c \in Folders, NEW id \in Ids, Copy(c, id)
    PROVE  Site' = Site /\ ClipInv'
<1>1. PICK T : Sound(Site, T)
  BY DEF TreeInv
<1>2. PICK p, n : n = attr[c][id] /\ p = PathOf(Site, n)
  OBVIOUS
<1>3. n \in T \ {Root}
  <2>1. n # NoNode /\ Site.attr[c][id] = n
    BY <1>2 DEF Copy, Site
  <2> QED BY <1>1, <2>1, KidSound
<1>4. p \in Seq(Ids) \ {<<>>}
  BY <1>1, <1>2, <1>3, PathIs
<1>5. <<p>> \in Seq(Seq(Ids) \ {<<>>}) /\ <<p>> # <<>>
  BY <1>4
<1>6. clip' = [op |-> "copy", paths |-> <<p>>] /\ Site' = Site
  BY <1>2 DEF Copy, Site
<1>7. clip'.paths = <<p>>
  BY <1>6
<1> QED BY <1>5, <1>6, <1>7 DEF ClipInv

-----------------------------------------------------------------------------
(* The order of a folder *)

\* One id is moved; ids before min have been.
MoveOne(at, id, delta) ==
    LET old == CHOOSE k \in DOMAIN at.seq : at.seq[k] = id
        new == IF old - delta > at.min THEN old - delta ELSE at.min
    IN  [seq |-> InsertAt(RemoveAt(at.seq, old), new, id),
         min |-> IF new = at.min THEN at.min + 1 ELSE at.min]

Moving(at, S, X, n) == ListsEach(at.seq, S, X, n) /\ at.min \in 1 .. n
MovedOne(at, S, X, n, t) ==
    /\ ListsEach(t.seq, S, X, n) /\ t.min \in {at.min, at.min + 1}
    /\ t = [seq |-> t.seq, min |-> t.min]

\* One id moves.
LEMMA MoveOneIs ==
    ASSUME NEW S, NEW X, NEW n \in Nat, NEW at, Moving(at, S, X, n),
           NEW id \in X, NEW delta \in Nat, NEW t, MoveOne(at, id, delta) = t
    PROVE  MovedOne(at, S, X, n, t)
<1>0. ListsEach(at.seq, S, X, n) /\ at.min \in 1 .. n
  BY DEF Moving
<1>1. PICK x, m : x = at.seq /\ m = at.min
  OBVIOUS
<1>2. PICK old : old = CHOOSE k \in DOMAIN x : x[k] = id
  OBVIOUS
<1>3. PICK new : new = IF old - delta > m THEN old - delta ELSE m
  OBVIOUS
<1>4. DOMAIN x = 1 .. n /\ X = {x[k] : k \in 1 .. n} /\ X \subseteq S
  <2>1. x \in Seq(S) /\ Len(x) = n /\ ToSet(x) = X
    BY <1>0, <1>1 DEF ListsEach
  <2>2. DOMAIN x = 1 .. n /\ \A k \in 1 .. n : x[k] \in S
    BY <2>1
  <2> QED BY <2>1, <2>2 DEF ToSet
<1>5. old \in 1 .. n /\ x[old] = id
  BY <1>2, <1>4
<1>6. new \in 1 .. n
  BY <1>0, <1>1, <1>3, <1>5
<1>7. PICK r : r = RemoveAt(x, old)
  OBVIOUS
<1>8. PICK Y : Y = X \ {id}
  OBVIOUS
<1>9. ListsEach(r, S, Y, n - 1)
  BY <1>0, <1>1, <1>5, <1>7, <1>8, RemoveAtIs
<1>10. PICK y : y = InsertAt(r, new, id)
  OBVIOUS
<1>11. ListsEach(y, S, X, n)
  <2>1. n - 1 \in Nat /\ (n - 1) + 1 = n /\ id \in S \ Y /\ Y \cup {id} = X
    BY <1>4, <1>5, <1>8
  <2>2. ListsEach(y, S, Y \cup {id}, (n - 1) + 1)
    BY <1>6, <1>9, <1>10, <2>1, InsertAtIs
  <2> QED BY <2>1, <2>2
<1>12. t = [seq |-> y, min |-> IF new = m THEN m + 1 ELSE m]
  BY <1>1, <1>2, <1>3, <1>7, <1>10 DEF MoveOne
<1> QED BY <1>1, <1>11, <1>12 DEF MovedOne

\* The ids are moved one by one.
MovesOf(seq, ids, delta) ==
    FoldLeft(LAMBDA at, id : MoveOne(at, id, delta), [seq |-> seq, min |-> 1], ids).seq

\* One id after the other moves.
LEMMA MovesAre ==
    ASSUME NEW S, NEW X, NEW L \in Nat, NEW seq, ListsEach(seq, S, X, L),
           NEW ids \in Seq(X), Len(ids) <= L, NEW delta \in Nat
    PROVE  ListsEach(MovesOf(seq, ids, delta), S, X, L)
<1> DEFINE n == Len(ids)
           s0 == [seq |-> seq, min |-> 1]
           D == {d \in [seq : Seq(S), min : Nat \ {0}] : ListsEach(d.seq, S, X, L)}
           G == [p \in (1 .. n) \X D |-> IF p[2].min <= L THEN MoveOne(p[2], ids[p[1]], delta) ELSE p[2]]
           iter[u \in SUBSET DOMAIN ids] ==
             IF u = {} THEN s0 ELSE MoveOne(iter[u \ {Max(u)}], ids[Max(u)], delta)
<1>1. MovesOf(seq, ids, delta) = iter[DOMAIN ids].seq
  BY DEF MovesOf, FoldLeft, MapThenFoldSet
<1>2. n \in Nat /\ n <= L /\ DOMAIN ids = 1 .. n /\ \A k \in 1 .. n : ids[k] \in X
  OBVIOUS
<1>3. ASSUME NEW d \in D, NEW k \in 1 .. n, d.min <= L
      PROVE  MoveOne(d, ids[k], delta) \in D /\ MoveOne(d, ids[k], delta).min \in {d.min, d.min + 1}
  <2>1. PICK t : MoveOne(d, ids[k], delta) = t
    OBVIOUS
  <2>2. d.min \in Nat \ {0} /\ ListsEach(d.seq, S, X, L)
    OBVIOUS
  <2>3. /\ ListsEach(t.seq, S, X, L) /\ t.min \in {d.min, d.min + 1}
        /\ t = [seq |-> t.seq, min |-> t.min]
    <3>1. d.min \in 1 .. L /\ ids[k] \in X
      BY <1>2, <1>3, <2>2
    <3>2. PICK i : i = ids[k]
      OBVIOUS
    <3>3. i \in X /\ MoveOne(d, i, delta) = t
      BY <2>1, <3>1, <3>2
    <3>4. Moving(d, S, X, L)
      BY <2>2, <3>1 DEF Moving
    <3> HIDE DEF D, n
    <3>5. MovedOne(d, S, X, L, t)
      BY <3>3, <3>4, MoveOneIs
    <3> QED BY <3>5 DEF MovedOne
  <2>4. t \in D
    <3>1. t.seq \in Seq(S) /\ t.min \in Nat \ {0}
      BY <2>2, <2>3 DEF ListsEach
    <3>2. t \in [seq : Seq(S), min : Nat \ {0}]
      BY <2>3, <3>1
    <3> QED BY <2>3, <3>2
  <2> QED BY <2>1, <2>3, <2>4
<1>4. G \in [(1 .. n) \X D -> D]
  <2> HIDE DEF D, n
  <2> QED BY <1>3
<1>5. s0 \in D
  BY DEF ListsEach
<1>6. PICK f \in [SUBSET (1 .. n) -> D] : FoldsUp(f, s0, G, n)
  <2> HIDE DEF D, G, n, s0
  <2> QED BY <1>2, <1>4, <1>5, FoldUp
<1> DEFINE F == {u \in SUBSET (1 .. n) : f[u].min <= Cardinality(u) + 1}
<1>c. ASSUME NEW u \in SUBSET (1 .. n), NEW k \in u
      PROVE  /\ Cardinality(u) \in Nat /\ Cardinality(u) <= n
             /\ Cardinality(u \ {k}) = Cardinality(u) - 1
  <2> HIDE DEF n
  <2>1. IsFiniteSet(1 .. n) /\ Cardinality(1 .. n) = n
    BY <1>2, FS_Interval
  <2>2. IsFiniteSet(u) /\ Cardinality(u) <= Cardinality(1 .. n)
    BY <2>1, FS_Subset
  <2>3. Cardinality(u) \in Nat
    BY <2>2, FS_CardinalityType
  <2>4. Cardinality(u \ {k}) = Cardinality(u) - 1
    BY <2>2, FS_RemoveElement
  <2> QED BY <2>1, <2>2, <2>3, <2>4
<1>7. {} \in F
  <2>1. f[{}] = s0
    <3> HIDE DEF G, D, n, s0
    <3> QED BY <1>6 DEF FoldsUp
  <2>2. Cardinality({}) = 0 /\ {} \in SUBSET (1 .. n)
    BY FS_EmptySet
  <2>3. f[{}].min = 1
    BY <2>1
  <2> HIDE DEF n
  <2> QED BY <2>2, <2>3
<1>8. ASSUME NEW u \in SUBSET (1 .. n), u # {}, u \ {Max(u)} \in F
      PROVE  f[u] = MoveOne(f[u \ {Max(u)}], ids[Max(u)], delta) /\ u \in F
  <2>0. PICK k, v : k = Max(u) /\ v = u \ {Max(u)}
    OBVIOUS
  <2>1. k \in 1 .. n /\ v \in SUBSET (1 .. n) /\ v = u \ {k} /\ k \in u
    <3> HIDE DEF n
    <3> QED BY <1>2, <1>8, <2>0, MaxIs
  <2>2. f[v] \in D /\ f[u] = G[<<k, f[v]>>]
    <3> HIDE DEF n, G, D
    <3> QED BY <1>6, <1>8, <2>0, <2>1 DEF FoldsUp
  <2>3. PICK d : d = f[v]
    OBVIOUS
  <2>4. Cardinality(u) \in Nat /\ Cardinality(u) <= n /\ Cardinality(v) = Cardinality(u) - 1
    BY <1>c, <2>1
  <2>5. d.min \in Nat /\ d.min <= Cardinality(v) + 1
    <3>1. d.min \in Nat
      BY <2>2, <2>3
    <3>2. d.min <= Cardinality(v) + 1
      <4> HIDE DEF n, D
      <4> QED BY <1>8, <2>0, <2>3
    <3> QED BY <3>1, <3>2
  <2>6. d.min <= L
    <3> HIDE DEF n
    <3> QED BY <1>2, <2>4, <2>5
  <2>7. f[u] = MoveOne(d, ids[k], delta) /\ d \in D
    <3> HIDE DEF n, D
    <3> QED BY <2>1, <2>2, <2>3, <2>6
  <2>8. f[u].min \in {d.min, d.min + 1}
    <3> HIDE DEF n, D, G
    <3> QED BY <1>3, <2>1, <2>6, <2>7
  <2>9. u \in F
    <3> HIDE DEF n, D, G
    <3> QED BY <2>4, <2>5, <2>8
  <2> HIDE DEF n, D, G, F
  <2> QED BY <2>0, <2>3, <2>7, <2>9
<1>9. \A u \in SUBSET (1 .. n) : u \in F
  <2> HIDE DEF n, F
  <2> QED BY <1>2, <1>7, <1>8, FoldInduction
<1>10. ASSUME NEW u \in SUBSET (1 .. n), u # {}
       PROVE  f[u] = MoveOne(f[u \ {Max(u)}], ids[Max(u)], delta)
  <2>1. u \ {Max(u)} \in F
    <3> HIDE DEF F, n
    <3> QED BY <1>2, <1>9, <1>10, PeelMax
  <2> HIDE DEF F, n
  <2> QED BY <1>8, <1>10, <2>1
<1>11. f = [u \in SUBSET DOMAIN ids |-> IF u = {} THEN s0 ELSE MoveOne(f[u \ {Max(u)}], ids[Max(u)], delta)]
  <2>1. f = [u \in SUBSET (1 .. n) |-> f[u]] /\ f[{}] = s0
    <3> HIDE DEF n, G, s0
    <3> QED BY <1>6 DEF FoldsUp
  <2> HIDE DEF n, F, D, G, s0
  <2> QED BY <1>2, <1>10, <2>1
<1>12. iter = [u \in SUBSET DOMAIN ids |-> IF u = {} THEN s0 ELSE MoveOne(iter[u \ {Max(u)}], ids[Max(u)], delta)]
  <2> HIDE DEF n, F, D, G
  <2> QED BY <1>11, Zenon
<1> DEFINE H == {u \in SUBSET (1 .. n) : iter[u] = f[u]}
<1> HIDE DEF iter
<1>13. {} \in H
  <2> HIDE DEF n, F, D, G, s0
  <2> QED BY <1>2, <1>11, <1>12
<1>14. ASSUME NEW u \in SUBSET (1 .. n), u # {}, u \ {Max(u)} \in H PROVE u \in H
  <2> HIDE DEF n, F, D, G, s0
  <2> QED BY <1>2, <1>11, <1>12, <1>14
<1>15. \A u \in SUBSET (1 .. n) : u \in H
  <2> HIDE DEF n, H
  <2> QED BY <1>2, <1>13, <1>14, FoldInduction
<1>16. PICK z : z = iter[1 .. n]
  OBVIOUS
<1>17. z \in D
  <2>1. 1 .. n \in SUBSET (1 .. n)
    OBVIOUS
  <2>2. z = f[1 .. n]
    <3> HIDE DEF n, F, D, G
    <3> QED BY <1>15, <1>16, <2>1
  <2> HIDE DEF n, F, D, G
  <2> QED BY <1>6, <2>1, <2>2
<1>18. ListsEach(z.seq, S, X, L)
  BY <1>17
<1> HIDE DEF n
<1> QED BY <1>1, <1>2, <1>16, <1>18

\* moveObjectsByDelta keeps the ids of a folder.
LEMMA MovedByDeltaIs ==
    ASSUME NEW S, NEW X, NEW L \in Nat, NEW seq, ListsEach(seq, S, X, L), NEW ids \in Seq(X), Len(ids) <= L,
           NEW down \in BOOLEAN, NEW delta \in Nat, NEW t, MovedByDelta(seq, ids, down, delta) = t
    PROVE  ListsEach(t, S, X, L)
<1> DEFINE Turned(s) == IF down THEN Reverse(s) ELSE s
<1>1. PICK x, q, y : x = Turned(seq) /\ q = Turned(ids) /\ y = MovesOf(x, q, delta)
  OBVIOUS
<1>2. ListsEach(x, S, X, L)
  BY <1>1, ReverseIs
<1>3. q \in Seq(X) /\ Len(q) = Len(ids)
  <2>1. Reverse(ids) \in Seq(X) /\ Len(Reverse(ids)) = Len(ids)
    <3> DEFINE n == Len(ids)
               r == [i \in 1 .. n |-> ids[(n - i) + 1]]
    <3>1. n \in Nat /\ \A i \in 1 .. n : (n - i) + 1 \in 1 .. n /\ ids[(n - i) + 1] \in X
      OBVIOUS
    <3>2. r \in [1 .. n -> X]
      BY <3>1
    <3>3. r \in Seq(X) /\ Len(r) = n
      <4> HIDE DEF r, n
      <4> QED BY <3>1, <3>2
    <3>4. Reverse(ids) = r
      BY DEF Reverse
    <3> QED BY <3>3, <3>4
  <2> QED BY <1>1, <2>1
<1>4. ListsEach(y, S, X, L)
  <2>1. Len(q) <= L
    BY <1>3
  <2> QED BY <1>1, <1>2, <1>3, <2>1, MovesAre
<1>5. t = Turned(y)
  BY <1>1 DEF MovedByDelta, MovesOf, MoveOne
<1> QED BY <1>4, <1>5, ReverseIs

\* moveObjectToPosition does.
LEMMA ToPositionIs ==
    ASSUME NEW S, NEW X, NEW L \in Nat, NEW seq, ListsEach(seq, S, X, L), NEW id \in X,
           NEW position \in Nat, NEW t, ToPosition(seq, id, position) = t
    PROVE  ListsEach(t, S, X, L)
<1>1. PICK now : now = CHOOSE k \in DOMAIN seq : seq[k] = id
  OBVIOUS
<1>2. DOMAIN seq = 1 .. L /\ X = {seq[k] : k \in 1 .. L}
  <2>1. seq \in Seq(S) /\ Len(seq) = L /\ ToSet(seq) = X
    BY DEF ListsEach
  <2> QED BY <2>1 DEF ToSet
<1>3. now \in 1 .. L
  BY <1>1, <1>2
<1>4. PICK ids : ids = <<id>>
  OBVIOUS
<1>5. ids \in Seq(X) /\ Len(ids) <= L
  BY <1>3, <1>4
<1>6. t = IF position > now THEN MovedByDelta(seq, ids, TRUE, position - now)
          ELSE MovedByDelta(seq, ids, FALSE, now - position)
  <2>1. ToPosition(seq, id, position) =
          LET k == CHOOSE x \in DOMAIN seq : seq[x] = id
          IN  IF position > k THEN MovedByDelta(seq, <<id>>, TRUE, position - k)
              ELSE MovedByDelta(seq, <<id>>, FALSE, k - position)
    BY DEF ToPosition
  <2>2. ToPosition(seq, id, position) =
          IF position > now THEN MovedByDelta(seq, <<id>>, TRUE, position - now)
          ELSE MovedByDelta(seq, <<id>>, FALSE, now - position)
    BY <1>1, <2>1, Zenon
  <2> QED BY <1>4, <2>2
<1>7. CASE position > now
  <2>1. PICK k : k = position - now
    OBVIOUS
  <2>2. t = MovedByDelta(seq, ids, TRUE, k) /\ k \in Nat
    BY <1>3, <1>6, <1>7, <2>1
  <2> QED BY <1>5, <2>2, MovedByDeltaIs
<1>8. CASE ~(position > now)
  <2>1. PICK k : k = now - position
    OBVIOUS
  <2>2. t = MovedByDelta(seq, ids, FALSE, k) /\ k \in Nat
    BY <1>3, <1>6, <1>8, <2>1
  <2> QED BY <1>5, <2>2, MovedByDeltaIs
<1> QED BY <1>7, <1>8

\* The list of a folder is put into another order.
Reordered(s, c, y, t) ==
    /\ ListsEach(y, Ids, ToSet(s.list[c]), Len(s.list[c]))
    /\ [s EXCEPT !.list[c] = y] = t

OrderDone(s, T, t) == Fits(t, T) /\ t.attr = s.attr /\ t.index = s.index

\* Another order of a list leaves the site fit.
LEMMA OrderFits ==
    ASSUME NEW s, NEW T, Fits(s, T), NEW c \in Folders, NEW y, NEW t, Reordered(s, c, y, t)
    PROVE  OrderDone(s, T, t)
<1>0. s \in SiteType /\ AllListed(s)
  BY FitsTyped
<1>1. /\ s.attr \in [Folders -> [Ids -> Nodes \cup {NoNode}]]
      /\ s.list \in [Folders -> Seq(Ids)]
      /\ s.index \in SUBSET (Seq(Ids) \X Nodes)
      /\ s = [list |-> s.list, attr |-> s.attr, index |-> s.index]
  BY <1>0, SiteTyped
<1>2. /\ t.list = [s.list EXCEPT ![c] = y] /\ t.attr = s.attr /\ t.index = s.index
      /\ t = [list |-> t.list, attr |-> t.attr, index |-> t.index]
  BY <1>0 DEF SiteType, Reordered
<1>3. y \in Seq(Ids) /\ ToSet(y) = ToSet(s.list[c]) /\ OnceIn(y, Ids)
  BY DEF ListsEach, Reordered
<1>4. t \in SiteType
  <2>1. t.list \in [Folders -> Seq(Ids)]
    BY <1>1, <1>2, <1>3
  <2> QED BY <1>1, <1>2, <2>1 DEF SiteType
<1>5. t.list[c] = y /\ \A d \in Folders \ {c} : t.list[d] = s.list[d] /\ t.attr[d] = s.attr[d]
  BY <1>1, <1>2
<1>6. Listed(t, c)
  <2>1. Listed(s, c)
    BY <1>0 DEF AllListed
  <2> QED BY <1>2, <1>3, <1>5, <2>1 DEF Listed
<1>7. AllListed(t)
  BY <1>0, <1>5, <1>6, ListedElse
<1>8. Fits(t, T)
  BY <1>2, <1>4, <1>7, FitsElse
<1> QED BY <1>2, <1>8 DEF OrderDone

\* The list of a folder that fits
LEMMA ListIs ==
    ASSUME NEW s, NEW T, Fits(s, T), NEW c \in Folders
    PROVE  /\ s.list[c] \in Seq(Ids) /\ ToSet(s.list[c]) = {i \in Ids : s.attr[c][i] # NoNode}
           /\ Len(s.list[c]) \in Nat /\ DOMAIN s.list[c] = 1 .. Len(s.list[c])
           /\ ListsEach(s.list[c], Ids, ToSet(s.list[c]), Len(s.list[c]))
<1>1. s \in SiteType /\ AllListed(s)
  BY FitsTyped
<1>2. s.list[c] \in Seq(Ids) /\ Listed(s, c)
  BY <1>1, SiteTyped DEF AllListed
<1>3. Len(s.list[c]) \in Nat /\ DOMAIN s.list[c] = 1 .. Len(s.list[c])
  BY <1>2
<1> QED BY <1>2, <1>3 DEF Listed, ListsEach

\* MoveByDelta
LEMMA MoveByDeltaKeeps ==
    ASSUME TreeInv, NEW c \in Folders, NEW ids \in Selections, NEW down \in BOOLEAN, NEW delta \in Deltas,
           MoveByDelta(c, ids, down, delta)
    PROVE  TreeInv'
<1>1. PICK T : Sound(Site, T)
  BY DEF TreeInv
<1>2. PICK s, y : s = Site /\ y = MovedByDelta(list[c], ids, down, delta)
  OBVIOUS
<1>3. PICK L, X : L = Len(s.list[c]) /\ X = ToSet(s.list[c])
  OBVIOUS
<1>4. Fits(s, T) /\ s.list = list /\ delta \in Nat
  BY <1>1, <1>2, TreeAssumption DEF Sound, Site
<1>5. L \in Nat /\ ListsEach(s.list[c], Ids, X, L) /\ DOMAIN s.list[c] = 1 .. L
  BY <1>3, <1>4, ListIs
<1>6. ids \in Seq(X) /\ Len(ids) <= L
  <2>1. /\ ids \in Seq(Ids) /\ Len(ids) \in {1, 2} /\ DOMAIN ids = 1 .. Len(ids)
        /\ \A i, j \in DOMAIN ids : ids[i] = ids[j] => i = j
    BY SelectionIs
  <2>2. \A k \in 1 .. Len(ids) : ids[k] \in X
    <3>1. ToSet(ids) \subseteq X
      BY <1>3, <1>4 DEF MoveByDelta
    <3> QED BY <2>1, <3>1 DEF ToSet
  <2>3. ids \in Seq(X)
    BY <2>1, <2>2
  <2>4. X = {s.list[c][k] : k \in 1 .. L}
    BY <1>3, <1>5 DEF ToSet
  <2>5. CASE Len(ids) = 1
    <3>1. ids[1] \in X
      BY <2>2, <2>5
    <3> QED BY <1>5, <2>3, <2>4, <2>5, <3>1
  <2>6. CASE Len(ids) = 2
    <3>1. ids[1] \in X /\ ids[2] \in X /\ ids[1] # ids[2]
      <4>1. 1 \in DOMAIN ids /\ 2 \in DOMAIN ids /\ 1 # 2
        BY <2>1, <2>6
      <4>2. ids[1] # ids[2]
        BY <2>1, <4>1
      <4> QED BY <2>1, <2>2, <4>1, <4>2
    <3>2. PICK i \in 1 .. L, j \in 1 .. L : s.list[c][i] = ids[1] /\ s.list[c][j] = ids[2]
      BY <2>4, <3>1
    <3>3. i # j
      BY <3>1, <3>2
    <3> QED BY <1>5, <2>3, <2>6, <3>3
  <2> QED BY <2>1, <2>5, <2>6
<1>7. ListsEach(y, Ids, X, L)
  BY <1>2, <1>4, <1>5, <1>6, MovedByDeltaIs
<1>8. PICK t : [s EXCEPT !.list[c] = y] = t
  OBVIOUS
<1>9. Fits(t, T) /\ t.attr = s.attr /\ t.index = s.index
  <2>1. Reordered(s, c, y, t)
    BY <1>3, <1>7, <1>8 DEF Reordered
  <2>2. OrderDone(s, T, t)
    BY <1>4, <2>1, OrderFits
  <2> QED BY <2>2 DEF OrderDone
<1>10. Sound(t, T)
  BY <1>1, <1>2, <1>9 DEF Sound
<1>11. Site' = t
  <2>1. list' = [list EXCEPT ![c] = y] /\ attr' = attr /\ index' = index
    BY <1>2 DEF MoveByDelta
  <2>2. s = [list |-> list, attr |-> attr, index |-> index]
    BY <1>2 DEF Site
  <2>3. Site' = [list |-> [list EXCEPT ![c] = y], attr |-> attr, index |-> index]
    BY <2>1 DEF Site
  <2> QED BY <1>8, <2>2, <2>3
<1>12. TreeInv'
  BY <1>10, <1>11 DEF TreeInv
<1> QED BY <1>12

\* A renaming: taken out, set again, and put where it was in an ordered folder.
RenameDone(s, T, c, id, new, n, y, out, z, U) ==
    /\ DelObject(s, c, id, TRUE) = out /\ SetObject(out, c, new, n, TRUE) = z
    /\ out = DelObject(Unindexed(s, n), c, id, FALSE)
    /\ z = Indexed(SetObject(out, c, new, n, FALSE), n)
    /\ Positioned(s, c, id, new, z) = y
    /\ Fits(z, U) /\ Fits(y, U) /\ y.attr = z.attr /\ c \in U /\ out \in SiteType
    /\ s.attr[c][id] = n /\ (s.attr[c][new] = NoNode => U = T)
    /\ z.attr[c][new] = n /\ NothingElse(out, z, n) /\ Differs(s, out, c, id, NoNode)

\* A renaming to an id that is free, or in the place of what is there (CopySupport.py,
\* manage_renameObject).
LEMMA RenamedIs ==
    ASSUME NEW s, NEW T, Sound(s, T), NEW c \in Folders, NEW id \in Ids, NEW new \in Ids, id # new,
           NEW n, s.attr[c][id] = n, n # NoNode,
           NEW y, Positioned(s, c, id, new,
                    Indexed(SetObject(DelObject(Unindexed(s, n), c, id, FALSE), c, new, n, FALSE), n)) = y
    PROVE  \E out, z, U : RenameDone(s, T, c, id, new, n, y, out, z, U)
<1>2. Fits(s, T)
  BY SoundTyped
<1>3. c \in T \cap Folders /\ n \in T \ {Root}
  BY KidSound
<1>4. PICK S, out : S = Below(s, n) /\ DelObject(s, c, id, TRUE) = out
  OBVIOUS
<1>5. DelDone(s, T, c, id, n, S, out)
  BY <1>2, <1>3, <1>4, DelFits
<1>6. PICK R : R = T \ S
  OBVIOUS
<1>7. /\ Fits(out, R) /\ Hangs(out, n, S) /\ S \cap R = {} /\ R \cup S = T /\ c \in R \cap Folders
      /\ out = DelObject(Unindexed(s, n), c, id, FALSE) /\ Differs(s, out, c, id, NoNode)
  BY <1>3, <1>5, <1>6 DEF DelDone
<1>8. PICK z : SetObject(out, c, new, n, TRUE) = z
  OBVIOUS
<1>9. SetOverDone(out, R, c, new, n, S, z)
  BY <1>7, <1>8, SetOver
<1>10. s.attr[c][new] = NoNode => out.attr[c][new] = NoNode
  <2>1. s.attr \in [Folders -> [Ids -> Nodes \cup {NoNode}]]
    BY SoundTyped
  <2>2. out.attr = [s.attr EXCEPT ![c][id] = NoNode] /\ c \in Folders /\ new # id
    BY <1>7 DEF Differs
  <2>3. out.attr[c][new] = s.attr[c][new]
    BY <2>1, <2>2
  <2> QED BY <2>3
<1>11. PICK U : Fits(z, U) /\ c \in U /\ (s.attr[c][new] = NoNode => U = T)
  <2>1. CASE s.attr[c][new] = NoNode
    <3>1. out.attr[c][new] = NoNode
      BY <1>10, <2>1
    <3>2. Fits(z, R \cup S)
      BY <1>9, <3>1 DEF SetOverDone
    <3>3. R \cup S = T /\ c \in T
      BY <1>3, <1>7
    <3> QED BY <3>2, <3>3
  <2>2. CASE s.attr[c][new] # NoNode
    <3>1. PICK V : V \subseteq R /\ c \in V /\ Fits(z, V \cup S)
      BY <1>9 DEF SetOverDone
    <3>2. c \in V \cup S
      BY <3>1
    <3> QED BY <2>2, <3>1, <3>2
  <2> QED BY <2>1, <2>2
<1>12. z = Indexed(SetObject(out, c, new, n, FALSE), n) /\ z.attr[c][new] = n /\ NothingElse(out, z, n)
  BY <1>9 DEF SetOverDone
<1>13. Positioned(s, c, id, new, z) = y
  BY <1>7, <1>12
<1>14. Fits(y, U) /\ y.attr = z.attr
  <2>1. CASE c \notin Ordered
    BY <1>11, <1>13, <2>1 DEF Positioned
  <2>2. CASE c \in Ordered
    <3>1. PICK position : position = CHOOSE k \in DOMAIN s.list[c] : s.list[c][k] = id
      OBVIOUS
    <3>2. position \in Nat
      <4>1. id \in ToSet(s.list[c]) /\ DOMAIN s.list[c] = 1 .. Len(s.list[c]) /\ Len(s.list[c]) \in Nat
        BY <1>2, <1>3, ListIs
      <4>2. \E k \in DOMAIN s.list[c] : s.list[c][k] = id
        BY <4>1 DEF ToSet
      <4>3. position \in DOMAIN s.list[c]
        BY <3>1, <4>2
      <4> QED BY <4>1, <4>3
    <3>3. PICK X, L, x : X = ToSet(z.list[c]) /\ L = Len(z.list[c]) /\ ToPosition(z.list[c], new, position) = x
      OBVIOUS
    <3>4. new \in X /\ L \in Nat /\ ListsEach(z.list[c], Ids, X, L)
      BY <1>11, <1>12, <3>3, ListIs
    <3>5. ListsEach(x, Ids, X, L)
      BY <3>2, <3>3, <3>4, ToPositionIs
    <3>6. [z EXCEPT !.list[c] = x] = y
      <4>1. y = [z EXCEPT !.list[c] = ToPosition(@, new, position)]
        BY <1>13, <2>2, <3>1 DEF Positioned
      <4>2. z \in SiteType
        BY <1>11, FitsTyped
      <4>3. PICK g : g = [z.list EXCEPT ![c] = x]
        OBVIOUS
      <4>4. y = [z EXCEPT !.list = g]
        BY <3>3, <4>1, <4>2, <4>3, SiteTyped
      <4>5. [z EXCEPT !.list[c] = x] = [z EXCEPT !.list = g]
        BY <4>2, <4>3, SiteTyped
      <4> QED BY <4>4, <4>5
    <3>7. ListsEach(x, Ids, ToSet(z.list[c]), Len(z.list[c]))
      BY <3>3, <3>5
    <3>8. PICK v : v = x
      OBVIOUS
    <3>9. ListsEach(v, Ids, ToSet(z.list[c]), Len(z.list[c])) /\ [z EXCEPT !.list[c] = v] = y
      BY <3>6, <3>7, <3>8
    <3>10. Reordered(z, c, v, y)
      BY <3>9 DEF Reordered
    <3>11. Fits(z, U)
      BY <1>11
    <3>12. OrderDone(z, U, y)
      BY <3>10, <3>11, OrderFits
    <3> QED BY <3>12 DEF OrderDone
  <2> QED BY <2>1, <2>2
<1>15. out \in SiteType
  BY <1>7, FitsTyped
<1>16. RenameDone(s, T, c, id, new, n, y, out, z, U)
  BY <1>4, <1>7, <1>8, <1>11, <1>12, <1>13, <1>14, <1>15 DEF RenameDone
<1> QED BY <1>16

\* Rename; where nothing is in the way, no object leaves the tree.
LEMMA RenameKeeps ==
    ASSUME NEW T, Sound(Site, T), NEW c \in Folders, NEW id \in Ids, NEW new \in Ids, Rename(c, id, new)
    PROVE  /\ (TreeInv)'
           /\ attr[c][new] = NoNode => \E s : Site' = Left(s, T) /\ Sound(Left(s, T), T)
<1>1. PICK s, n : s = Site /\ n = attr[c][id]
  OBVIOUS
<1>2. Sound(s, T) /\ s.attr = attr /\ n # NoNode /\ id # new /\ s.attr[c][id] = n
  BY <1>1 DEF Rename, Site
<1>3. PICK y : Positioned(s, c, id, new,
                 Indexed(SetObject(DelObject(Unindexed(s, n), c, id, FALSE), c, new, n, FALSE), n)) = y
  OBVIOUS
<1>4. PICK out, z, U : RenameDone(s, T, c, id, new, n, y, out, z, U)
  BY <1>2, <1>3, RenamedIs
<1>5. Becomes(y, locks)
  <2>1. Becomes(Positioned(Site, c, id, new,
                   Indexed(SetObject(DelObject(Unindexed(Site, n), c, id, FALSE), c, new, n, FALSE), n)), locks)
    BY <1>1 DEF Rename
  <2> QED BY <1>1, <1>3, <2>1
<1>6. Fits(y, U) /\ (s.attr[c][new] = NoNode => U = T)
  BY <1>4 DEF RenameDone
<1>7. Site' = Left(y, U) /\ Sound(Left(y, U), U) /\ TreeInv'
  BY <1>5, <1>6, BecomesSound
<1>8. ASSUME attr[c][new] = NoNode PROVE Site' = Left(y, T) /\ Sound(Left(y, T), T)
  BY <1>2, <1>6, <1>7, <1>8
<1> QED BY <1>7, <1>8

-----------------------------------------------------------------------------
(* The invariant *)

\* There is a tree at first, of the root alone.
LEMMA TreeInvInit == ASSUME TInit PROVE TreeInv /\ ClipInv
<1>1. PICK s : s = Site
  OBVIOUS
<1>2. /\ s = [list |-> [c \in Folders |-> <<>>], attr |-> [c \in Folders |-> [i \in Ids |-> NoNode]],
               index |-> {<< <<>>, Root >>}]
  BY <1>1 DEF TInit, Site
<1>3. /\ s.list = [c \in Folders |-> <<>>] /\ s.attr = [c \in Folders |-> [i \in Ids |-> NoNode]]
      /\ s.index = {<< <<>>, Root >>}
      /\ \A c \in Folders : s.list[c] = <<>> /\ \A i \in Ids : s.attr[c][i] = NoNode
  BY <1>2
<1>4. s \in SiteType
  <2>1. <<>> \in Seq(Ids) /\ Root \in Nodes
    BY FinitelyMany
  <2>2. s.list \in [Folders -> Seq(Ids)] /\ s.attr \in [Folders -> [Ids -> Nodes \cup {NoNode}]]
    BY <1>3, <2>1
  <2>3. s.index \in SUBSET (Seq(Ids) \X Nodes)
    <3>1. PICK q : q = <<>>
      OBVIOUS
    <3>2. <<q, Root>> \in Seq(Ids) \X Nodes
      BY <2>1, <3>1
    <3>3. s.index = {<<q, Root>>}
      BY <1>3, <3>1
    <3> QED BY <3>2, <3>3
  <2>4. s = [list |-> s.list, attr |-> s.attr, index |-> s.index]
    BY <1>2, <1>3
  <2> QED BY <2>2, <2>3, <2>4 DEF SiteType
<1>5. AllListed(s)
  <2>1. ToSet(<<>>) = {} /\ OnceIn(<<>>, Ids)
    BY EmptyList DEF ToSet
  <2> QED BY <1>3, <2>1 DEF AllListed, Listed
<1>6. PICK T : T = {Root}
  OBVIOUS
<1>7. PICK A : Rooted(s, Root, T, A)
  <2>1. Hangs(s, Root, {Root})
    BY <1>3, FinitelyMany, AloneHangs
  <2> QED BY <1>6, <2>1 DEF Hangs
<1>8. PICK P : IsPaths(s, Root, T, P)
  BY <1>7, PathsExist
<1>9. s.index = Places(P, T)
  BY <1>3, <1>6, <1>8 DEF IsPaths, Places
<1>10. Fits(s, T)
  BY <1>4, <1>5, <1>7, <1>8, <1>9, FitsWhen
<1>11. Sound(s, T)
  BY <1>3, <1>10 DEF Sound
<1>12. ClipInv
  BY DEF TInit, ClipInv
<1> QED BY <1>1, <1>11, <1>12 DEF TreeInv

\* Where nothing changes, the tree is the same.
LEMMA SameSite == ASSUME TreeInv, Site' = Site PROVE TreeInv'
<1>1. PICK T : Sound(Site, T)
  BY DEF TreeInv
<1>2. Sound(Site', T)
  BY <1>1
<1> QED BY <1>2 DEF TreeInv

\* Each step leaves a tree.
LEMMA TreeInvNext == ASSUME TreeInv, ClipInv, [TNext]_tvars PROVE TreeInv' /\ ClipInv'
<1>0. PICK T : Sound(Site, T)
  BY DEF TreeInv
<1>1. ASSUME NEW c \in Folders, NEW id \in Ids, NEW n \in Nodes, Add(c, id, n) PROVE TreeInv' /\ ClipInv'
  BY <1>1, AddKeeps DEF Add, ClipInv
<1>2. ASSUME NEW c \in Folders, NEW ids \in SUBSET Ids, DelObjects(c, ids) PROVE TreeInv' /\ ClipInv'
  BY <1>2, DelObjectsKeeps DEF DelObjects, ClipInv
<1>3. ASSUME NEW c \in Folders, NEW ids \in Selections, Cut(c, ids) PROVE TreeInv' /\ ClipInv'
  BY <1>3, CutKeeps, SameSite
<1>4. ASSUME NEW c \in Folders, NEW id \in Ids, Copy(c, id) PROVE TreeInv' /\ ClipInv'
  BY <1>4, CopyKeeps, SameSite
<1>5. ASSUME NEW c \in Folders, PasteMove(c) PROVE TreeInv' /\ ClipInv'
  <2>1. clip.paths \in Seq(Seq(Ids) \ {<<>>}) /\ clip' = NoClip
    BY <1>5 DEF PasteMove, ClipInv
  <2>2. PICK n \in Nat : DOMAIN clip.paths = 1 .. n
    BY <2>1
  <2>3. TreeInv'
    BY <1>0, <1>5, <2>2, PasteMoveKeeps
  <2> QED BY <2>1, <2>3 DEF ClipInv
<1>6. ASSUME NEW c \in Folders, PasteCopy(c) PROVE TreeInv' /\ ClipInv'
  BY <1>6, PasteCopyKeeps DEF PasteCopy, PutCopy, ClipInv
<1>7. ASSUME NEW c \in Folders, NEW n \in Nodes, NEW id \in Ids, Clone(c, n, id) PROVE TreeInv' /\ ClipInv'
  BY <1>7, CloneKeeps DEF Clone, PutCopy, ClipInv
<1>8. ASSUME NEW c \in Folders, NEW id \in Ids, NEW new \in Ids, Rename(c, id, new) PROVE TreeInv' /\ ClipInv'
  <2>1. TreeInv'
    BY <1>0, <1>8, RenameKeeps
  <2>2. clip' = clip
    BY <1>8 DEF Rename
  <2> QED BY <2>1, <2>2 DEF ClipInv
<1>9. ASSUME NEW c \in Folders, NEW ids \in Selections, NEW down \in BOOLEAN, NEW delta \in Deltas,
             MoveByDelta(c, ids, down, delta)
      PROVE  TreeInv' /\ ClipInv'
  BY <1>9, MoveByDeltaKeeps DEF MoveByDelta, ClipInv
<1>10. ASSUME NEW n \in Nodes, NEW token \in Tokens, SetLock(n, token) \/ DelLock(n, token)
       PROVE  TreeInv' /\ ClipInv'
  <2>1. Site' = Site /\ clip' = clip
    BY <1>10 DEF SetLock, DelLock, Site
  <2> QED BY <2>1, SameSite DEF ClipInv
<1>11. CASE UNCHANGED tvars
  <2>1. Site' = Site /\ clip' = clip
    BY <1>11 DEF tvars, Site
  <2> QED BY <2>1, SameSite DEF ClipInv
<1> QED BY <1>1, <1>2, <1>3, <1>4, <1>5, <1>6, <1>7, <1>8, <1>9, <1>10, <1>11 DEF TNext

\* A tree that is sound is what IndexIsExact says.
LEMMA SoundExact == ASSUME TreeInv PROVE IndexIsExact
<1>1. PICK T : Sound(Site, T)
  BY DEF TreeInv
<1>2. PICK s : s = Site
  OBVIOUS
<1>3. /\ Sound(s, T) /\ Fits(s, T) /\ Below(s, Root) = T
      /\ s.list = list /\ s.attr = attr /\ s.index = index
      /\ attr \in [Folders -> [Ids -> Nodes \cup {NoNode}]]
  BY <1>1, <1>2, SoundTyped DEF Site
<1> DEFINE places == {p \in Folders \X Ids : attr[p[1]][p[2]] # NoNode}
           placed == {attr[p[1]][p[2]] : p \in places}
<1>4. ASSUME NEW c \in Folders
      PROVE  /\ ToSet(list[c]) = {i \in Ids : attr[c][i] # NoNode}
             /\ Len(list[c]) = Cardinality(ToSet(list[c]))
  <2>1. /\ list[c] \in Seq(Ids) /\ ToSet(list[c]) = {i \in Ids : attr[c][i] # NoNode}
        /\ ListsEach(list[c], Ids, ToSet(list[c]), Len(list[c]))
    BY <1>3, ListIs
  <2>2. OnceIn(list[c], Ids)
    BY <2>1 DEF ListsEach
  <2> QED BY <2>1, <2>2, ListCount
<1>5. Cardinality(placed) = Cardinality(places)
  <2> DEFINE f == [p \in places |-> attr[p[1]][p[2]]]
  <2>1. f \in [places -> placed] /\ \A y \in placed : \E p \in places : f[p] = y
    OBVIOUS
  <2>2. ASSUME NEW p \in places, NEW r \in places, f[p] = f[r] PROVE p = r
    <3>1. PICK c \in Folders, i \in Ids, d \in Folders, j \in Ids :
             p = <<c, i>> /\ r = <<d, j>> /\ s.attr[d][j] = s.attr[c][i] /\ s.attr[c][i] # NoNode
      BY <1>3, <2>2
    <3>0. PICK n : n = s.attr[c][i]
      OBVIOUS
    <3>2. d = c /\ j = i
      <4>1. \A e \in Folders, k \in Ids : s.attr[e][k] = n => e = c /\ k = i
        BY <1>3, <3>0, <3>1, KidSound
      <4> QED BY <3>0, <3>1, <4>1
    <3> QED BY <3>1, <3>2
  <2>3. f \in Bijection(places, placed)
    <3> HIDE DEF places, placed, f
    <3>1. DOMAIN f = places
      BY <2>1
    <3> QED BY <2>1, <2>2, <3>1 DEF Bijection, Injection, Surjection, IsInjective
  <2>4. IsFiniteSet(places)
    <3>1. IsFiniteSet(Folders \X Ids)
      BY FinitelyMany, FS_Product
    <3> QED BY <3>1, FS_Subset
  <2> HIDE DEF places, placed, f
  <2>5. ExistsBijection(places, placed)
    BY <2>3 DEF ExistsBijection
  <2> QED BY <2>4, <2>5, FS_Bijection
<1>6. placed = T \ {Root}
  <2>1. ASSUME NEW p \in places PROVE attr[p[1]][p[2]] \in T \ {Root}
    <3>0. PICK c \in Folders, i \in Ids : p = <<c, i>> /\ s.attr[c][i] # NoNode
      BY <1>3
    <3>1. PICK n : n = s.attr[c][i]
      OBVIOUS
    <3>2. n \in T \ {Root}
      BY <1>3, <3>0, <3>1, KidSound
    <3> QED BY <1>3, <3>0, <3>1, <3>2
  <2>2. ASSUME NEW n \in T \ {Root} PROVE n \in placed
    <3>1. PICK c \in Folders, i \in Ids : attr[c][i] = n /\ n # NoNode
      BY <1>3, PlacedSound
    <3>2. <<c, i>> \in places
      BY <3>1
    <3> QED BY <3>1, <3>2
  <2> HIDE DEF places
  <2> QED BY <2>1, <2>2
<1>7. OneTree
  <2>1. placed = Below(Site, Root) \ {Root}
    BY <1>2, <1>3, <1>6
  <2> QED BY <1>4, <1>5, <2>1 DEF OneTree
<1>8. index = Located(Site, Root)
  BY <1>2, <1>3 DEF Fits
<1> QED BY <1>7, <1>8 DEF IndexIsExact

\* A step that pastes or renames keeps the tree.
LEMMA StepKeeps == ASSUME TreeInv, ClipInv, [TNext]_tvars PROVE PasteKeeps
<1>0. PICK T : Sound(Site, T)
  BY DEF TreeInv
<1>1. Below(Site, Root) = T
  BY <1>0, SoundTyped
<1>2. ASSUME NEW s, Site' = Left(s, T) /\ Sound(Left(s, T), T) PROVE Below(Site', Root) = T
  BY <1>2, SoundTyped
<1>3. ASSUME NEW c \in Folders, NEW id \in Ids, NEW new \in Ids, attr[c][new] = NoNode, Rename(c, id, new)
      PROVE  Below(Site', Root) = T
  BY <1>0, <1>2, <1>3, RenameKeeps
<1>4. ASSUME clip # NoClip, clip' = NoClip PROVE Below(Site', Root) = T
  <2>1. CASE Site' = Site
    BY <1>1, <2>1
  <2>2. ASSUME NEW c \in Folders, PasteMove(c) PROVE Below(Site', Root) = T
    <3>1. clip.paths \in Seq(Seq(Ids) \ {<<>>})
      BY <2>2 DEF PasteMove, ClipInv
    <3>2. PICK n \in Nat : DOMAIN clip.paths = 1 .. n
      BY <3>1
    <3> QED BY <1>0, <1>2, <2>2, <3>2, PasteMoveKeeps
  <2>3. clip' # clip
    BY <1>4
  <2>4. CASE \E c \in Folders, ids \in Selections : Cut(c, ids)
    BY <2>1, <2>4 DEF Cut, Site
  <2>5. CASE \E c \in Folders, id \in Ids : Copy(c, id)
    BY <2>1, <2>5 DEF Copy, Site
  <2>6. \A c \in Folders, id \in Ids, n \in Nodes : ~Add(c, id, n)
    BY <2>3 DEF Add
  <2>7. \A c \in Folders, ids \in SUBSET Ids : ~DelObjects(c, ids)
    BY <2>3 DEF DelObjects
  <2>8. \A c \in Folders : ~PasteCopy(c)
    BY <2>3 DEF PasteCopy, PutCopy
  <2>9. \A c \in Folders, n \in Nodes, id \in Ids : ~Clone(c, n, id)
    BY <2>3 DEF Clone, PutCopy
  <2>10. \A c \in Folders, id, new \in Ids : ~Rename(c, id, new)
    BY <2>3 DEF Rename
  <2>11. \A c \in Folders, ids \in Selections, down \in BOOLEAN, delta \in Deltas : ~MoveByDelta(c, ids, down, delta)
    BY <2>3 DEF MoveByDelta
  <2>12. \A n \in Nodes, token \in Tokens : ~SetLock(n, token) /\ ~DelLock(n, token)
    BY <2>3 DEF SetLock, DelLock
  <2>13. ~UNCHANGED tvars
    BY <2>3 DEF tvars
  <2> QED BY <2>2, <2>4, <2>5, <2>6, <2>7, <2>8, <2>9, <2>10, <2>11, <2>12, <2>13 DEF TNext
<1> QED BY <1>1, <1>3, <1>4 DEF PasteKeeps

-----------------------------------------------------------------------------

\* The invariant
LEMMA TreeIsInvariant == TSpec => [](TreeInv /\ ClipInv)
<1>1. TInit => TreeInv /\ ClipInv
  BY TreeInvInit
<1>2. (TreeInv /\ ClipInv) /\ [TNext]_tvars => (TreeInv /\ ClipInv)'
  BY TreeInvNext
<1> QED BY <1>1, <1>2, PTL DEF TSpec

\* However objects are added, deleted, moved, copied, renamed and reordered, they stay one
\* tree, _objects lists exactly the attributes, and the events have told the catalog of each
\* object at its path and of no other (ObjectManager.py, CopySupport.py, subscribers.py).
THEOREM TreeStaysExact == TSpec => []IndexIsExact
<1>1. TreeInv => IndexIsExact
  BY SoundExact
<1> QED BY <1>1, TreeIsInvariant, PTL

\* A paste of what was cut, and a renaming to an id that is free, lose no object of the tree
\* (manage_pasteObjects, manage_renameObject).
THEOREM MovesKeepAll == TSpec => MovesLoseNothing
<1>1. (TreeInv /\ ClipInv) /\ [TNext]_tvars => PasteKeeps
  BY StepKeeps
<1>2. TSpec => [][TNext]_tvars
  BY DEF TSpec
<1> QED BY <1>1, <1>2, TreeIsInvariant, PTL DEF MovesLoseNothing

-----------------------------------------------------------------------------
(* WebDAV: a collection that is moved, into itself perhaps *)

\* _objects and the attribute change together.
TakenOut(s, c, id) == [s EXCEPT !.list[c] = Only(@, Ids \ {id}), !.attr[c][id] = NoNode]
PutIn(s, c, id, n) == [s EXCEPT !.list[c] = Append(@, id), !.attr[c][id] = n]

\* What they make of a folder, wherever it is
ChangedAt(s, c, id, n, t) ==
    t \in SiteType /\ AllListed(t) /\ t.index = s.index /\ Differs(s, t, c, id, n)

\* An object is taken out of a folder.
LEMMA TakenOutIs ==
    ASSUME NEW s \in SiteType, AllListed(s), NEW c \in Folders, NEW id \in Ids, NEW t, TakenOut(s, c, id) = t
    PROVE  ChangedAt(s, c, id, NoNode, t)
<1>t. /\ s.attr \in [Folders -> [Ids -> Nodes \cup {NoNode}]]
      /\ s.list \in [Folders -> Seq(Ids)]
      /\ s.index \in SUBSET (Seq(Ids) \X Nodes)
      /\ s = [list |-> s.list, attr |-> s.attr, index |-> s.index]
  BY SiteTyped
<1>1. PICK l : l = Only(s.list[c], Ids \ {id})
  OBVIOUS
<1>2. s.list[c] \in Seq(Ids) /\ Listed(s, c)
  BY <1>t DEF AllListed
<1>3. l \in Seq(Ids) /\ ToSet(l) = ToSet(s.list[c]) \cap (Ids \ {id}) /\ OnceIn(l, Ids)
  BY <1>1, <1>2, OnlyIs DEF Listed
<1>4. t = [list |-> [s.list EXCEPT ![c] = l], attr |-> [s.attr EXCEPT ![c][id] = NoNode], index |-> s.index]
  <2>1. t = [s EXCEPT !.list[c] = l, !.attr[c][id] = NoNode]
    BY <1>1 DEF TakenOut
  <2> QED BY <1>t, <2>1
<1>5. Differs(s, t, c, id, NoNode) /\ t.list = [s.list EXCEPT ![c] = l] /\ t.index = s.index
  BY <1>4 DEF Differs
<1>6. PICK f, g, V : f = s.attr /\ g = t.attr /\ V = Nodes \cup {NoNode}
  OBVIOUS
<1>7. /\ g \in [Folders -> [Ids -> V]]
      /\ \A d \in Folders, i \in Ids : g[d][i] = IF d = c /\ i = id THEN NoNode ELSE f[d][i]
      /\ \A d \in Folders : d # c => g[d] = f[d]
  <2>1. f \in [Folders -> [Ids -> V]] /\ g = [f EXCEPT ![c][id] = NoNode] /\ NoNode \in V
    BY <1>t, <1>5, <1>6 DEF Differs
  <2> QED BY <2>1, PointIs
<1>8. t \in SiteType
  <2>1. t.list \in [Folders -> Seq(Ids)]
    BY <1>t, <1>3, <1>5
  <2>2. t.attr \in [Folders -> [Ids -> Nodes \cup {NoNode}]]
    BY <1>6, <1>7
  <2> QED BY <1>t, <1>4, <1>5, <2>1, <2>2 DEF SiteType
<1>9. AllListed(t)
  <2>1. t.list[c] = l /\ \A d \in Folders \ {c} : t.list[d] = s.list[d] /\ t.attr[d] = s.attr[d]
    BY <1>t, <1>5, <1>6, <1>7
  <2>2. {i \in Ids : t.attr[c][i] # NoNode} = {i \in Ids : s.attr[c][i] # NoNode} \ {id}
    BY <1>6, <1>7
  <2>3. Listed(t, c)
    BY <1>2, <1>3, <2>1, <2>2 DEF Listed
  <2> QED BY <2>1, <2>3, ListedElse
<1> QED BY <1>5, <1>8, <1>9 DEF ChangedAt

\* An object is put into a place of a folder that is free.
LEMMA PutInIs ==
    ASSUME NEW s \in SiteType, AllListed(s), NEW c \in Folders, NEW id \in Ids, s.attr[c][id] = NoNode,
           NEW n \in Nodes, NEW t, PutIn(s, c, id, n) = t
    PROVE  ChangedAt(s, c, id, n, t)
<1>t. /\ s.attr \in [Folders -> [Ids -> Nodes \cup {NoNode}]]
      /\ s.list \in [Folders -> Seq(Ids)]
      /\ s.index \in SUBSET (Seq(Ids) \X Nodes)
      /\ s = [list |-> s.list, attr |-> s.attr, index |-> s.index]
  BY SiteTyped
<1>0. n # NoNode
  BY FinitelyMany
<1>1. PICK k, l : k = s.list[c] /\ l = Append(k, id)
  OBVIOUS
<1>2. k \in Seq(Ids) /\ Listed(s, c)
  BY <1>t, <1>1 DEF AllListed
<1>3. l \in Seq(Ids) /\ ToSet(l) = ToSet(k) \cup {id} /\ OnceIn(l, Ids)
  <2>1. \A q : ToSet(q) = Range(q)
    BY DEF ToSet, Range
  <2>2. id \notin Range(k) /\ OnceIn(k, Ids)
    BY <1>1, <1>2, <2>1 DEF Listed
  <2>3. Range(Append(k, id)) = Range(k) \cup {id} /\ Append(k, id) \in Seq(Ids)
    BY <1>2, AppendRange
  <2>4. OnceIn(Append(k, id), Ids)
    BY <1>2, <2>2, OnceAppend
  <2> QED BY <1>1, <2>1, <2>3, <2>4
<1>4. t = [list |-> [s.list EXCEPT ![c] = l], attr |-> [s.attr EXCEPT ![c][id] = n], index |-> s.index]
  <2>1. t = [s EXCEPT !.list[c] = l, !.attr[c][id] = n]
    BY <1>1 DEF PutIn
  <2> QED BY <1>t, <2>1
<1>5. Differs(s, t, c, id, n) /\ t.list = [s.list EXCEPT ![c] = l] /\ t.index = s.index
  BY <1>4 DEF Differs
<1>6. PICK f, g, V : f = s.attr /\ g = t.attr /\ V = Nodes \cup {NoNode}
  OBVIOUS
<1>7. /\ g \in [Folders -> [Ids -> V]]
      /\ \A d \in Folders, i \in Ids : g[d][i] = IF d = c /\ i = id THEN n ELSE f[d][i]
      /\ \A d \in Folders : d # c => g[d] = f[d]
  <2>1. f \in [Folders -> [Ids -> V]] /\ g = [f EXCEPT ![c][id] = n] /\ n \in V
    BY <1>t, <1>5, <1>6 DEF Differs
  <2> QED BY <2>1, PointIs
<1>8. t \in SiteType
  <2>1. t.list \in [Folders -> Seq(Ids)]
    BY <1>t, <1>3, <1>5
  <2>2. t.attr \in [Folders -> [Ids -> Nodes \cup {NoNode}]]
    BY <1>6, <1>7
  <2> QED BY <1>t, <1>4, <1>5, <2>1, <2>2 DEF SiteType
<1>9. AllListed(t)
  <2>1. t.list[c] = l /\ \A d \in Folders \ {c} : t.list[d] = s.list[d] /\ t.attr[d] = s.attr[d]
    BY <1>t, <1>5, <1>6, <1>7
  <2>2. {i \in Ids : t.attr[c][i] # NoNode} = {i \in Ids : s.attr[c][i] # NoNode} \cup {id}
    BY <1>0, <1>6, <1>7
  <2>3. Listed(t, c)
    BY <1>1, <1>2, <1>3, <2>1, <2>2 DEF Listed
  <2> QED BY <2>1, <2>3, ListedElse
<1> QED BY <1>5, <1>8, <1>9 DEF ChangedAt

\* What is told that it goes changes the catalog only.
LEMMA UnindexedOnly ==
    ASSUME NEW s \in SiteType, NEW n
    PROVE  /\ Unindexed(s, n) \in SiteType
           /\ Unindexed(s, n).list = s.list /\ Unindexed(s, n).attr = s.attr
<1>1. PICK x : x = {e \in s.index : e[1] \notin {e1[1] : e1 \in {y \in Located(s, Root) : y[2] \in Below(s, n)}}}
  OBVIOUS
<1>2. Unindexed(s, n) = [s EXCEPT !.index = x]
  BY <1>1 DEF Unindexed
<1>3. x \in SUBSET (Seq(Ids) \X Nodes)
  BY <1>1, SiteTyped
<1> QED BY <1>2, <1>3 DEF SiteType

\* _setObject deletes what is in the place itself.
LEMMA OverwrittenIs ==
    ASSUME NEW s \in SiteType, NEW c \in Folders, NEW id \in Ids, NEW n, NEW events \in BOOLEAN
    PROVE  SetObject(Overwritten(s, c, id), c, id, n, events) = SetObject(s, c, id, n, events)
<1>1. CASE s.attr[c][id] = NoNode
  BY <1>1 DEF Overwritten
<1>2. CASE s.attr[c][id] # NoNode
  <2>1. PICK u, l, free : /\ u = Unindexed(s, s.attr[c][id]) /\ l = Only(u.list[c], Ids \ {id})
                          /\ free = DelObject(s, c, id, TRUE)
    OBVIOUS
  <2>2. free = [u EXCEPT !.list[c] = l, !.attr[c][id] = NoNode]
    BY <2>1 DEF DelObject
  <2>3. u \in SiteType
    BY <2>1, UnindexedOnly
  <2>4. free.attr = [u.attr EXCEPT ![c][id] = NoNode] /\ u.attr \in [Folders -> [Ids -> Nodes \cup {NoNode}]]
    BY <2>2, <2>3 DEF SiteType
  <2>5. free.attr[c][id] = NoNode
    BY <2>4
  <2>6. Overwritten(s, c, id) = free
    BY <1>2, <2>1 DEF Overwritten
  <2> QED BY <1>2, <2>1, <2>5, <2>6 DEF SetObject
<1> QED BY <1>1, <1>2

\* What was taken out of the tree may change: the tree and the catalog do not.
LEMMA DetachedChange ==
    ASSUME NEW s, NEW R, Fits(s, R), NEW n, NEW S, Hangs(s, n, S), S \cap R = {},
           NEW c \in S \cap Folders, NEW id \in Ids,
           NEW y, Indexed(SetObject(Overwritten(s, c, id), c, id, n, FALSE), n) = y
    PROVE  Fits(y, R) /\ NothingElse(s, y, n)
<1>0. s \in SiteType /\ AllListed(s) /\ Root \in R /\ R \subseteq Nodes
  BY FitsTyped
<1>t. s.attr \in [Folders -> [Ids -> Nodes \cup {NoNode}]]
  BY <1>0, SiteTyped
<1>1. PICK B : Rooted(s, n, S, B)
  BY DEF Hangs
<1>2. n \in Nodes /\ n # NoNode /\ c \notin R
  BY <1>1, FinitelyMany DEF Rooted
<1>3. PICK over : over = Overwritten(s, c, id)
  OBVIOUS
<1>4. /\ over \in SiteType /\ AllListed(over) /\ over.index = s.index /\ over.attr[c][id] = NoNode
      /\ Differs(s, over, c, id, NoNode)
  <2>1. CASE s.attr[c][id] = NoNode
    <3>1. over = s
      BY <1>3, <2>1 DEF Overwritten
    <3>2. s.attr = [s.attr EXCEPT ![c][id] = NoNode]
      BY <1>t, <2>1
    <3> QED BY <1>0, <2>1, <3>1, <3>2 DEF Differs
  <2>2. CASE s.attr[c][id] # NoNode
    <3>1. PICK old : old = s.attr[c][id]
      OBVIOUS
    <3>2. old \in S
      BY <1>1, <2>2, <3>1, KidIs
    <3>3. Below(s, old) \subseteq S
      <4>1. Below(s, old) = Sub(S, B, old)
        BY <1>0, <1>1, <3>2, BelowSub
      <4> QED BY <4>1 DEF Sub
    <3>4. PICK P : s.index = Places(P, R) /\ Located(s, Root) = s.index
      BY Known DEF Fits
    <3>5. {x \in Located(s, Root) : x[2] \in Below(s, old)} = {}
      BY <3>3, <3>4 DEF Places
    <3>6. Unindexed(s, old) = s
      <4>1. {e \in s.index : e[1] \notin {e1[1] : e1 \in {x \in Located(s, Root) : x[2] \in Below(s, old)}}} = s.index
        BY <3>5
      <4>2. PICK x : x = s.index
        OBVIOUS
      <4>3. Unindexed(s, old) = [s EXCEPT !.index = x]
        BY <4>1, <4>2 DEF Unindexed
      <4> QED BY <1>0, <4>2, <4>3 DEF SiteType
    <3>7. over = TakenOut(s, c, id)
      BY <1>3, <2>2, <3>1, <3>6 DEF Overwritten, DelObject, TakenOut
    <3>8. ChangedAt(s, c, id, NoNode, over)
      BY <1>0, <3>7, TakenOutIs
    <3>9. over.attr[c][id] = NoNode
      BY <1>t, <3>8 DEF ChangedAt, Differs
    <3> QED BY <3>8, <3>9 DEF ChangedAt
  <2> QED BY <2>1, <2>2
<1>5. PICK set : set = SetObject(over, c, id, n, FALSE)
  OBVIOUS
<1>6. ChangedAt(over, c, id, n, set)
  <2>1. set = PutIn(over, c, id, n)
    BY <1>4, <1>5 DEF SetObject, PutIn
  <2> QED BY <1>2, <1>4, <2>1, PutInIs
<1>7. Fits(over, R)
  <2>1. \A d \in R \cap Folders : over.attr[d] = s.attr[d]
    BY <1>t, <1>2, <1>4 DEF Differs
  <2> QED BY <1>4, <2>1, FitsElse
<1>t2. over.attr \in [Folders -> [Ids -> Nodes \cup {NoNode}]]
  BY <1>4, SiteTyped
<1>8. Fits(set, R)
  <2>1. \A d \in R \cap Folders : set.attr[d] = over.attr[d]
    BY <1>t2, <1>2, <1>6 DEF ChangedAt, Differs
  <2> QED BY <1>6, <1>7, <2>1, FitsElse DEF ChangedAt
<1>9. y = set
  <2>1. y = [set EXCEPT !.index = @ \cup {x \in Located(set, Root) : x[2] \in Below(set, n)}]
    BY <1>3, <1>5 DEF Indexed
  <2>2. set.index \cup {x \in Located(set, Root) : x[2] \in Below(set, n)} = set.index
    BY <1>8 DEF Fits
  <2>3. PICK x : x = set.index
    OBVIOUS
  <2>4. y = [set EXCEPT !.index = x] /\ set \in SiteType
    BY <1>8, <2>1, <2>2, <2>3, FitsTyped
  <2> QED BY <2>3, <2>4 DEF SiteType
<1>10. NothingElse(s, over, n) /\ NothingElse(over, set, n)
  BY <1>t, <1>t2, <1>4, <1>6, DiffersIs DEF ChangedAt
<1> QED BY <1>8, <1>9, <1>10 DEF NothingElse

\* In y, n has been moved to an id of folder c, and some of the tree is left.
Moved(s, n, c, id, y) ==
    LET out == DelObject(Unindexed(s, n), Container(s, n), IdOf(s, n), FALSE)
    IN  y = Indexed(SetObject(Overwritten(out, c, id), c, id, n, FALSE), n)

MoveDone(s, T, n, y) == \E R : R \subseteq T /\ Fits(y, R) /\ NothingElse(s, y, n)

\* MOVE leaves some of the objects, in a tree, and puts none anywhere but the one it moves.
LEMMA MovedIs ==
    ASSUME NEW s, NEW T, Sound(s, T), NEW n \in T \ {Root}, NEW c \in T \cap Folders, NEW id \in Ids,
           NEW y, Moved(s, n, c, id, y)
    PROVE  MoveDone(s, T, n, y)
<1>1. PICK d, i : d = Container(s, n) /\ i = IdOf(s, n)
  OBVIOUS
<1>2. PICK S, out : S = Below(s, n) /\ DelObject(s, d, i, TRUE) = out
  OBVIOUS
<1>3. d \in T \cap Folders /\ i \in Ids /\ s.attr[d][i] = n /\ n # NoNode
  BY <1>1, PlacedSound
<1>4. Fits(s, T) /\ s.attr \in [Folders -> [Ids -> Nodes \cup {NoNode}]]
  BY SoundTyped
<1>5. DelDone(s, T, d, i, n, S, out)
  BY <1>2, <1>3, <1>4, DelFits
<1>6. PICK R : R = T \ S
  OBVIOUS
<1>7. /\ Fits(out, R) /\ Hangs(out, n, S) /\ S \subseteq T /\ S \cap R = {} /\ Differs(s, out, d, i, NoNode)
      /\ out = DelObject(Unindexed(s, n), d, i, FALSE)
  BY <1>5, <1>6 DEF DelDone
<1>8. NothingElse(s, out, n)
  BY <1>3, <1>4, <1>7, DiffersIs
<1>9. y = Indexed(SetObject(Overwritten(out, c, id), c, id, n, FALSE), n)
  BY <1>1, <1>7 DEF Moved
<1>10. CASE c \in S
  <2>1. Fits(y, R) /\ NothingElse(out, y, n)
    BY <1>7, <1>9, <1>10, DetachedChange
  <2>2. NothingElse(s, y, n)
    BY <1>8, <2>1 DEF NothingElse
  <2> QED BY <1>6, <2>1, <2>2 DEF MoveDone
<1>11. CASE c \notin S
  <2>1. PICK z : SetObject(out, c, id, n, TRUE) = z
    OBVIOUS
  <2>2. SetOverDone(out, R, c, id, n, S, z)
    BY <1>6, <1>7, <1>11, <2>1, SetOver
  <2>3. z = y
    <3>1. out \in SiteType
      BY <1>7, FitsTyped
    <3> QED BY <1>9, <2>2, <3>1, OverwrittenIs DEF SetOverDone
  <2>4. PICK Q : Q \subseteq R /\ Fits(y, Q \cup S)
    BY <2>2, <2>3 DEF SetOverDone
  <2>5. Q \cup S \subseteq T
    BY <1>6, <1>7, <2>4
  <2>6. NothingElse(s, y, n)
    BY <1>8, <2>2, <2>3 DEF NothingElse, SetOverDone
  <2> QED BY <2>4, <2>5, <2>6 DEF MoveDone
<1> QED BY <1>10, <1>11

-----------------------------------------------------------------------------
(* WebDAV: the LockNullResources that are swept *)

SweepOf(s, E) == FoldLeft(LAMBDA t, n : DelObject(t, Container(t, n), IdOf(t, n), TRUE), s, SetToSeq(E))

\* No folder of t has an object that it had not in s.
NothingNew(s, t) == \A d \in Folders, i \in Ids : t.attr[d][i] \in {NoNode, s.attr[d][i]}

\* An object without others below it is deleted.
LEMMA SweepOne ==
    ASSUME NEW s, NEW T, Sound(s, T), NEW n \in T \ Folders
    PROVE  LET t == DelObject(s, Container(s, n), IdOf(s, n), TRUE)
           IN  Sound(t, T \ {n}) /\ NothingNew(s, t) /\ t.attr[Container(s, n)][IdOf(s, n)] = NoNode
<1>1. PICK d, i, S, t : d = Container(s, n) /\ i = IdOf(s, n) /\ S = Below(s, n) /\ DelObject(s, d, i, TRUE) = t
  OBVIOUS
<1>2. n # Root
  BY FinitelyMany
<1>3. d \in T \cap Folders /\ i \in Ids /\ s.attr[d][i] = n /\ n # NoNode
  BY <1>1, <1>2, PlacedSound
<1>4. Fits(s, T) /\ s \in SiteType /\ T \subseteq Nodes /\ s.attr \in [Folders -> [Ids -> Nodes \cup {NoNode}]]
  BY SoundTyped
<1>5. DelDone(s, T, d, i, n, S, t)
  BY <1>1, <1>3, <1>4, DelFits
<1>6. S = {n}
  <2>1. n \in Nodes
    BY <1>4
  <2>2. Hangs(s, n, {n})
    BY <2>1, AloneHangs
  <2> QED BY <1>1, <1>4, <2>2, BelowHangs
<1>7. Fits(t, T \ {n}) /\ Differs(s, t, d, i, NoNode)
  BY <1>5, <1>6 DEF DelDone
<1>8. NothingNew(s, t)
  BY <1>3, <1>4, <1>7 DEF Differs, NothingNew
<1>9. \A c \in Folders \ (T \ {n}), j \in Ids : t.attr[c][j] = NoNode
  BY <1>8 DEF NothingNew, Sound
<1>10. t.attr[d][i] = NoNode
  BY <1>3, <1>4, <1>7 DEF Differs
<1> QED BY <1>1, <1>7, <1>8, <1>9, <1>10 DEF Sound

\* Objects without others below them are deleted, one after the other.
LEMMA SweepIs ==
    ASSUME NEW s, NEW T, Sound(s, T), NEW E, E \subseteq T \ Folders, NEW t, SweepOf(s, E) = t
    PROVE  Sound(t, T \ E) /\ NothingNew(s, t)
<1> DEFINE n == Cardinality(E)
           q == SetToSeq(E)
           D == {x \in SiteType : \E R \in SUBSET Nodes : Sound(x, R)}
           Del(x, m) == DelObject(x, Container(x, m), IdOf(x, m), TRUE)
           G == [p \in (1 .. n) \X D |-> IF q[p[1]] \in Below(p[2], Root) THEN Del(p[2], q[p[1]]) ELSE p[2]]
           iter[u \in SUBSET DOMAIN q] == IF u = {} THEN s ELSE Del(iter[u \ {Max(u)}], q[Max(u)])
<1>1. t = iter[DOMAIN q]
  BY DEF SweepOf, FoldLeft, MapThenFoldSet
<1>2. IsFiniteSet(E)
  BY SoundTyped, FinitelyMany, FS_Subset
<1>3. /\ n \in Nat /\ q \in [1 .. n -> E] /\ DOMAIN q = 1 .. n
      /\ \A i, j \in 1 .. n : q[i] = q[j] => i = j
  BY <1>2, SeqOfSet
<1>r. \A x \in E : \E i \in 1 .. n : q[i] = x
  BY <1>2, SeqOfSet
<1>4. ASSUME NEW x, NEW R, Sound(x, R), NEW m \in R \ Folders
      PROVE  Del(x, m) \in D /\ Sound(Del(x, m), R \ {m}) /\ NothingNew(x, Del(x, m))
  <2>1. PICK y : Del(x, m) = y
    OBVIOUS
  <2>2. Sound(y, R \ {m}) /\ NothingNew(x, y)
    BY <1>4, <2>1, SweepOne
  <2>3. y \in SiteType /\ R \ {m} \in SUBSET Nodes
    BY <2>2, SoundTyped
  <2> HIDE DEF Del
  <2> QED BY <2>1, <2>2, <2>3
<1>5. ASSUME NEW k \in 1 .. n PROVE q[k] \in E
  <2> HIDE DEF q, n
  <2> QED BY <1>3
<1>6. G \in [(1 .. n) \X D -> D]
  <2>1. ASSUME NEW x \in D, NEW k \in 1 .. n, q[k] \in Below(x, Root) PROVE Del(x, q[k]) \in D
    <3>1. PICK R : Sound(x, R)
      OBVIOUS
    <3>2. q[k] \in R
      BY <2>1, <3>1, SoundTyped
    <3>3. q[k] \in R \ Folders
      BY <1>5, <3>2
    <3> HIDE DEF D, q, n, Del
    <3> QED BY <1>4, <3>1, <3>3
  <2> HIDE DEF n, q, D, Del
  <2> QED BY <2>1
<1>7. s \in D
  BY SoundTyped
<1>8. PICK f \in [SUBSET (1 .. n) -> D] : FoldsUp(f, s, G, n)
  <2> HIDE DEF n, q, D, G
  <2> QED BY <1>3, <1>6, <1>7, FoldUp
<1> DEFINE Gone(u) == {q[k] : k \in u}
           F == {u \in SUBSET (1 .. n) : Sound(f[u], T \ Gone(u)) /\ NothingNew(s, f[u])}
<1>9. {} \in F
  <2>1. f[{}] = s
    <3> HIDE DEF n, q, D, G
    <3> QED BY <1>8 DEF FoldsUp
  <2>2. Gone({}) = {}
    OBVIOUS
  <2>3. T \ Gone({}) = T
    BY <2>2
  <2>4. NothingNew(s, s)
    BY DEF NothingNew
  <2> HIDE DEF n, q, D, G, Gone
  <2> QED BY <2>1, <2>3, <2>4
<1>10. ASSUME NEW u \in SUBSET (1 .. n), u # {}, u \ {Max(u)} \in F
       PROVE  f[u] = Del(f[u \ {Max(u)}], q[Max(u)]) /\ u \in F
  <2>0. PICK k, v : k = Max(u) /\ v = u \ {Max(u)}
    OBVIOUS
  <2>1. k \in 1 .. n /\ v \in SUBSET (1 .. n) /\ v = u \ {k} /\ k \in u
    <3> HIDE DEF n
    <3> QED BY <1>3, <1>10, <2>0, MaxIs
  <2>2. f[v] \in D /\ f[u] = G[<<k, f[v]>>]
    <3> HIDE DEF n, q, G, D
    <3> QED BY <1>8, <1>10, <2>0, <2>1 DEF FoldsUp
  <2>3. PICK x, m, R : x = f[v] /\ m = q[k] /\ R = T \ Gone(v)
    OBVIOUS
  <2>4. Sound(x, R) /\ NothingNew(s, x)
    <3> HIDE DEF n, q, G, D, Gone
    <3> QED BY <1>10, <2>0, <2>3
  <2>5. m \in R \ Folders
    <3>1. m \in E
      BY <1>5, <2>1, <2>3
    <3>2. m \notin Gone(v)
      <4> HIDE DEF n, q
      <4> QED BY <1>3, <2>1, <2>3
    <3> HIDE DEF Gone
    <3> QED BY <2>3, <3>1, <3>2
  <2>6. Below(x, Root) = R
    BY <2>4, SoundTyped
  <2>7. f[u] = Del(x, m)
    <3> HIDE DEF n, q, D, Del
    <3> QED BY <2>1, <2>2, <2>3, <2>5, <2>6
  <2>8. Sound(Del(x, m), R \ {m}) /\ NothingNew(x, Del(x, m))
    <3> HIDE DEF n, q, D, Del
    <3> QED BY <1>4, <2>4, <2>5
  <2>9. R \ {m} = T \ Gone(u)
    <3> HIDE DEF n, q
    <3>1. Gone(u) = Gone(v) \cup {m}
      BY <2>1, <2>3
    <3> HIDE DEF Gone
    <3> QED BY <2>3, <3>1
  <2>10. NothingNew(s, Del(x, m))
    <3> HIDE DEF Del
    <3> QED BY <2>4, <2>8 DEF NothingNew
  <2> HIDE DEF n, q, D, G, Gone, Del
  <2> QED BY <2>0, <2>3, <2>7, <2>8, <2>9, <2>10
<1>11. \A u \in SUBSET (1 .. n) : u \in F
  <2> HIDE DEF n, F
  <2> QED BY <1>3, <1>9, <1>10, FoldInduction
<1>12. ASSUME NEW u \in SUBSET (1 .. n), u # {}
       PROVE  f[u] = Del(f[u \ {Max(u)}], q[Max(u)])
  <2>1. u \ {Max(u)} \in F
    <3> HIDE DEF F, n
    <3> QED BY <1>3, <1>11, <1>12, PeelMax
  <2> HIDE DEF F, n, q, Del
  <2> QED BY <1>10, <1>12, <2>1
<1>13. f = [u \in SUBSET DOMAIN q |-> IF u = {} THEN s ELSE Del(f[u \ {Max(u)}], q[Max(u)])]
  <2>1. f = [u \in SUBSET (1 .. n) |-> f[u]] /\ f[{}] = s
    <3> HIDE DEF n, q, G
    <3> QED BY <1>8 DEF FoldsUp
  <2> HIDE DEF n, q, F, D, G, Del
  <2> QED BY <1>3, <1>12, <2>1
<1>14. iter = [u \in SUBSET DOMAIN q |-> IF u = {} THEN s ELSE Del(iter[u \ {Max(u)}], q[Max(u)])]
  <2> HIDE DEF n, q, F, D, G
  <2> QED BY <1>13, Zenon
<1> DEFINE H == {u \in SUBSET (1 .. n) : iter[u] = f[u]}
<1> HIDE DEF iter
<1>15. {} \in H
  <2> HIDE DEF n, q, F, D, G, Del
  <2> QED BY <1>3, <1>13, <1>14
<1>16. ASSUME NEW u \in SUBSET (1 .. n), u # {}, u \ {Max(u)} \in H PROVE u \in H
  <2>0. PICK k, v : k = Max(u) /\ v = u \ {Max(u)}
    OBVIOUS
  <2>1. iter[v] = f[v]
    BY <1>16, <2>0
  <2>2. iter[u] = Del(iter[v], q[k]) /\ f[u] = Del(f[v], q[k])
    <3> HIDE DEF n, q, F, D, G, Del
    <3> QED BY <1>3, <1>13, <1>14, <1>16, <2>0
  <2> HIDE DEF n, q, F, D, G, Del
  <2> QED BY <2>1, <2>2
<1>17. \A u \in SUBSET (1 .. n) : u \in H
  <2> HIDE DEF n, H
  <2> QED BY <1>3, <1>15, <1>16, FoldInduction
<1>18. 1 .. n \in SUBSET (1 .. n)
  OBVIOUS
<1>19. iter[1 .. n] = f[1 .. n] /\ Sound(f[1 .. n], T \ Gone(1 .. n)) /\ NothingNew(s, f[1 .. n])
  <2> HIDE DEF n, q, D, G, Gone, Del
  <2> QED BY <1>11, <1>17, <1>18
<1>20. Gone(1 .. n) = E
  <2> HIDE DEF n, q
  <2> QED BY <1>r, <1>5
<1>21. PICK x : x = f[1 .. n]
  OBVIOUS
<1>22. t = x /\ Sound(x, T \ E) /\ NothingNew(s, x)
  <2>1. t = iter[1 .. n]
    <3> HIDE DEF n, q
    <3> QED BY <1>1, <1>3
  <2> HIDE DEF n, q, F, G, D, Gone, Del
  <2> QED BY <1>19, <1>20, <1>21, <2>1
<1> HIDE DEF n, q, F, G, D, Gone, Del
<1> QED BY <1>22

-----------------------------------------------------------------------------
(* WebDAV: the invariant of the locks *)

\* The tokens of each object, valid or not
Joint(ls, st) == [n \in Nodes |-> ls[n] \cup st[n]]

\* Each object has one lock at most; a LockNullResource has one, and not that of its container.
LocksOk(s, R, H) ==
    /\ \A n \in R : \A t, u \in H[n] : t = u
    /\ \A n \in R \cap LockNulls : H[n] # {}
    /\ \A c \in R \cap Folders, i \in Ids : s.attr[c][i] \in LockNulls => H[s.attr[c][i]] \cap H[c] = {}

LocksType == [Nodes -> SUBSET Tokens]

DavState(s, T, L, S) ==
    /\ Sound(s, T) /\ L \in LocksType /\ S \in LocksType
    /\ LocksOk(s, T, Joint(L, S))
    /\ \A n \in Nodes \ T : L[n] = {} /\ S[n] = {}

DavInv == \E T : DavState(Site, T, locks, stale)

\* The tree is R now, and its objects have these locks.
Ended(R, ls, st) ==
    /\ Below(Site', Root) = R
    /\ \A n \in Nodes : Held(n)' = IF n \in R THEN ls[n] \cup st[n] ELSE {}

\* Every method ends with the site it made, and with the locks of what is left.
LEMMA CommitKeeps ==
    ASSUME NEW CONSTANT s, NEW CONSTANT R, Fits(s, R),
           NEW CONSTANT ls \in LocksType, NEW CONSTANT st \in LocksType,
           LocksOk(s, R, Joint(ls, st)), Commit(s, ls, st)
    PROVE  DavInv' /\ Ended(R, ls, st)
<1>1. Site' = Left(s, R) /\ Sound(Left(s, R), R)
  BY BecomesSound DEF Commit
<1>2. Below(s, Root) = R /\ R \subseteq Nodes
  BY BelowFits, FitsTyped
<1>3. PICK L, S, x : /\ L = [n \in Nodes |-> IF n \in R THEN ls[n] ELSE {}]
                     /\ S = [n \in Nodes |-> IF n \in R THEN st[n] ELSE {}]
                     /\ x = Left(s, R)
  OBVIOUS
<1>4. locks' = L /\ stale' = S
  BY <1>2, <1>3 DEF Commit, Becomes
<1>5. L \in LocksType /\ S \in LocksType /\ \A n \in Nodes \ R : L[n] = {} /\ S[n] = {}
  BY <1>3 DEF LocksType
<1>6. \A n \in R : Joint(L, S)[n] = Joint(ls, st)[n]
  BY <1>2, <1>3 DEF Joint
<1>7. LocksOk(x, R, Joint(L, S))
  <2>1. \A c \in R \cap Folders, i \in Ids : x.attr[c][i] = s.attr[c][i]
    BY <1>3 DEF Left
  <2>2. ASSUME NEW c \in R \cap Folders, NEW i \in Ids, x.attr[c][i] \in LockNulls
        PROVE  Joint(L, S)[x.attr[c][i]] \cap Joint(L, S)[c] = {}
    <3>1. PICK k : k = x.attr[c][i] /\ k = s.attr[c][i]
      BY <2>1
    <3>2. k # NoNode
      BY <2>2, <3>1, FinitelyMany, DavAssumption
    <3>3. k \in R
      <4>1. Sound(x, R) /\ x.attr[c][i] = k
        BY <1>1, <1>3, <3>1
      <4> QED BY <3>2, <4>1, KidSound
    <3>4. Joint(ls, st)[k] \cap Joint(ls, st)[c] = {}
      BY <2>2, <3>1 DEF LocksOk
    <3> QED BY <1>6, <3>1, <3>3, <3>4
  <2>3. /\ \A n \in R : \A t, u \in Joint(L, S)[n] : t = u
        /\ \A n \in R \cap LockNulls : Joint(L, S)[n] # {}
    BY <1>6 DEF LocksOk
  <2> QED BY <2>2, <2>3 DEF LocksOk
<1>8. DavState(x, R, L, S)
  BY <1>1, <1>3, <1>5, <1>7 DEF DavState
<1>9. Site' = x /\ locks' = L /\ stale' = S
  BY <1>1, <1>3, <1>4
<1>10. DavInv'
  BY <1>8, <1>9 DEF DavInv, DavState
<1>11. Below(Site', Root) = R
  BY <1>1, SoundTyped
<1>12. ASSUME NEW n \in Nodes PROVE Held(n)' = IF n \in R THEN ls[n] \cup st[n] ELSE {}
  BY <1>3, <1>4 DEF Held
<1> QED BY <1>10, <1>11, <1>12 DEF Ended

\* Where the locks of what was in the tree are not added to, or forgotten without
\* need, there is nothing that LocksWhole could object to.
LEMMA QuietWhole ==
    ASSUME NEW CONSTANT T, Below(Site, Root) = T, T \subseteq Nodes, NEW CONSTANT R, NEW ls, NEW st, Ended(R, ls, st),
           \A n \in T : ls[n] = locks[n] /\ st[n] \subseteq stale[n]
    PROVE  LocksWhole
<1>1. ASSUME NEW n \in T PROVE Held(n)' \subseteq Held(n)
  BY <1>1 DEF Ended, Held
<1>2. ASSUME NEW n \in T, Site' = Site PROVE locks[n] \subseteq Held(n)'
  <2>1. R = T
    BY <1>2 DEF Ended
  <2> QED BY <1>2, <2>1 DEF Ended
<1> QED BY <1>1, <1>2 DEF LocksWhole

Freed(S, asked) == [n \in Nodes |-> IF n \in asked THEN {} ELSE S[n]]

\* Where no LockNullResource is added or forgets what it has, nothing is lost.
LEMMA KeepsLess ==
    ASSUME NEW s, NEW T, NEW L, NEW S, DavState(s, T, L, S), NEW t, NEW R, Fits(t, R),
           NEW k, k \notin LockNulls, R \subseteq T \cup {k}, NothingElse(s, t, k),
           NEW asked, \A x \in R \cap LockNulls \cap asked : L[x] # {}
    PROVE  Freed(S, asked) \in LocksType /\ LocksOk(t, R, Joint(L, Freed(S, asked)))
<1>1. PICK G, H : G = Joint(L, S) /\ H = Joint(L, Freed(S, asked))
  OBVIOUS
<1>2. R \subseteq Nodes /\ T \subseteq Nodes /\ NoNode \notin LockNulls
  BY SoundTyped, FitsTyped, FinitelyMany, DavAssumption DEF DavState
<1>3. Freed(S, asked) \in LocksType
  BY DEF DavState, LocksType, Freed
<1>4. \A n \in R : H[n] \subseteq G[n] /\ (n \in T \/ H[n] = {})
  BY <1>1, <1>2 DEF Joint, Freed, DavState
<1>5. \A n \in R \cap LockNulls : n \in T /\ H[n] # {}
  <2>1. ASSUME NEW n \in R \cap LockNulls PROVE n \in T /\ H[n] # {}
    <3>1. n \in T
      OBVIOUS
    <3>2. G[n] # {}
      BY <1>1, <3>1 DEF DavState, LocksOk
    <3>3. n \in Nodes /\ G[n] = L[n] \cup S[n] /\ H[n] = L[n] \cup Freed(S, asked)[n]
      BY <1>1, <1>2 DEF Joint
    <3>4. CASE n \in asked
      <4>1. L[n] # {}
        BY <3>4
      <4> QED BY <3>3, <4>1
    <3>5. CASE n \notin asked
      <4>1. Freed(S, asked)[n] = S[n]
        BY <3>3, <3>5 DEF Freed
      <4> QED BY <3>2, <3>3, <4>1
    <3>6. H[n] # {}
      BY <3>4, <3>5
    <3> QED BY <3>1, <3>6
  <2> QED BY <2>1
<1>6. ASSUME NEW c \in R \cap Folders, NEW i \in Ids, t.attr[c][i] \in LockNulls
      PROVE  H[t.attr[c][i]] \cap H[c] = {}
  <2>1. PICK x : x = t.attr[c][i]
    OBVIOUS
  <2>2. x = s.attr[c][i] /\ x # NoNode
    BY <1>2, <1>6, <2>1 DEF NothingElse
  <2>3. x \in R
    <3>1. PICK A : Rooted(t, Root, R, A)
      BY DEF Fits, Hangs
    <3>2. t.attr[c][i] = x
      BY <2>1
    <3> QED BY <2>2, <3>1, <3>2, KidIs
  <2>4. CASE c \in T
    <3>1. G[x] \cap G[c] = {}
      BY <1>1, <1>6, <2>1, <2>2, <2>4 DEF DavState, LocksOk
    <3> QED BY <1>4, <2>1, <2>3, <3>1
  <2>5. CASE c \notin T
    BY <1>4, <2>5
  <2> QED BY <2>4, <2>5
<1>7. \A n \in R : \A u, v \in H[n] : u = v
  BY <1>1, <1>4 DEF DavState, LocksOk
<1> QED BY <1>1, <1>3, <1>5, <1>6, <1>7 DEF LocksOk

\* What is known of a site and its locks
LEMMA DavKnown ==
    ASSUME NEW s, NEW T, NEW L, NEW S, DavState(s, T, L, S)
    PROVE  /\ Sound(s, T) /\ Fits(s, T) /\ T \subseteq Nodes /\ Below(s, Root) = T /\ s \in SiteType
           /\ s.attr \in [Folders -> [Ids -> Nodes \cup {NoNode}]]
           /\ L \in LocksType /\ S \in LocksType /\ S = Freed(S, {})
           /\ \A n \in T : Below(s, n) \subseteq T
           /\ NoNode \notin LockNulls /\ LockNulls \subseteq Nodes \ Folders
<1>1. Sound(s, T) /\ L \in LocksType /\ S \in LocksType
  BY DEF DavState
<1>2. Fits(s, T) /\ T \subseteq Nodes /\ Below(s, Root) = T /\ s \in SiteType
      /\ s.attr \in [Folders -> [Ids -> Nodes \cup {NoNode}]]
  BY <1>1, SoundTyped
<1>3. S = Freed(S, {})
  BY <1>1 DEF LocksType, Freed
<1>4. ASSUME NEW n \in T PROVE Below(s, n) \subseteq T
  <2>1. PICK A : Rooted(s, Root, T, A)
    BY <1>2 DEF Fits, Hangs
  <2>2. Below(s, n) = Sub(T, A, n)
    BY <1>2, <2>1, BelowSub
  <2> QED BY <2>2 DEF Sub
<1> QED BY <1>1, <1>2, <1>3, <1>4, FinitelyMany, DavAssumption

\* The methods, one by one: UNLOCK of a LockNullResource
LEMMA NullUNLOCKKeeps ==
    ASSUME DavInv, NEW n \in Nodes, NEW t \in Tokens, NullUNLOCK(n, t)
    PROVE  DavInv' /\ LocksWhole
<1>1. PICK T : DavState(Site, T, locks, stale)
  BY DEF DavInv
<1>2. PICK s, L, S : s = Site /\ L = locks /\ S = stale
  OBVIOUS
<1>3. PICK y : y = DelObject(s, Container(s, n), IdOf(s, n), TRUE)
  OBVIOUS
<1>4. DavState(s, T, L, S) /\ Commit(y, L, S)
  BY <1>1, <1>2, <1>3 DEF NullUNLOCK
<1>5. n \in T \ Folders
  <2>1. n \in T
    BY <1>1, InTreeIs DEF NullUNLOCK, DavState
  <2> QED BY <2>1, DavAssumption DEF NullUNLOCK
<1>6. Sound(y, T \ {n}) /\ NothingNew(s, y)
  BY <1>3, <1>4, <1>5, SweepOne DEF DavState
<1>7. Fits(y, T \ {n}) /\ NothingElse(s, y, NoNode)
  BY <1>6 DEF Sound, NothingNew, NothingElse
<1>8. LocksOk(y, T \ {n}, Joint(L, Freed(S, {})))
  <2>1. NoNode \notin LockNulls /\ T \ {n} \subseteq T \cup {NoNode}
    BY <1>4, DavKnown
  <2> QED BY <1>4, <1>7, <2>1, KeepsLess
<1>9. L \in LocksType /\ S \in LocksType /\ S = Freed(S, {})
  BY <1>4, DavKnown
<1>10. LocksOk(y, T \ {n}, Joint(L, S))
  BY <1>8, <1>9
<1>11. DavInv' /\ Ended(T \ {n}, L, S)
  BY <1>4, <1>7, <1>9, <1>10, CommitKeeps
<1>12. \A k \in T : L[k] = L[k] /\ S[k] \subseteq S[k]
  OBVIOUS
<1>13. Below(Site, Root) = T /\ T \subseteq Nodes
  BY <1>1, DavKnown
<1>14. LocksWhole
  BY <1>2, <1>11, <1>12, <1>13, QuietWhole
<1> QED BY <1>11, <1>14

\* DELETE takes a subtree away, with its locks.
LEMMA DELETEKeeps ==
    ASSUME DavInv, NEW n \in Nodes, DELETE(n)
    PROVE  DavInv' /\ LocksWhole
<1>1. PICK T : DavState(Site, T, locks, stale)
  BY DEF DavInv
<1>2. PICK s, L, S : s = Site /\ L = locks /\ S = stale
  OBVIOUS
<1>3. PICK c, id, U, y, st : /\ c = Container(s, n) /\ id = IdOf(s, n) /\ U = Below(s, n)
                             /\ DelObject(s, c, id, TRUE) = y /\ st = Freed(S, {n, c})
  OBVIOUS
<1>4. DavState(s, T, L, S) /\ Commit(y, L, st) /\ InTree(n) /\ n # Root /\ n \notin LockNulls
  <2>1. Commit(y, L, st)
    BY <1>2, <1>3 DEF DELETE, Purged, Freed
  <2>2. InTree(n) /\ n # Root /\ n \notin LockNulls
    BY DEF DELETE, Admitted, MayDelete
  <2> QED BY <1>1, <1>2, <2>1, <2>2
<1>5. n \in T \ {Root}
  BY <1>1, <1>4, InTreeIs DEF DavState
<1>6. c \in T \cap Folders /\ id \in Ids /\ s.attr[c][id] = n /\ n # NoNode
  BY <1>3, <1>4, <1>5, PlacedSound DEF DavState
<1>7. DelDone(s, T, c, id, n, U, y)
  BY <1>3, <1>4, <1>6, DelFits, DavKnown
<1>8. Fits(y, T \ U) /\ NothingElse(s, y, n)
  <2>1. Fits(y, T \ U) /\ Differs(s, y, c, id, NoNode)
    BY <1>7 DEF DelDone
  <2> QED BY <1>4, <1>6, <2>1, DavKnown, DiffersIs
<1>9. st \in LocksType /\ LocksOk(y, T \ U, Joint(L, st))
  <2>1. T \ U \subseteq T \cup {n} /\ {n, c} \cap LockNulls = {}
    BY <1>4, <1>6, DavKnown
  <2> QED BY <1>3, <1>4, <1>8, <2>1, KeepsLess
<1>10. L \in LocksType
  BY <1>4, DavKnown
<1>11. DavInv' /\ Ended(T \ U, L, st)
  BY <1>4, <1>8, <1>9, <1>10, CommitKeeps
<1>12. \A k \in T : L[k] = L[k] /\ st[k] \subseteq S[k]
  BY <1>3, <1>4, DavKnown DEF Freed, LocksType
<1>13. Below(Site, Root) = T /\ T \subseteq Nodes
  BY <1>1, DavKnown
<1>14. LocksWhole
  BY <1>2, <1>11, <1>12, <1>13, QuietWhole
<1> QED BY <1>11, <1>14

\* The LockNullResources without a lock that is valid go.
LEMMA SweptIs ==
    ASSUME NEW T, Sound(Site, T), NEW s, s = Site, NEW L, L = locks, NEW asked, asked \subseteq T,
           NEW y, Swept(s, asked) = y, NEW E, E = {m \in asked \cap LockNulls : L[m] = {}}
    PROVE  Fits(y, T \ E) /\ NothingElse(s, y, NoNode) /\ \A n \in T : n \notin LockNulls => n \in T \ E
<1>1. SweepOf(s, E) = y
  BY DEF Swept, SweepOf, Locked
<1>2. E \subseteq T \ Folders
  BY DavAssumption
<1>3. Sound(y, T \ E) /\ NothingNew(s, y)
  BY <1>1, <1>2, SweepIs
<1> QED BY <1>3 DEF Sound, NothingNew, NothingElse

\* A DELETE that answers 207 takes away LockNullResources without a valid lock.
LEMMA DELETERefusedKeeps ==
    ASSUME DavInv, NEW n \in Nodes, DELETERefused(n)
    PROVE  DavInv' /\ LocksWhole
<1>1. PICK T : DavState(Site, T, locks, stale)
  BY DEF DavInv
<1>2. PICK s, L, S : s = Site /\ L = locks /\ S = stale
  OBVIOUS
<1>3. PICK U, c, y, st, E : /\ U = Below(s, n) /\ c = Container(s, n) /\ Swept(s, U) = y /\ st = Freed(S, U \cup {c})
                            /\ E = {m \in U \cap LockNulls : L[m] = {}}
  OBVIOUS
<1>4. DavState(s, T, L, S) /\ Commit(y, L, st) /\ InTree(n) /\ n # Root
  <2>1. Commit(y, L, st)
    BY <1>2, <1>3 DEF DELETERefused, Purged, Freed
  <2> QED BY <1>1, <1>2, <2>1 DEF DELETERefused
<1>5. n \in T \ {Root}
  BY <1>1, <1>4, InTreeIs DEF DavState
<1>6. U \subseteq T /\ c \in Folders
  BY <1>3, <1>4, <1>5, PlacedSound, DavKnown
<1>7. Fits(y, T \ E) /\ NothingElse(s, y, NoNode)
  <2>1. Sound(Site, T) /\ Swept(s, U) = y /\ E = {m \in U \cap LockNulls : L[m] = {}} /\ U \subseteq T
    BY <1>1, <1>3, <1>6 DEF DavState
  <2> QED BY <1>2, <2>1, SweptIs
<1>8. st \in LocksType /\ LocksOk(y, T \ E, Joint(L, st))
  <2>1. T \ E \subseteq T \cup {NoNode} /\ NoNode \notin LockNulls /\ c \notin LockNulls
    BY <1>4, <1>6, DavKnown
  <2>2. \A x \in (T \ E) \cap LockNulls \cap (U \cup {c}) : L[x] # {}
    BY <1>3, <2>1
  <2> QED BY <1>3, <1>4, <1>7, <2>1, <2>2, KeepsLess
<1>9. L \in LocksType
  BY <1>4, DavKnown
<1>10. DavInv' /\ Ended(T \ E, L, st)
  BY <1>4, <1>7, <1>8, <1>9, CommitKeeps
<1>11. \A k \in T : L[k] = L[k] /\ st[k] \subseteq S[k]
  BY <1>3, <1>4, DavKnown DEF Freed, LocksType
<1>12. Below(Site, Root) = T /\ T \subseteq Nodes
  BY <1>1, DavKnown
<1>13. LocksWhole
  BY <1>2, <1>10, <1>11, <1>12, QuietWhole
<1> QED BY <1>10, <1>13

\* MOVE, into the collection itself perhaps
LEMMA MOVEKeeps ==
    ASSUME DavInv, NEW n \in Nodes, NEW c \in Folders, NEW id \in Ids, MOVE(n, c, id)
    PROVE  DavInv' /\ LocksWhole
<1>1. PICK T : DavState(Site, T, locks, stale)
  BY DEF DavInv
<1>2. PICK s, L, S : s = Site /\ L = locks /\ S = stale
  OBVIOUS
<1>3. PICK y, st : Moved(s, n, c, id, y) /\ st = Freed(S, {n, c})
  BY DEF Moved
<1>4. DavState(s, T, L, S) /\ Commit(y, L, st)
  <2>1. Commit(y, L, st)
    BY <1>2, <1>3 DEF MOVE, Moved, Purged, Freed
  <2> QED BY <1>1, <1>2, <2>1
<1>5. n \in T \ {Root} /\ c \in T \cap Folders /\ n \notin LockNulls
  <2>1. InTree(n) /\ n # Root /\ n \notin LockNulls /\ InTree(c)
    BY DEF MOVE, MayOverwrite
  <2> QED BY <1>1, <2>1, FinitelyMany, InTreeIs DEF DavState
<1>6. PICK R : R \subseteq T /\ Fits(y, R) /\ NothingElse(s, y, n)
  BY <1>3, <1>4, <1>5, MovedIs, DavKnown DEF MoveDone
<1>7. st \in LocksType /\ LocksOk(y, R, Joint(L, st))
  <2>1. R \subseteq T \cup {n} /\ {n, c} \cap LockNulls = {}
    BY <1>4, <1>5, <1>6, DavKnown
  <2> QED BY <1>3, <1>4, <1>5, <1>6, <2>1, KeepsLess
<1>8. L \in LocksType
  BY <1>4, DavKnown
<1>9. DavInv' /\ Ended(R, L, st)
  BY <1>4, <1>6, <1>7, <1>8, CommitKeeps
<1>10. \A k \in T : L[k] = L[k] /\ st[k] \subseteq S[k]
  BY <1>3, <1>4, DavKnown DEF Freed, LocksType
<1>11. Below(Site, Root) = T /\ T \subseteq Nodes
  BY <1>1, DavKnown
<1>12. LocksWhole
  BY <1>2, <1>9, <1>10, <1>11, QuietWhole
<1> QED BY <1>9, <1>12

\* A new object is put into the tree.
LEMMA CreateIs ==
    ASSUME NEW s, NEW T, Sound(s, T), NEW c \in T \cap Folders, NEW id \in Ids, s.attr[c][id] = NoNode,
           NEW n \in Nodes \ T, NEW y, SetObject(s, c, id, n, TRUE) = y
    PROVE  Fits(y, T \cup {n}) /\ NothingElse(s, y, n) /\ Differs(s, y, c, id, n)
<1>1. Fits(s, T) /\ s.attr \in [Folders -> [Ids -> Nodes \cup {NoNode}]]
  BY SoundTyped
<1>2. PICK S : S = {n} /\ Hangs(s, n, S)
  BY AloneHangs DEF Sound
<1>3. SetDone(s, T, c, id, n, S, y)
  BY <1>1, <1>2, SetFits
<1>4. Fits(y, T \cup {n}) /\ Differs(s, y, c, id, n)
  BY <1>2, <1>3 DEF SetDone
<1> QED BY <1>1, <1>4, DiffersIs

\* PUT and MKCOL
LEMMA CreateKeeps ==
    ASSUME DavInv, NEW c \in Folders, NEW id \in Ids, NEW n \in Nodes, n \notin LockNulls,
           New(c, id, n), Create(c, id, n, locks, {c})
    PROVE  DavInv' /\ LocksWhole
<1>1. PICK T : DavState(Site, T, locks, stale)
  BY DEF DavInv
<1>2. PICK s, L, S : s = Site /\ L = locks /\ S = stale
  OBVIOUS
<1>3. PICK y, st : SetObject(s, c, id, n, TRUE) = y /\ st = Freed(S, {c})
  OBVIOUS
<1>4. DavState(s, T, L, S) /\ Commit(y, L, st)
  <2>1. Commit(y, L, st)
    BY <1>2, <1>3 DEF Create, Purged, Freed
  <2> QED BY <1>1, <1>2, <2>1
<1>5. c \in T \cap Folders /\ n \in Nodes \ T /\ s.attr[c][id] = NoNode
  <2>1. InTree(c) /\ ~InTree(n) /\ attr[c][id] = NoNode
    BY DEF New
  <2>2. s.attr = attr
    BY <1>2 DEF Site
  <2> QED BY <1>1, <2>1, <2>2, FinitelyMany, InTreeIs DEF DavState
<1>6. Fits(y, T \cup {n}) /\ NothingElse(s, y, n)
  BY <1>3, <1>4, <1>5, CreateIs, DavKnown
<1>7. st \in LocksType /\ LocksOk(y, T \cup {n}, Joint(L, st))
  <2>1. {c} \cap LockNulls = {}
    BY <1>4, <1>5, DavKnown
  <2> QED BY <1>3, <1>4, <1>6, <2>1, KeepsLess
<1>8. L \in LocksType
  BY <1>4, DavKnown
<1>9. DavInv' /\ Ended(T \cup {n}, L, st)
  BY <1>4, <1>6, <1>7, <1>8, CommitKeeps
<1>10. \A k \in T : L[k] = L[k] /\ st[k] \subseteq S[k]
  BY <1>3, <1>4, DavKnown DEF Freed, LocksType
<1>11. Below(Site, Root) = T /\ T \subseteq Nodes
  BY <1>1, DavKnown
<1>12. LocksWhole
  BY <1>2, <1>9, <1>10, <1>11, QuietWhole
<1> QED BY <1>9, <1>12

\* What a folder of the tree holds is in the tree.
LEMMA KidFits ==
    ASSUME NEW s, NEW T, Fits(s, T), NEW c \in T \cap Folders, NEW i \in Ids, NEW n, s.attr[c][i] = n, n # NoNode
    PROVE  n \in T
<1>1. PICK A : Rooted(s, Root, T, A)
  BY DEF Fits, Hangs
<1> QED BY <1>1, KidIs

\* Where nothing is put anywhere, what is above an object was above it.
LEMMA AboveLess ==
    ASSUME NEW s, NEW T, NEW A, Rooted(s, Root, T, A), s.attr \in [Folders -> [Ids -> Nodes \cup {NoNode}]],
           NEW x, NEW R, NEW B, Sound(x, R), Rooted(x, Root, R, B), R \subseteq T, NothingElse(s, x, NoNode)
    PROVE  \A m \in R : B[m] \subseteq A[m]
<1> DEFINE base == {Root}
           up == [m \in R \ {Root} |-> Container(x, m)]
           F == {m \in R : B[m] \subseteq A[m]}
<1>1. PICK depth, K : LeadsUp(R, base, up, depth, K)
  BY ContainersLeadUp
<1>2. base \subseteq F
  BY DEF Rooted
<1>3. ASSUME NEW m \in R \ base, up[m] \in F PROVE m \in F
  <2>1. PICK c, i : c = Container(x, m) /\ i = IdOf(x, m)
    OBVIOUS
  <2>2. c \in R \cap Folders /\ i \in Ids /\ x.attr[c][i] = m /\ m # NoNode
    BY <2>1, PlacedSound
  <2>3. B[c] \subseteq A[c]
    BY <1>3, <2>1
  <2>4. s.attr[c][i] = m
    BY <2>2 DEF NothingElse
  <2>5. B[m] = {m} \cup B[c]
    BY <2>2, KidIs
  <2>6. A[m] = {m} \cup A[c]
    BY <2>2, <2>4, KidIs
  <2> QED BY <2>3, <2>5, <2>6
<1>4. R \subseteq F
  <2> HIDE DEF F, up, base
  <2> QED BY <1>1, <1>2, <1>3, UpInduction
<1> QED BY <1>4

\* After nothing but deletions, what is below a member of n was below n, and is there still.
LEMMA BelowLess ==
    ASSUME NEW s, NEW T, Sound(s, T), NEW x, NEW R, Sound(x, R), R \subseteq T, NothingElse(s, x, NoNode),
           NEW n \in T, NEW k \in R, k \in Below(s, n)
    PROVE  Below(x, k) \subseteq Below(s, n) \cap R
<1>1. PICK A : Rooted(s, Root, T, A)
  BY DEF Sound, Fits, Hangs
<1>2. PICK B : Rooted(x, Root, R, B)
  BY DEF Sound, Fits, Hangs
<1>3. \A m \in R : B[m] \subseteq A[m]
  BY <1>1, <1>2, AboveLess, SoundTyped
<1>4. Below(s, n) = Sub(T, A, n) /\ Below(x, k) = Sub(R, B, k)
  BY <1>1, <1>2, BelowSub, SoundTyped
<1>5. ASSUME NEW m \in Sub(R, B, k) PROVE m \in Sub(T, A, n) \cap R
  <2>1. m \in R /\ k \in A[m]
    BY <1>3, <1>5 DEF Sub
  <2>2. A[k] \subseteq A[m]
    BY <1>1, <2>1 DEF Rooted
  <2>3. n \in A[k]
    BY <1>4 DEF Sub
  <2> QED BY <2>1, <2>2, <2>3 DEF Sub
<1> QED BY <1>4, <1>5

\* LOCK: the members had no valid lock, and those of them that are LockNullResources are gone.
LEMMA LOCKKeeps ==
    ASSUME DavInv, NEW n \in Nodes, NEW t \in Tokens, LOCK(n, t)
    PROVE  DavInv' /\ LocksWhole
<1>1. PICK T : DavState(Site, T, locks, stale)
  BY DEF DavInv
<1>2. PICK s, L, S : s = Site /\ L = locks /\ S = stale
  OBVIOUS
<1>3. PICK M, y, ls, st, E :
         /\ M = (IF t \in Deep THEN Below(s, n) ELSE {n}) /\ Swept(s, M) = y
         /\ ls = [m \in Nodes |-> IF m \in M THEN L[m] \cup {t} ELSE L[m]] /\ st = Freed(S, M)
         /\ E = {m \in M \cap LockNulls : L[m] = {}}
  OBVIOUS
<1>4. DavState(s, T, L, S) /\ Commit(y, ls, st) /\ \A m \in M : L[m] = {}
  <2>1. Commit(y, ls, st)
    BY <1>2, <1>3 DEF LOCK, Purged, Freed
  <2>2. \A m \in M : locks[m] = {}
    <3>1. \A m \in (IF t \in Deep THEN Below(Site, n) ELSE {n}) : ~Locked(m)
      BY DEF LOCK
    <3>2. M = IF t \in Deep THEN Below(Site, n) ELSE {n}
      BY <1>2, <1>3
    <3> QED BY <3>1, <3>2 DEF Locked
  <2>3. \A m \in M : L[m] = {}
    BY <1>2, <2>2
  <2> QED BY <1>1, <1>2, <2>1, <2>3
<1>5. n \in T /\ \A k \in Nodes : t \notin L[k] /\ t \notin S[k]
  BY <1>1, <1>2, InTreeIs DEF LOCK, DavState, FreshTokens, Held
<1>6. M \subseteq T /\ T \subseteq Nodes
  BY <1>3, <1>4, <1>5, DavKnown
<1>7. Fits(y, T \ E) /\ NothingElse(s, y, NoNode)
  <2>1. Sound(Site, T) /\ Swept(s, M) = y /\ E = {m \in M \cap LockNulls : L[m] = {}} /\ M \subseteq T
    BY <1>1, <1>3, <1>6 DEF DavState
  <2>2. s = Site /\ L = locks
    BY <1>2
  <2> QED BY <2>1, <2>2, SweptIs
<1>8. ls \in LocksType /\ st \in LocksType
  BY <1>3, <1>4 DEF DavState, LocksType, Freed
<1>9. PICK G, H, R : G = Joint(L, S) /\ H = Joint(ls, st) /\ R = T \ E
  OBVIOUS
<1>10. /\ \A m \in R : H[m] = IF m \in M THEN {t} ELSE G[m]
       /\ \A m \in Nodes : t \notin G[m]
       /\ \A m \in R \cap LockNulls : m \notin M
  <2>1. ASSUME NEW m \in R PROVE H[m] = IF m \in M THEN {t} ELSE G[m]
    <3>1. m \in Nodes /\ H[m] = ls[m] \cup st[m] /\ G[m] = L[m] \cup S[m]
      BY <1>6, <1>9 DEF Joint
    <3>2. CASE m \in M
      BY <1>3, <1>4, <3>1, <3>2 DEF Freed
    <3>3. CASE m \notin M
      BY <1>3, <3>1, <3>3 DEF Freed
    <3> QED BY <3>2, <3>3
  <2>2. \A m \in Nodes : t \notin G[m]
    BY <1>5, <1>9 DEF Joint
  <2>3. \A m \in R \cap LockNulls : m \notin M
    BY <1>3, <1>4, <1>9
  <2> QED BY <2>1, <2>2, <2>3
<1>11. LocksOk(y, R, H)
  <2>0. LocksOk(s, T, G) /\ R \subseteq T
    BY <1>4, <1>9 DEF DavState
  <2>1. \A m \in R : \A u, v \in H[m] : u = v
    BY <1>10, <2>0 DEF LocksOk
  <2>2. \A m \in R \cap LockNulls : H[m] # {}
    BY <1>10, <2>0 DEF LocksOk
  <2>3. ASSUME NEW c \in R \cap Folders, NEW i \in Ids, y.attr[c][i] \in LockNulls
        PROVE  H[y.attr[c][i]] \cap H[c] = {}
    <3>1. PICK x : y.attr[c][i] = x
      OBVIOUS
    <3>2. x # NoNode /\ x = s.attr[c][i]
      BY <1>4, <1>7, <2>3, <3>1, DavKnown DEF NothingElse
    <3>3. x \in R
      BY <1>7, <1>9, <3>1, <3>2, KidFits
    <3>4. G[x] \cap G[c] = {}
      BY <2>0, <2>3, <3>1, <3>2 DEF LocksOk
    <3>5. H[x] = G[x] /\ t \notin G[x]
      BY <1>6, <1>10, <2>0, <2>3, <3>1, <3>3
    <3> QED BY <1>10, <3>1, <3>4, <3>5
  <2> QED BY <2>1, <2>2, <2>3 DEF LocksOk
<1>12. DavInv' /\ Ended(R, ls, st) /\ Site' = Left(y, R) /\ Sound(Left(y, R), R)
  <2>1. LocksOk(y, R, Joint(ls, st)) /\ Fits(y, R)
    BY <1>7, <1>9, <1>11
  <2> QED BY <1>4, <1>8, <2>1, CommitKeeps, BecomesSound DEF Commit
<1>13. PICK x : x = Left(y, R)
  OBVIOUS
<1>14. R \subseteq T /\ NothingElse(s, x, NoNode)
  <2>1. \A c \in Folders, i \in Ids : x.attr[c][i] \in {NoNode, y.attr[c][i]}
    BY <1>13 DEF Left
  <2> QED BY <1>7, <1>9, <2>1 DEF NothingElse
<1>15. \A k \in T : Held(k) = L[k] \cup S[k]
  BY <1>2, <1>6 DEF Held
<1>16. \A k \in T : Held(k)' = IF k \in R THEN ls[k] \cup st[k] ELSE {}
  BY <1>6, <1>12 DEF Ended
<1>17. ASSUME NEW k \in T, NEW u \in Deep, u \notin Held(k), u \in Held(k)', NEW m \in Below(Site', k)
       PROVE  u \in Held(m)'
  <2>1. k \in R /\ u \in ls[k] \cup st[k]
    BY <1>16, <1>17
  <2>2. u = t /\ k \in M
    BY <1>3, <1>6, <1>15, <1>17, <2>1 DEF Freed
  <2>3. M = Below(s, n)
    BY <1>3, <1>17, <2>2
  <2>4. Below(x, k) \subseteq Below(s, n) \cap R
    BY <1>4, <1>5, <1>12, <1>13, <1>14, <2>1, <2>2, <2>3, BelowLess DEF DavState
  <2>5. m \in M \cap R
    BY <1>12, <1>13, <1>17, <2>3, <2>4
  <2>6. t \in ls[m]
    BY <1>3, <1>6, <2>5
  <2> QED BY <1>6, <1>16, <2>2, <2>5, <2>6
<1>18. ASSUME NEW k \in T, NEW u \in Tokens, u \in locks[k], u \notin Held(k)', Site' = Site PROVE FALSE
  <2>1. R = T
    BY <1>2, <1>4, <1>12, <1>18, DavKnown DEF Ended
  <2>2. u \in ls[k]
    BY <1>2, <1>3, <1>6, <1>18
  <2> QED BY <1>16, <1>18, <2>1, <2>2
<1>19. LocksWhole
  <2>1. Below(Site, Root) = T /\ Deep \subseteq Tokens
    BY <1>1, DavKnown, DavAssumption
  <2> QED BY <1>17, <1>18, <2>1 DEF LocksWhole
<1> QED BY <1>12, <1>19

\* A LockNullResource has another lock than the collection that it is in.
LEMMA UNLOCKKeeps ==
    ASSUME DavInv, NEW n \in Nodes, NEW t \in Tokens, UNLOCK(n, t)
    PROVE  DavInv' /\ LocksWhole
<1>1. PICK T : DavState(Site, T, locks, stale)
  BY DEF DavInv
<1>2. PICK s, L, S : s = Site /\ L = locks /\ S = stale
  OBVIOUS
<1>3. PICK M, ls, st : M = Below(s, n) /\ ls = Without(L, M, t) /\ st = Without(S, M, t)
  OBVIOUS
<1>4. DavState(s, T, L, S) /\ Commit(s, ls, st) /\ n \notin LockNulls
  <2>1. Commit(s, ls, st)
    BY <1>2, <1>3 DEF UNLOCK
  <2> QED BY <1>1, <1>2, <2>1 DEF UNLOCK
<1>5. n \in T
  BY <1>1, InTreeIs DEF UNLOCK, DavState
<1>6. M \subseteq T /\ T \subseteq Nodes /\ Fits(s, T) /\ s \in SiteType
  BY <1>3, <1>4, <1>5, DavKnown
<1>7. ls \in LocksType /\ st \in LocksType
  BY <1>3, <1>4 DEF DavState, LocksType, Without
<1>8. PICK G, H : G = Joint(L, S) /\ H = Joint(ls, st)
  OBVIOUS
<1>9. \A m \in M : t \in G[m]
  BY <1>2, <1>3, <1>6, <1>8 DEF UNLOCK, Held, Joint
<1>10. \A m \in T : H[m] = IF m \in M THEN G[m] \ {t} ELSE G[m]
  BY <1>3, <1>6, <1>8 DEF Joint, Without
<1>11. M \cap LockNulls = {}
  <2> SUFFICES ASSUME NEW x \in M \cap LockNulls PROVE FALSE
    OBVIOUS
  <2>1. PICK A : Rooted(s, Root, T, A)
    BY <1>6 DEF Fits, Hangs
  <2>2. Hangs(s, n, M)
    BY <1>3, <1>5, <1>6, <2>1, BelowSub
  <2>3. PICK B : Rooted(s, n, M, B)
    BY <2>2 DEF Hangs
  <2>4. x \in M \ {n}
    BY <1>4
  <2>5. PICK c \in M \cap Folders, i \in Ids : s.attr[c][i] = x
    BY <2>3, <2>4, FolderIs
  <2>6. G[x] \cap G[c] = {}
    BY <1>4, <1>6, <1>8, <2>5 DEF DavState, LocksOk
  <2> QED BY <1>9, <2>5, <2>6
<1>12. LocksOk(s, T, H)
  <2>0. LocksOk(s, T, G)
    BY <1>4, <1>8 DEF DavState
  <2>1. \A m \in T : H[m] \subseteq G[m]
    BY <1>10
  <2>2. \A m \in T \cap LockNulls : H[m] # {}
    BY <1>10, <1>11, <2>0 DEF LocksOk
  <2>3. ASSUME NEW c \in T \cap Folders, NEW i \in Ids, s.attr[c][i] \in LockNulls
        PROVE  H[s.attr[c][i]] \cap H[c] = {}
    <3>1. PICK x : s.attr[c][i] = x
      OBVIOUS
    <3>2. x # NoNode
      BY <1>4, <2>3, <3>1, DavKnown
    <3>3. x \in T
      BY <1>6, <3>1, <3>2, KidFits
    <3>4. G[x] \cap G[c] = {}
      BY <2>0, <2>3, <3>1 DEF LocksOk
    <3> QED BY <2>1, <3>1, <3>3, <3>4
  <2>4. \A m \in T : \A u, v \in H[m] : u = v
    BY <2>0, <2>1 DEF LocksOk
  <2> QED BY <2>2, <2>3, <2>4 DEF LocksOk
<1>13. DavInv' /\ Ended(T, ls, st)
  BY <1>4, <1>6, <1>7, <1>8, <1>12, CommitKeeps
<1>14. \A k \in T : Held(k)' = ls[k] \cup st[k] /\ Held(k) = L[k] \cup S[k]
  BY <1>2, <1>6, <1>13 DEF Ended, Held
<1>15. \A k \in T : Held(k)' \subseteq Held(k)
  BY <1>3, <1>6, <1>14 DEF Without
<1>16. ASSUME NEW k \in T, NEW u, u \in locks[k], u \notin Held(k)', Site' = Site, NEW m \in Below(Site', k)
       PROVE  u \notin Held(m)'
  <2>1. k \in M /\ u = t
    BY <1>2, <1>3, <1>6, <1>14, <1>16 DEF Without
  <2>2. Sound(s, T) /\ NothingElse(s, s, NoNode) /\ m \in Below(s, k)
    BY <1>2, <1>4, <1>16 DEF DavState, NothingElse
  <2>3. m \in M \cap T
    BY <1>3, <1>5, <1>6, <2>1, <2>2, BelowLess
  <2>4. t \notin ls[m] \cup st[m]
    BY <1>3, <1>6, <2>3 DEF Without
  <2> QED BY <1>14, <2>1, <2>3, <2>4
<1>17. LocksWhole
  <2>1. Below(Site, Root) = T
    BY <1>1, DavKnown
  <2> QED BY <1>15, <1>16, <2>1 DEF LocksWhole
<1> QED BY <1>13, <1>17

\* A lock that expires is still there for whoever asks.
LEMMA ExpireKeeps ==
    ASSUME DavInv, NEW n \in Nodes, NEW t \in Tokens, Expire(n, t)
    PROVE  DavInv' /\ LocksWhole
<1>1. PICK T : DavState(Site, T, locks, stale)
  BY DEF DavInv
<1>2. PICK s, L, S, ls, st : /\ s = Site /\ L = locks /\ S = stale
                             /\ ls = [L EXCEPT ![n] = @ \ {t}] /\ st = [S EXCEPT ![n] = @ \cup {t}]
  OBVIOUS
<1>3. DavState(s, T, L, S) /\ t \in L[n] /\ Site' = s /\ locks' = ls /\ stale' = st
  BY <1>1, <1>2 DEF Expire, Site
<1>4. L \in LocksType /\ S \in LocksType
  BY <1>3 DEF DavState
<1>5. ls \in LocksType /\ st \in LocksType
  BY <1>2, <1>4 DEF LocksType
<1>6. Joint(ls, st) = Joint(L, S)
  <2>1. \A m \in Nodes : ls[m] \cup st[m] = L[m] \cup S[m]
    BY <1>2, <1>3, <1>4 DEF LocksType
  <2> QED BY <2>1 DEF Joint
<1>7. \A m \in Nodes \ T : ls[m] = {} /\ st[m] = {}
  <2>1. n \in T
    BY <1>3 DEF DavState
  <2> QED BY <1>2, <1>3, <1>4, <2>1 DEF DavState, LocksType
<1>8. DavState(s, T, ls, st)
  BY <1>3, <1>5, <1>6, <1>7 DEF DavState
<1>9. DavInv'
  BY <1>3, <1>8 DEF DavInv, DavState
<1>10. LocksWhole
  <2>1. \A m \in Nodes : ls[m] \cup st[m] = L[m] \cup S[m]
    BY <1>2, <1>3, <1>4 DEF LocksType
  <2>2. \A m \in Nodes : Held(m)' = Held(m) /\ locks[m] \subseteq Held(m)
    BY <1>2, <1>3, <2>1 DEF Held
  <2>3. Below(Site, Root) \subseteq Nodes
    BY <1>1, DavKnown
  <2> QED BY <2>2, <2>3 DEF LocksWhole
<1> QED BY <1>9, <1>10

\* A LockNullResource is put into the tree with a lock that is new.
LEMMA NullLOCKKeeps ==
    ASSUME DavInv, NEW c \in Folders, NEW id \in Ids, NEW n \in LockNulls, NEW t \in Tokens, NullLOCK(c, id, n, t)
    PROVE  DavInv' /\ LocksWhole
<1>1. PICK T : DavState(Site, T, locks, stale)
  BY DEF DavInv
<1>2. PICK s, L, S : s = Site /\ L = locks /\ S = stale
  OBVIOUS
<1>3. PICK y, ls, st : SetObject(s, c, id, n, TRUE) = y /\ ls = [L EXCEPT ![n] = {t}] /\ st = Freed(S, {c})
  OBVIOUS
<1>4. DavState(s, T, L, S) /\ Commit(y, ls, st) /\ n \in Nodes
  <2>1. Commit(y, ls, st)
    BY <1>2, <1>3 DEF NullLOCK, Create, Purged, Freed
  <2> QED BY <1>1, <1>2, <2>1, DavAssumption
<1>5. c \in T \cap Folders /\ n \in Nodes \ T /\ s.attr[c][id] = NoNode
  <2>1. InTree(c) /\ ~InTree(n) /\ attr[c][id] = NoNode
    BY DEF NullLOCK, New
  <2>2. s.attr = attr
    BY <1>2 DEF Site
  <2> QED BY <1>1, <1>4, <2>1, <2>2, FinitelyMany, InTreeIs DEF DavState
<1>6. \A k \in Nodes : t \notin L[k] /\ t \notin S[k]
  BY <1>2 DEF NullLOCK, FreshTokens, Held
<1>7. PICK R : R = T \cup {n}
  OBVIOUS
<1>8. Fits(y, R) /\ NothingElse(s, y, n) /\ R \subseteq Nodes /\ T \subseteq Nodes
      /\ NoNode \notin LockNulls /\ LockNulls \cap Folders = {}
  BY <1>3, <1>4, <1>5, <1>7, CreateIs, DavKnown
<1>9. ls \in LocksType /\ st \in LocksType
  BY <1>3, <1>4 DEF DavState, LocksType, Freed
<1>10. PICK G, H : G = Joint(L, S) /\ H = Joint(ls, st)
  OBVIOUS
<1>11. LocksOk(s, T, G)
  BY <1>4, <1>10 DEF DavState
<1>12. H[n] = {t} /\ \A k \in Nodes : t \notin G[k]
  <2>1. L \in [Nodes -> SUBSET Tokens] /\ L[n] = {} /\ S[n] = {}
    BY <1>4, <1>5 DEF DavState, LocksType
  <2>2. ls[n] = {t} /\ st[n] = {}
    BY <1>3, <1>4, <2>1 DEF Freed
  <2> QED BY <1>4, <1>6, <1>10, <2>2 DEF Joint
<1>13. \A k \in R \ {n} : k \in T /\ H[k] \subseteq G[k] /\ (k \in LockNulls => H[k] = G[k])
  <2>1. ASSUME NEW k \in R \ {n} PROVE k \in T /\ H[k] \subseteq G[k] /\ (k \in LockNulls => H[k] = G[k])
    <3>1. L \in [Nodes -> SUBSET Tokens] /\ k \in Nodes /\ k \in T
      BY <1>4, <1>7, <1>8 DEF DavState, LocksType
    <3>2. ls[k] = L[k] /\ st[k] \subseteq S[k] /\ (k \in LockNulls => st[k] = S[k])
      BY <1>3, <1>8, <3>1 DEF Freed
    <3> QED BY <1>10, <3>1, <3>2 DEF Joint
  <2> QED BY <2>1
<1>14. LocksOk(y, R, H)
  <2>1. ASSUME NEW d \in R \cap Folders, NEW i \in Ids, y.attr[d][i] \in LockNulls
        PROVE  H[y.attr[d][i]] \cap H[d] = {}
    <3>1. PICK x : y.attr[d][i] = x
      OBVIOUS
    <3>2. x # NoNode /\ d # n /\ x \in R
      BY <1>8, <2>1, <3>1, KidFits
    <3>3. CASE x = n
      BY <1>8, <1>12, <1>13, <2>1, <3>1, <3>2, <3>3
    <3>4. CASE x # n
      <4>1. s.attr[d][i] = x
        BY <1>8, <2>1, <3>1, <3>2, <3>4 DEF NothingElse
      <4>2. G[x] \cap G[d] = {}
        BY <1>11, <1>13, <2>1, <3>1, <3>2, <4>1 DEF LocksOk
      <4> QED BY <1>13, <2>1, <3>1, <3>2, <3>4, <4>2
    <3> QED BY <3>3, <3>4
  <2>2. ASSUME NEW k \in R PROVE \A u, v \in H[k] : u = v
    BY <1>11, <1>12, <1>13 DEF LocksOk
  <2>3. ASSUME NEW k \in R \cap LockNulls PROVE H[k] # {}
    BY <1>11, <1>12, <1>13 DEF LocksOk
  <2> QED BY <2>1, <2>2, <2>3 DEF LocksOk
<1>15. LocksOk(y, R, Joint(ls, st))
  BY <1>10, <1>14
<1>16. DavInv' /\ Ended(R, ls, st)
  BY <1>4, <1>8, <1>9, <1>15, CommitKeeps
<1>17. \A k \in T : ls[k] = L[k] /\ st[k] \subseteq S[k]
  BY <1>3, <1>4, <1>5, DavKnown DEF Freed, LocksType
<1>18. Below(Site, Root) = T /\ T \subseteq Nodes
  BY <1>1, DavKnown
<1>19. LocksWhole
  BY <1>2, <1>16, <1>17, <1>18, QuietWhole
<1> QED BY <1>16, <1>19

\* What takes the place of a LockNullResource takes its locks.
LEMMA FillKeeps ==
    ASSUME DavInv, NEW x \in Nodes, NEW n \in Nodes, Fill(x, n)
    PROVE  DavInv' /\ LocksWhole
<1>1. PICK T : DavState(Site, T, locks, stale)
  BY DEF DavInv
<1>2. PICK s, L, S : s = Site /\ L = locks /\ S = stale
  OBVIOUS
<1>3. PICK c, id : c = Container(s, x) /\ id = IdOf(s, x)
  OBVIOUS
<1>4. PICK z, y, ls, st : /\ z = DelObject(s, c, id, TRUE) /\ SetObject(z, c, id, n, TRUE) = y
                          /\ ls = [L EXCEPT ![n] = L[x]] /\ st = Freed(S, {x, c})
  OBVIOUS
<1>5. DavState(s, T, L, S) /\ Commit(y, ls, st)
  <2>1. Commit(y, ls, st)
    BY <1>2, <1>3, <1>4 DEF Fill, Transferred, Purged, Freed
  <2> QED BY <1>1, <1>2, <2>1
<1>6. /\ x \in T \cap LockNulls /\ x \in T \ Folders /\ n \in Nodes \ T /\ n \notin LockNulls /\ x # n
      /\ NoNode \notin LockNulls /\ LockNulls \cap Folders = {} /\ T \subseteq Nodes
  <2>1. InTree(x) /\ x \in LockNulls /\ ~InTree(n) /\ n \notin LockNulls
    BY DEF Fill
  <2>2. x \in T /\ n \notin T
    BY <1>1, <2>1, InTreeIs DEF DavState
  <2> QED BY <1>5, <2>1, <2>2, DavKnown
<1>7. c \in T \cap Folders /\ id \in Ids
  <2>1. x # Root
    BY <1>6, FinitelyMany
  <2> QED BY <1>3, <1>5, <1>6, <2>1, PlacedSound DEF DavState
<1>8. Sound(z, T \ {x}) /\ NothingNew(s, z) /\ z.attr[c][id] = NoNode
  BY <1>3, <1>4, <1>5, <1>6, SweepOne DEF DavState
<1>9. PICK R : R = (T \ {x}) \cup {n}
  OBVIOUS
<1>10. Fits(y, R) /\ NothingElse(z, y, n)
  <2>1. c \in (T \ {x}) \cap Folders /\ n \in Nodes \ (T \ {x})
    BY <1>6, <1>7
  <2> QED BY <1>4, <1>7, <1>8, <1>9, <2>1, CreateIs
<1>11. ls \in LocksType /\ st \in LocksType
  BY <1>4, <1>5 DEF DavState, LocksType, Freed
<1>12. PICK G, H : G = Joint(L, S) /\ H = Joint(ls, st)
  OBVIOUS
<1>13. LocksOk(s, T, G)
  BY <1>5, <1>12 DEF DavState
<1>14. H[n] \subseteq G[x]
  <2>1. L \in [Nodes -> SUBSET Tokens] /\ S[n] = {}
    BY <1>5, <1>6 DEF DavState, LocksType
  <2>2. ls[n] = L[x] /\ st[n] = {}
    BY <1>4, <2>1 DEF Freed
  <2> QED BY <1>12, <2>2 DEF Joint
<1>15. \A k \in R \ {n} : k \in T /\ H[k] \subseteq G[k] /\ (k \in LockNulls => H[k] = G[k])
  <2>1. ASSUME NEW k \in R \ {n} PROVE k \in T /\ H[k] \subseteq G[k] /\ (k \in LockNulls => H[k] = G[k])
    <3>1. L \in [Nodes -> SUBSET Tokens] /\ k \in Nodes /\ k \in T /\ k # x /\ (k \in LockNulls => k # c)
      BY <1>5, <1>6, <1>7, <1>9 DEF DavState, LocksType
    <3>2. ls[k] = L[k] /\ st[k] \subseteq S[k] /\ (k \in LockNulls => st[k] = S[k])
      BY <1>4, <3>1 DEF Freed
    <3> QED BY <1>12, <3>1, <3>2 DEF Joint
  <2> QED BY <2>1
<1>16. LocksOk(y, R, H)
  <2>1. ASSUME NEW d \in R \cap Folders, NEW i \in Ids, y.attr[d][i] \in LockNulls
        PROVE  H[y.attr[d][i]] \cap H[d] = {}
    <3>1. PICK k : y.attr[d][i] = k
      OBVIOUS
    <3>2. k # NoNode /\ k # n /\ k \in R
      BY <1>6, <1>10, <2>1, <3>1, KidFits
    <3>3. s.attr[d][i] = k
      <4>1. z.attr[d][i] = k
        BY <1>10, <2>1, <3>1, <3>2 DEF NothingElse
      <4> QED BY <1>8, <2>1, <3>2, <4>1 DEF NothingNew
    <3>4. d \in T
      BY <1>5, <2>1, <3>2, <3>3 DEF DavState, Sound
    <3>5. G[k] \cap G[d] = {}
      BY <1>13, <2>1, <3>1, <3>3, <3>4 DEF LocksOk
    <3>6. d # n
      BY <1>6, <3>4
    <3> QED BY <1>15, <2>1, <3>1, <3>2, <3>5, <3>6
  <2>2. ASSUME NEW k \in R PROVE \A u, v \in H[k] : u = v
    BY <1>6, <1>13, <1>14, <1>15 DEF LocksOk
  <2>3. ASSUME NEW k \in R \cap LockNulls PROVE H[k] # {}
    BY <1>6, <1>13, <1>15 DEF LocksOk
  <2> QED BY <2>1, <2>2, <2>3 DEF LocksOk
<1>17. LocksOk(y, R, Joint(ls, st))
  BY <1>12, <1>16
<1>18. DavInv' /\ Ended(R, ls, st)
  BY <1>5, <1>10, <1>11, <1>17, CommitKeeps
<1>19. \A k \in T : ls[k] = L[k] /\ st[k] \subseteq S[k]
  BY <1>4, <1>5, <1>6, DavKnown DEF Freed, LocksType
<1>20. Below(Site, Root) = T /\ T \subseteq Nodes
  BY <1>1, DavKnown
<1>21. LocksWhole
  BY <1>2, <1>18, <1>19, <1>20, QuietWhole
<1> QED BY <1>18, <1>21

\* The locks of copies: those of what is copied, but for the top
CarriedTo(m, n, f) ==
    [k \in Nodes |-> IF k = m[n] THEN {}
                     ELSE IF \E x \in DOMAIN m : m[x] = k
                     THEN f[CHOOSE x \in DOMAIN m : m[x] = k] ELSE f[k]]

Carries(U, m, n, f, g) ==
    /\ g \in LocksType /\ g[m[n]] = {}
    /\ \A x \in U \ {n} : g[m[x]] = f[x]
    /\ \A k \in Nodes \ Made(U, m) : g[k] = f[k]

\* What CarriedTo says of the copies, and of the rest
LEMMA CarriedIs ==
    ASSUME NEW s, NEW T, NEW U, NEW m, Copying(s, T, U, m), T \subseteq Nodes, NEW n \in U,
           NEW f, f \in LocksType, NEW g, CarriedTo(m, n, f) = g
    PROVE  Carries(U, m, n, f, g)
<1>1. m \in [U -> Nodes \ T] /\ DOMAIN m = U /\ U \subseteq T /\ \A x, y \in U : m[x] = m[y] => x = y
  BY DEF Copying
<1>2. g[m[n]] = {}
  BY <1>1 DEF CarriedTo
<1>3. ASSUME NEW x \in U \ {n} PROVE g[m[x]] = f[x]
  <2>1. PICK k : k = m[x]
    OBVIOUS
  <2>2. k \in Nodes /\ k # m[n] /\ \A w \in U : m[w] = k => w = x
    BY <1>1, <2>1
  <2>3. (CHOOSE w \in DOMAIN m : m[w] = k) = x
    BY <1>1, <2>1, <2>2
  <2> QED BY <1>1, <2>1, <2>2, <2>3 DEF CarriedTo
<1>4. ASSUME NEW k \in Nodes \ Made(U, m) PROVE g[k] = f[k]
  BY <1>1 DEF CarriedTo, Made
<1>5. g \in LocksType
  <2>1. ASSUME NEW k \in Nodes PROVE g[k] \in SUBSET Tokens
    <3>1. CASE k \notin Made(U, m)
      BY <1>4, <3>1 DEF LocksType
    <3>2. CASE k \in Made(U, m)
      <4>1. PICK x \in U : k = m[x]
        BY <3>2 DEF Made
      <4>2. x \in Nodes
        BY <1>1
      <4>3. f[x] \in SUBSET Tokens
        BY <4>2 DEF LocksType
      <4>4. g[k] = IF x = n THEN {} ELSE f[x]
        BY <1>2, <1>3, <4>1
      <4> QED BY <4>3, <4>4
    <3> QED BY <3>1, <3>2
  <2>2. g = [k \in Nodes |-> g[k]]
    BY DEF CarriedTo
  <2> QED BY <2>1, <2>2 DEF LocksType
<1> QED BY <1>2, <1>3, <1>4, <1>5 DEF Carries

\* A copy has the locks of what is copied, but none on top.
LEMMA COPYKeeps ==
    ASSUME DavInv, NEW n \in Nodes, NEW c \in Folders, NEW id \in Ids, NEW deep \in BOOLEAN, COPY(n, c, id, deep)
    PROVE  DavInv' /\ LocksWhole
<1>1. PICK T : DavState(Site, T, locks, stale)
  BY DEF DavInv
<1>2. PICK s, L, S : s = Site /\ L = locks /\ S = stale
  OBVIOUS
<1>3. PICK U : U = IF deep THEN Below(Site, n) ELSE {n}
  OBVIOUS
<1>4. PICK m \in Copies(U) :
         Commit(SetObject(Overwritten(WithCopies(Site, m), c, id), c, id, m[n], TRUE),
                CarriedTo(m, n, locks), CarriedTo(m, n, Purged({c})))
  BY <1>3 DEF COPY, CarriedTo
<1>5. PICK z, k, y, F, ls, st :
         /\ WithCopies(s, m) = z /\ m[n] = k /\ SetObject(z, c, id, k, TRUE) = y
         /\ F = Freed(S, {c}) /\ CarriedTo(m, n, L) = ls /\ CarriedTo(m, n, F) = st
  OBVIOUS
<1>6. DavState(s, T, L, S) /\ n \in T /\ c \in T \cap Folders /\ n \notin LockNulls
  <2>1. InTree(n) /\ InTree(c) /\ n \notin LockNulls
    BY DEF COPY, MayOverwrite
  <2> QED BY <1>1, <1>2, <2>1, FinitelyMany, InTreeIs DEF DavState
<1>7. CopyDone(s, T, U, m, n, z)
  <2>1. Sound(Site, T) /\ U \in {Below(Site, n), {n}}
    BY <1>1, <1>3 DEF DavState
  <2> QED BY <1>2, <1>5, <1>6, <2>1, CopiesAre
<1>8. PICK V : V = Made(U, m)
  OBVIOUS
<1>9. Fits(z, T) /\ Hangs(z, k, V) /\ V \cap T = {} /\ Copying(s, T, U, m) /\ CopyIs(s, U, m, z) /\ z \in SiteType
  BY <1>5, <1>7, <1>8, FitsTyped DEF CopyDone
<1>10. SetOverDone(z, T, c, id, k, V, y)
  BY <1>5, <1>6, <1>9, SetOver
<1>11. Commit(y, ls, st)
  <2>1. SetObject(Overwritten(z, c, id), c, id, k, TRUE) = y
    <3>1. SetObject(Overwritten(z, c, id), c, id, k, TRUE) = SetObject(z, c, id, k, TRUE)
      BY <1>6, <1>9, OverwrittenIs
    <3> QED BY <1>5, <3>1
  <2>2. Purged({c}) = F
    BY <1>2, <1>5 DEF Purged, Freed
  <2> QED BY <1>2, <1>4, <1>5, <2>1, <2>2
<1>12. PICK Q, R : Q \subseteq T /\ R = Q \cup V /\ Fits(y, R)
  BY <1>10 DEF SetOverDone
<1>13. NothingElse(z, y, k)
  BY <1>10 DEF SetOverDone
<1>14. T \subseteq Nodes /\ NoNode \notin LockNulls /\ LockNulls \cap Folders = {} /\ L \in LocksType
  BY <1>6, DavKnown
<1>15. n \in U /\ k \in V /\ U \subseteq T /\ m \in [U -> Nodes \ T]
  <2>1. n \in U
    <3>1. PICK A : s \in SiteType /\ Rooted(s, Root, T, A)
      BY <1>6, DavKnown DEF Fits, Hangs
    <3>2. Hangs(s, n, Below(s, n))
      BY <1>6, <3>1, BelowSub
    <3>3. n \in Below(s, n)
      BY <3>2 DEF Hangs, Rooted
    <3> QED BY <1>2, <1>3, <3>3
  <2> QED BY <1>5, <1>8, <1>9, <2>1 DEF Copying, Made
<1>16. k \notin LockNulls /\ \A x \in U : x \in LockNulls <=> m[x] \in LockNulls
  <2>1. \A x \in U : x \in LockNulls <=> m[x] \in LockNulls
    BY <1>4, DavAssumption DEF Copies
  <2> QED BY <1>5, <1>6, <1>15, <2>1
<1>17. F \in LocksType
  BY <1>5, <1>6 DEF DavState, LocksType, Freed
<1>18. /\ ls \in LocksType /\ st \in LocksType
       /\ ls[k] = {} /\ st[k] = {}
       /\ \A x \in U \ {n} : ls[m[x]] = L[x] /\ st[m[x]] = F[x]
       /\ \A q \in Nodes \ V : ls[q] = L[q] /\ st[q] = F[q]
  <2>1. Carries(U, m, n, L, ls)
    BY <1>5, <1>9, <1>14, <1>15, CarriedIs
  <2>2. Carries(U, m, n, F, st)
    BY <1>5, <1>9, <1>14, <1>15, <1>17, CarriedIs
  <2> QED BY <1>5, <1>8, <2>1, <2>2 DEF Carries
<1>19. PICK G, H : G = Joint(L, S) /\ H = Joint(ls, st)
  OBVIOUS
<1>20. LocksOk(s, T, G)
  BY <1>6, <1>19 DEF DavState
<1>21. \A q \in Nodes : L[q] \cup F[q] \subseteq G[q] /\ (q \in LockNulls => L[q] \cup F[q] = G[q])
  <2>1. ASSUME NEW q \in Nodes PROVE F[q] \subseteq S[q] /\ (q \in LockNulls => F[q] = S[q])
    BY <1>5, <1>6, <1>14 DEF Freed
  <2> QED BY <1>19, <2>1 DEF Joint
<1>22. \A q \in Q : q \in Nodes /\ q \notin V /\ H[q] \subseteq G[q] /\ (q \in LockNulls => H[q] = G[q])
  BY <1>9, <1>12, <1>14, <1>18, <1>19, <1>21 DEF Joint
<1>23. \A x \in U : H[m[x]] \subseteq G[x] /\ (x \in LockNulls => H[m[x]] = G[x])
  <2>1. ASSUME NEW x \in U PROVE H[m[x]] \subseteq G[x] /\ (x \in LockNulls => H[m[x]] = G[x])
    <3>1. x \in Nodes /\ m[x] \in Nodes
      BY <1>14, <1>15
    <3>2. CASE x = n
      <4>1. H[k] = {}
        BY <1>5, <1>18, <1>19, <3>1, <3>2 DEF Joint
      <4> QED BY <1>5, <1>6, <3>2, <4>1
    <3>3. CASE x # n
      <4>1. H[m[x]] = L[x] \cup F[x]
        BY <1>18, <1>19, <3>1, <3>3 DEF Joint
      <4> QED BY <1>21, <3>1, <4>1
    <3> QED BY <3>2, <3>3
  <2> QED BY <2>1
<1>24. LocksOk(y, R, H)
  <2>1. ASSUME NEW d \in R \cap Folders, NEW i \in Ids, y.attr[d][i] \in LockNulls
        PROVE  H[y.attr[d][i]] \cap H[d] = {}
    <3>1. PICK q : y.attr[d][i] = q
      OBVIOUS
    <3>2. q # NoNode /\ q # k /\ q \in R
      BY <1>12, <1>14, <1>16, <2>1, <3>1, KidFits
    <3>3. z.attr[d][i] = q
      BY <1>13, <2>1, <3>1, <3>2 DEF NothingElse
    <3>4. CASE d \in V
      <4>1. PICK x \in U : d = m[x]
        BY <1>8, <3>4 DEF Made
      <4>2. x \in U \cap Folders
        BY <1>9, <2>1, <4>1 DEF Copying
      <4>3. PICK w : w = s.attr[x][i]
        OBVIOUS
      <4>4. w \in U /\ q = m[w]
        BY <1>9, <2>1, <3>2, <3>3, <4>1, <4>2, <4>3 DEF CopyIs
      <4>5. w \in LockNulls
        BY <1>16, <2>1, <3>1, <4>4
      <4>6. G[w] \cap G[x] = {}
        BY <1>15, <1>20, <2>1, <4>2, <4>3, <4>5 DEF LocksOk
      <4> QED BY <1>23, <3>1, <4>1, <4>4, <4>6
    <3>5. CASE d \notin V
      <4>1. d \in Q /\ z.attr[d] = s.attr[d]
        BY <1>8, <1>9, <1>12, <2>1, <3>5 DEF CopyIs
      <4>2. s.attr[d][i] = q
        BY <3>3, <4>1
      <4>3. q \in T
        BY <1>6, <2>1, <3>2, <4>2, KidSound DEF DavState
      <4>4. q \in Q
        BY <1>9, <1>12, <3>2, <4>3
      <4>5. G[q] \cap G[d] = {}
        BY <1>12, <1>20, <2>1, <3>1, <4>1, <4>2 DEF LocksOk
      <4> QED BY <1>22, <3>1, <4>1, <4>4, <4>5
    <3> QED BY <3>4, <3>5
  <2>2. ASSUME NEW q \in R PROVE (\A u, v \in H[q] : u = v) /\ (q \in LockNulls => H[q] # {})
    <3>1. CASE q \in Q
      BY <1>12, <1>20, <1>22, <3>1 DEF LocksOk
    <3>2. CASE q \notin Q
      <4>1. PICK x \in U : q = m[x]
        BY <1>8, <1>12, <3>2 DEF Made
      <4>2. x \in T /\ (x \in LockNulls <=> q \in LockNulls)
        BY <1>15, <1>16, <4>1
      <4> QED BY <1>20, <1>23, <4>1, <4>2 DEF LocksOk
    <3> QED BY <3>1, <3>2
  <2> QED BY <2>1, <2>2 DEF LocksOk
<1>25. LocksOk(y, R, Joint(ls, st))
  BY <1>19, <1>24
<1>26. DavInv' /\ Ended(R, ls, st)
  BY <1>11, <1>12, <1>18, <1>25, CommitKeeps
<1>27. \A x \in T : ls[x] = L[x] /\ st[x] \subseteq S[x]
  BY <1>5, <1>9, <1>14, <1>18 DEF Freed
<1>28. Below(Site, Root) = T /\ T \subseteq Nodes
  BY <1>1, DavKnown
<1>29. LocksWhole
  BY <1>2, <1>26, <1>27, <1>28, QuietWhole
<1> QED BY <1>26, <1>29

-----------------------------------------------------------------------------
(* WebDAV: the invariant *)

\* At first there is the root, without a lock.
LEMMA DavInvInit == ASSUME DInit PROVE DavInv
<1>1. TreeInv /\ attr = [c \in Folders |-> [i \in Ids |-> NoNode]]
  BY TreeInvInit DEF DInit, TInit
<1>2. PICK T : Sound(Site, T)
  BY <1>1 DEF TreeInv
<1>3. PICK s, L, S : s = Site /\ L = locks /\ S = stale
  OBVIOUS
<1>4. L = [n \in Nodes |-> {}] /\ S = [n \in Nodes |-> {}]
  BY <1>3 DEF DInit, TInit
<1>5. L \in LocksType /\ S \in LocksType /\ \A n \in Nodes : Joint(L, S)[n] = {}
  BY <1>4 DEF LocksType, Joint
<1>6. T = {Root}
  <2>1. \A c \in Folders, i \in Ids : s.attr[c][i] = NoNode
    BY <1>1, <1>3 DEF Site
  <2>2. ASSUME NEW n \in T \ {Root} PROVE FALSE
    BY <1>2, <1>3, <2>1, <2>2, PlacedSound
  <2>3. Root \in T
    BY <1>2, SoundTyped
  <2> QED BY <2>2, <2>3
<1>7. Root \in Nodes /\ Root \notin LockNulls /\ NoNode \notin LockNulls
  BY FinitelyMany, DavAssumption
<1>8. LocksOk(s, T, Joint(L, S))
  <2>1. \A c \in Folders, i \in Ids : s.attr[c][i] = NoNode
    BY <1>1, <1>3 DEF Site
  <2> QED BY <1>5, <1>6, <1>7, <2>1 DEF LocksOk
<1>9. DavState(s, T, L, S)
  BY <1>2, <1>3, <1>4, <1>5, <1>8 DEF DavState
<1> QED BY <1>3, <1>9 DEF DavInv

\* Each method keeps the invariant.
LEMMA DavInvNext == ASSUME DavInv, [DNext]_dvars PROVE DavInv' /\ LocksWhole
<1>1. ASSUME NEW n \in Nodes, NEW t \in Tokens, Opens(n, t) PROVE DavInv' /\ LocksWhole
  BY <1>1, LOCKKeeps, UNLOCKKeeps, NullUNLOCKKeeps, ExpireKeeps DEF Opens
<1>2. ASSUME NEW c \in Folders, NEW id \in Ids, NEW n \in Nodes, NullPUT(c, id, n) PROVE DavInv' /\ LocksWhole
  <2>1. n \notin LockNulls /\ New(c, id, n) /\ Create(c, id, n, locks, {c})
    BY <1>2 DEF NullPUT
  <2> QED BY <2>1, CreateKeeps
<1>3. ASSUME NEW c \in Folders, NEW id \in Ids, NEW n \in Nodes, NullMKCOL(c, id, n) PROVE DavInv' /\ LocksWhole
  <2>1. n \in Folders /\ New(c, id, n) /\ Create(c, id, n, locks, {c})
    BY <1>3 DEF NullMKCOL
  <2>2. n \notin LockNulls
    BY <2>1, DavAssumption
  <2> QED BY <2>1, <2>2, CreateKeeps
<1>4. ASSUME NEW c \in Folders, NEW id \in Ids, NEW n \in LockNulls, NEW t \in Tokens, NullLOCK(c, id, n, t)
      PROVE  DavInv' /\ LocksWhole
  BY <1>4, NullLOCKKeeps
<1>5. ASSUME NEW x \in Nodes, NEW n \in Nodes, Fill(x, n) PROVE DavInv' /\ LocksWhole
  BY <1>5, FillKeeps
<1>6. ASSUME NEW n \in Nodes, DELETE(n) PROVE DavInv' /\ LocksWhole
  BY <1>6, DELETEKeeps
<1>7. ASSUME NEW n \in Nodes, DELETERefused(n) PROVE DavInv' /\ LocksWhole
  BY <1>7, DELETERefusedKeeps
<1>8. ASSUME NEW n \in Nodes, NEW c \in Folders, NEW id \in Ids, NEW deep \in BOOLEAN, COPY(n, c, id, deep)
      PROVE  DavInv' /\ LocksWhole
  BY <1>8, COPYKeeps
<1>9. ASSUME NEW n \in Nodes, NEW c \in Folders, NEW id \in Ids, MOVE(n, c, id) PROVE DavInv' /\ LocksWhole
  BY <1>9, MOVEKeeps
<1>10. CASE UNCHANGED dvars
  <2>1. PICK T : DavState(Site, T, locks, stale)
    BY DEF DavInv
  <2>2. PICK s, L, S : s = Site /\ L = locks /\ S = stale
    OBVIOUS
  <2>3. DavState(s, T, L, S) /\ Site' = s /\ locks' = L /\ stale' = S
    BY <1>10, <2>1, <2>2 DEF dvars, Site
  <2>4. \A n \in Nodes : Held(n)' = Held(n) /\ locks[n] \subseteq Held(n)
    BY <1>10 DEF dvars, Held
  <2>5. LocksWhole
    BY <2>1, <2>4, DavKnown DEF LocksWhole
  <2> QED BY <2>3, <2>5 DEF DavInv, DavState
<1> QED BY <1>1, <1>2, <1>3, <1>4, <1>5, <1>6, <1>7, <1>8, <1>9, <1>10 DEF DNext

\* The invariant is what LocksFit says, and why.
LEMMA DavFits == ASSUME DavInv PROVE LocksFit
<1>1. PICK T : DavState(Site, T, locks, stale)
  BY DEF DavInv
<1>2. PICK s, L, S, G : s = Site /\ L = locks /\ S = stale /\ G = Joint(L, S)
  OBVIOUS
<1>3. DavState(s, T, L, S) /\ LocksOk(s, T, G)
  BY <1>1, <1>2 DEF DavState
<1>5. \A n \in Nodes : Held(n) = G[n]
  BY <1>2 DEF Held, Joint
<1>6. ASSUME NEW n \in Nodes PROVE Cardinality(Held(n)) <= 1
  <2>1. \A t, u \in Held(n) : t = u
    <3>1. CASE n \in T
      BY <1>3, <1>5, <3>1 DEF LocksOk
    <3>2. CASE n \notin T
      BY <1>2, <1>3, <3>2 DEF DavState, Held
    <3> QED BY <3>1, <3>2
  <2>2. CASE Held(n) = {}
    BY <2>2, FS_EmptySet
  <2>3. CASE Held(n) # {}
    <3>1. PICK t : Held(n) = {t}
      BY <2>1, <2>3
    <3>2. Cardinality({t}) = 1
      BY FS_Singleton
    <3> QED BY <3>1, <3>2
  <2> QED BY <2>2, <2>3
<1>7. ASSUME NEW n \in LockNulls, InTree(n) PROVE Held(n) # {}
  <2>1. n \in Nodes
    BY DavAssumption
  <2>2. n \in T
    BY <1>1, <1>7, <2>1, InTreeIs DEF DavState
  <2> QED BY <1>3, <1>5, <2>1, <2>2 DEF LocksOk
<1> QED BY <1>6, <1>7 DEF LocksFit

\* The invariant holds whatever clients do.
LEMMA DavIsInvariant == DSpec => []DavInv
<1>1. DInit => DavInv
  BY DavInvInit
<1>2. DavInv /\ [DNext]_dvars => DavInv'
  BY DavInvNext
<1> QED BY <1>1, <1>2, PTL DEF DSpec

\* The methods of WebDAV, PUT, MKCOL, COPY, MOVE, DELETE and the sweep of an expired lock-null
\* resource with the rest, keep the tree and its catalog as exact as the manage_ methods do
\* (webdav/Resource.py, Collection.py, NullResource.py, davcmds.py).
THEOREM DavStaysExact == DSpec => []IndexIsExact
<1>1. ASSUME DavInv PROVE IndexIsExact
  <2>1. PICK T : DavState(Site, T, locks, stale)
    BY <1>1 DEF DavInv
  <2>2. TreeInv
    BY <2>1 DEF DavState, TreeInv
  <2> QED BY <2>2, SoundExact
<1> QED BY <1>1, DavIsInvariant, PTL

\* Whatever WebDAV clients lock, unlock, create, delete, copy and move, in whatever order, and
\* whenever locks expire: no object has two locks, and a LockNullResource never loses its
\* last one and stays (webdav/Resource.py, Collection.py, NullResource.py, Lockable.py,
\* davcmds.py).
THEOREM LocksAlwaysFit == DSpec => []LocksFit
<1>1. DavInv => LocksFit
  BY DavFits
<1> QED BY <1>1, DavIsInvariant, PTL

\* A lock with Depth: infinity is granted on the whole of a collection or not at all, and is
\* taken back from the whole of it, whatever else is locked, expires or goes away meanwhile
\* (webdav/davcmds.py, Lock.apply and Unlock.apply).
THEOREM DeepStaysWhole == DSpec => DeepIsWhole
<1>1. DavInv /\ [DNext]_dvars => LocksWhole
  BY DavInvNext
<1>2. DSpec => [][DNext]_dvars
  BY DEF DSpec
<1> QED BY <1>1, <1>2, DavIsInvariant, PTL DEF DeepIsWhole

-----------------------------------------------------------------------------
(* Lists that keep some elements only *)

\* Nothing is kept of no elements.
LEMMA OnlyEmpty == ASSUME NEW K PROVE Only(<<>>, K) = <<>>
<1>1. PICK q : q = <<>>
  OBVIOUS
<1>2. q \in Seq({}) /\ Len(q) = 0
  BY <1>1
<1>3. PICK f \in [0 .. Len(q) -> Seq({})] : Parts(f, q, K) /\ Only(q, K) = f[Len(q)]
  BY <1>2, OnlyParts
<1> QED BY <1>1, <1>2, <1>3 DEF Parts

\* An element at the end is kept, or not.
LEMMA OnlyAppend ==
    ASSUME NEW S, NEW q \in Seq(S), NEW x \in S, NEW K
    PROVE  Only(Append(q, x), K) = IF x \in K THEN Append(Only(q, K), x) ELSE Only(q, K)
<1>1. PICK n, r : n = Len(q) /\ r = Append(q, x)
  OBVIOUS
<1>2. n \in Nat /\ r \in Seq(S) /\ Len(r) = n + 1 /\ r[n + 1] = x /\ \A j \in 1 .. n : r[j] = q[j]
  BY <1>1, AppendProperties
<1>3. PICK f \in [0 .. n -> Seq(S)] : Parts(f, q, K) /\ Only(q, K) = f[n]
  <2>1. \E f \in [0 .. Len(q) -> Seq(S)] : Parts(f, q, K) /\ Only(q, K) = f[Len(q)]
    BY OnlyParts
  <2> QED BY <1>1, <2>1
<1>4. PICK g \in [0 .. n + 1 -> Seq(S)] : Parts(g, r, K) /\ Only(r, K) = g[n + 1]
  <2>1. \E h \in [0 .. Len(r) -> Seq(S)] : Parts(h, r, K) /\ Only(r, K) = h[Len(r)]
    BY <1>2, OnlyParts
  <2> QED BY <1>2, <2>1
<1> DEFINE N == {k \in Nat : k <= n => g[k] = f[k]}
<1>5. 0 \in N
  BY <1>3, <1>4 DEF Parts
<1>6. ASSUME NEW k \in Nat, k \in N PROVE k + 1 \in N
  <2> SUFFICES ASSUME k + 1 <= n PROVE g[k + 1] = f[k + 1]
    OBVIOUS
  <2>1. g[k] = f[k] /\ k + 1 \in 1 .. n /\ k + 1 \in 1 .. n + 1 /\ (k + 1) - 1 = k
    BY <1>2, <1>6
  <2>2. f[k + 1] = IF q[k + 1] \in K THEN Append(f[k], q[k + 1]) ELSE f[k]
    BY <1>1, <1>3, <2>1 DEF Parts
  <2>3. g[k + 1] = IF r[k + 1] \in K THEN Append(g[k], r[k + 1]) ELSE g[k]
    BY <1>2, <1>4, <2>1 DEF Parts
  <2> QED BY <1>2, <2>1, <2>2, <2>3
<1>7. Nat \subseteq N
  <2> HIDE DEF N
  <2> QED BY <1>5, <1>6, NatSetInduction
<1>8. g[n] = f[n]
  BY <1>2, <1>7
<1>9. g[n + 1] = IF x \in K THEN Append(g[n], x) ELSE g[n]
  <2>1. n + 1 \in 1 .. n + 1 /\ (n + 1) - 1 = n
    BY <1>2
  <2> QED BY <1>2, <1>4, <2>1 DEF Parts
<1> QED BY <1>1, <1>3, <1>4, <1>8, <1>9

\* A list of what is kept is kept whole.
LEMMA OnlyAll ==
    ASSUME NEW S, NEW q \in Seq(S), NEW K, S \subseteq K
    PROVE  Only(q, K) = q
<1> DEFINE F == {p \in Seq(S) : Only(p, K) = p}
<1>1. <<>> \in F
  BY OnlyEmpty
<1>2. ASSUME NEW p \in Seq(S), NEW x \in S, p \in F PROVE Append(p, x) \in F
  <2>1. Append(p, x) \in Seq(S) /\ Only(Append(p, x), K) = Append(Only(p, K), x)
    BY OnlyAppend
  <2> QED BY <1>2, <2>1
<1>3. Seq(S) \subseteq F
  <2> HIDE DEF F
  <2> QED BY <1>1, <1>2, ListInduction
<1> QED BY <1>3

\* A list of what is not kept is not kept at all.
LEMMA OnlyNone ==
    ASSUME NEW S, NEW q \in Seq(S), NEW K, S \cap K = {}
    PROVE  Only(q, K) = <<>>
<1> DEFINE F == {p \in Seq(S) : Only(p, K) = <<>>}
<1>1. <<>> \in F
  BY OnlyEmpty
<1>2. ASSUME NEW p \in Seq(S), NEW x \in S, p \in F PROVE Append(p, x) \in F
  <2>1. Append(p, x) \in Seq(S) /\ Only(Append(p, x), K) = Only(p, K)
    BY OnlyAppend
  <2> QED BY <1>2, <2>1
<1>3. Seq(S) \subseteq F
  <2> HIDE DEF F
  <2> QED BY <1>1, <1>2, ListInduction
<1> QED BY <1>3

\* What is kept twice is what is kept the second time.
LEMMA OnlyOnly ==
    ASSUME NEW S, NEW q \in Seq(S), NEW J, NEW K, K \cap S \subseteq J
    PROVE  Only(Only(q, J), K) = Only(q, K)
<1> DEFINE F == {p \in Seq(S) : Only(Only(p, J), K) = Only(p, K)}
<1>1. <<>> \in F
  BY OnlyEmpty
<1>2. ASSUME NEW p \in Seq(S), NEW x \in S, p \in F PROVE Append(p, x) \in F
  <2>1. Append(p, x) \in Seq(S) /\ Only(p, J) \in Seq(S)
    BY OnlyIs
  <2>2. PICK r : r = Only(p, J)
    OBVIOUS
  <2>3. Only(Append(p, x), J) = IF x \in J THEN Append(r, x) ELSE r
    BY <2>2, OnlyAppend
  <2>4. Only(Append(p, x), K) = IF x \in K THEN Append(Only(p, K), x) ELSE Only(p, K)
    BY OnlyAppend
  <2>5. Only(Append(r, x), K) = IF x \in K THEN Append(Only(r, K), x) ELSE Only(r, K)
    BY <2>1, <2>2, OnlyAppend
  <2>6. Only(r, K) = Only(p, K)
    BY <1>2, <2>2
  <2> QED BY <2>1, <2>3, <2>4, <2>5, <2>6
<1>3. Seq(S) \subseteq F
  <2> HIDE DEF F
  <2> QED BY <1>1, <1>2, ListInduction
<1> QED BY <1>3

\* What is kept of two lists in a row is what is kept of each.
LEMMA OnlyConcat ==
    ASSUME NEW S, NEW q \in Seq(S), NEW r \in Seq(S), NEW K
    PROVE  Only(q \o r, K) = Only(q, K) \o Only(r, K)
<1> DEFINE F == {p \in Seq(S) : Only(q \o p, K) = Only(q, K) \o Only(p, K)}
<1>0. Only(q, K) \in Seq(S)
  BY OnlyIs
<1>1. <<>> \in F
  BY <1>0, OnlyEmpty, ConcatEmptySeq
<1>2. ASSUME NEW p \in Seq(S), NEW x \in S, p \in F PROVE Append(p, x) \in F
  <2>1. Append(p, x) \in Seq(S) /\ q \o p \in Seq(S) /\ Only(p, K) \in Seq(S)
    BY OnlyIs
  <2>2. q \o Append(p, x) = Append(q \o p, x)
    OBVIOUS
  <2>3. Only(Append(q \o p, x), K) = IF x \in K THEN Append(Only(q \o p, K), x) ELSE Only(q \o p, K)
    BY <2>1, OnlyAppend
  <2>4. Only(Append(p, x), K) = IF x \in K THEN Append(Only(p, K), x) ELSE Only(p, K)
    BY OnlyAppend
  <2>5. Only(q \o p, K) = Only(q, K) \o Only(p, K)
    BY <1>2
  <2>6. Only(q, K) \o Append(Only(p, K), x) = Append(Only(q, K) \o Only(p, K), x)
    BY <1>0, <2>1
  <2> QED BY <2>1, <2>2, <2>3, <2>4, <2>5, <2>6
<1>3. Seq(S) \subseteq F
  <2> HIDE DEF F
  <2> QED BY <1>1, <1>2, ListInduction
<1> QED BY <1>3

\* The objects of a list of ids
HeldBy(q, a) == [k \in DOMAIN q |-> a[q[k]]]
HeldIf(a, S, V, B, K) == a \in [S -> V] /\ \A i \in S : a[i] \in B <=> i \in K

\* What is kept of objects by what they are is what is kept of them by their ids.
LEMMA OnlyHeld ==
    ASSUME NEW S, NEW V, NEW a, NEW q \in Seq(S), NEW K, NEW B, HeldIf(a, S, V, B, K)
    PROVE  Only(HeldBy(q, a), B) = HeldBy(Only(q, K), a)
<1>0. a \in [S -> V]
  BY DEF HeldIf
<1> DEFINE F == {p \in Seq(S) : Only(HeldBy(p, a), B) = HeldBy(Only(p, K), a)}
<1>1. <<>> \in F
  <2>1. HeldBy(<<>>, a) = <<>>
    BY DEF HeldBy
  <2> QED BY <2>1, OnlyEmpty
<1>h. ASSUME NEW p \in Seq(S), NEW x \in S
      PROVE  HeldBy(p, a) \in Seq(V) /\ HeldBy(Append(p, x), a) = Append(HeldBy(p, a), a[x])
  <2>1. PICK n, r, h, g : n = Len(p) /\ r = Append(p, x) /\ h = HeldBy(p, a) /\ g = HeldBy(r, a)
    OBVIOUS
  <2>2. /\ n \in Nat /\ r \in Seq(S) /\ Len(r) = n + 1 /\ r[n + 1] = x
        /\ DOMAIN p = 1 .. n /\ DOMAIN r = 1 .. n + 1
        /\ \A j \in 1 .. n : r[j] = p[j] /\ p[j] \in S
    BY <2>1, AppendProperties
  <2>3. h = [k \in 1 .. n |-> a[p[k]]] /\ g = [k \in 1 .. n + 1 |-> a[r[k]]]
    BY <2>1, <2>2 DEF HeldBy
  <2>4. h \in [1 .. n -> V] /\ g \in [1 .. n + 1 -> V]
    <3>1. \A j \in 1 .. n + 1 : r[j] \in S
      BY <2>2
    <3> QED BY <1>0, <2>2, <2>3, <3>1
  <2>5. h \in Seq(V) /\ Len(h) = n /\ g \in Seq(V) /\ Len(g) = n + 1 /\ a[x] \in V
    <3>1. h \in Seq(V) /\ Len(h) = n
      BY <2>2, <2>4
    <3>2. PICK m \in Nat : m = n + 1
      BY <2>2
    <3>3. g \in [1 .. m -> V]
      BY <2>4, <3>2
    <3>4. g \in Seq(V) /\ Len(g) = m
      BY <3>2, <3>3
    <3> QED BY <1>0, <3>1, <3>2, <3>4
  <2>6. /\ Append(h, a[x]) \in Seq(V) /\ Len(Append(h, a[x])) = n + 1
        /\ \A j \in 1 .. n : Append(h, a[x])[j] = h[j]
        /\ Append(h, a[x])[n + 1] = a[x]
    BY <2>5, AppendProperties
  <2>7. \A j \in 1 .. n + 1 : g[j] = Append(h, a[x])[j]
    BY <2>2, <2>3, <2>6
  <2> QED BY <2>1, <2>5, <2>6, <2>7, SeqEqual
<1>2. ASSUME NEW p \in Seq(S), NEW x \in S, p \in F PROVE Append(p, x) \in F
  <2>1. Append(p, x) \in Seq(S) /\ Only(p, K) \in Seq(S) /\ a[x] \in V
    BY <1>0, OnlyIs
  <2>2. PICK h, r : h = HeldBy(p, a) /\ r = Only(p, K)
    OBVIOUS
  <2>3. h \in Seq(V) /\ HeldBy(Append(p, x), a) = Append(h, a[x])
    BY <1>h, <2>2
  <2>4. Only(Append(h, a[x]), B) = IF a[x] \in B THEN Append(Only(h, B), a[x]) ELSE Only(h, B)
    <3>1. PICK v \in V : v = a[x]
      BY <2>1
    <3>2. Only(Append(h, v), B) = IF v \in B THEN Append(Only(h, B), v) ELSE Only(h, B)
      BY <2>3, OnlyAppend
    <3> QED BY <3>1, <3>2
  <2>5. Only(Append(p, x), K) = IF x \in K THEN Append(r, x) ELSE r
    BY <2>2, OnlyAppend
  <2>6. HeldBy(Append(r, x), a) = Append(HeldBy(r, a), a[x])
    BY <1>h, <2>1, <2>2
  <2>7. Only(h, B) = HeldBy(r, a)
    BY <1>2, <2>2
  <2>8. a[x] \in B <=> x \in K
    BY DEF HeldIf
  <2> QED BY <2>1, <2>3, <2>4, <2>5, <2>6, <2>7, <2>8
<1>3. Seq(S) \subseteq F
  <2> HIDE DEF F
  <2> QED BY <1>1, <1>2, ListInduction
<1> QED BY <1>3

\* One element is kept, or not.
LEMMA OnlyOne ==
    ASSUME NEW S, NEW x \in S, NEW K
    PROVE  Only(<<x>>, K) = IF x \in K THEN <<x>> ELSE <<>>
<1>1. PICK e : e = <<>>
  OBVIOUS
<1>2. e \in Seq(S) /\ <<x>> = Append(e, x)
  BY <1>1
<1>3. Only(Append(e, x), K) = IF x \in K THEN Append(Only(e, K), x) ELSE Only(e, K)
  BY <1>2, OnlyAppend
<1> QED BY <1>1, <1>2, <1>3, OnlyEmpty

\* An element that is not kept may as well not be there.
LEMMA OnlyAround ==
    ASSUME NEW S, NEW l \in Seq(S), NEW r \in Seq(S), NEW x \in S, NEW K, x \notin K
    PROVE  Only((l \o <<x>>) \o r, K) = Only(l \o r, K)
<1>1. PICK e, m : e = <<x>> /\ m = l \o e
  OBVIOUS
<1>2. e \in Seq(S)
  BY <1>1
<1>3. m \in Seq(S)
  BY <1>1, <1>2, ConcatProperties
<1>4. Only(m, K) = Only(l, K) \o Only(e, K)
  <2>1. Only(l \o e, K) = Only(l, K) \o Only(e, K)
    BY <1>2, OnlyConcat
  <2> QED BY <1>1, <2>1
<1>5. Only(e, K) = <<>>
  BY <1>1, OnlyOne
<1>6. Only(l, K) \in Seq(S)
  BY OnlyIs
<1>7. Only(m, K) = Only(l, K)
  BY <1>4, <1>5, <1>6, ConcatEmptySeq
<1>8. Only(m \o r, K) = Only(m, K) \o Only(r, K)
  BY <1>3, OnlyConcat
<1>9. Only(l \o r, K) = Only(l, K) \o Only(r, K)
  BY OnlyConcat
<1> QED BY <1>1, <1>7, <1>8, <1>9

\* To remove what is not kept changes nothing in what is.
LEMMA OnlyRemoved ==
    ASSUME NEW S, NEW q \in Seq(S), NEW n \in Nat, Len(q) = n, NEW k \in 1 .. n, NEW K, q[k] \notin K
    PROVE  Only(RemoveAt(q, k), K) = Only(q, K) /\ RemoveAt(q, k) \in Seq(S)
<1>1. PICK x : x = q[k]
  OBVIOUS
<1>2. PICK l, r : Around(S, q, n, k, l, r)
  BY AroundIs
<1>5. l \in Seq(S) /\ r \in Seq(S) /\ q = (l \o <<x>>) \o r /\ RemoveAt(q, k) = l \o r /\ x \in S
  BY <1>1, <1>2 DEF Around
<1>3. Only((l \o <<x>>) \o r, K) = Only(l \o r, K)
  BY <1>1, <1>5, OnlyAround
<1>4. l \o r \in Seq(S)
  BY <1>5, ConcatProperties
<1> QED BY <1>3, <1>4, <1>5

\* To insert what is not kept changes nothing in what is.
LEMMA OnlyInserted ==
    ASSUME NEW S, NEW q \in Seq(S), NEW n \in Nat, Len(q) = n, NEW k \in 1 .. n + 1, NEW x \in S, NEW K, x \notin K
    PROVE  Only(InsertAt(q, k, x), K) = Only(q, K)
<1>1. PICK l, r : l = SubSeq(q, 1, k - 1) /\ r = SubSeq(q, k, n)
  OBVIOUS
<1>0. \A j \in 1 .. n : q[j] \in S
  OBVIOUS
<1>2. l \in Seq(S) /\ Len(l) = k - 1 /\ \A j \in 1 .. k - 1 : l[j] = q[j]
  BY <1>0, <1>1, SubSeqProperties
<1>3. r \in Seq(S) /\ Len(r) = n - k + 1 /\ \A j \in 1 .. n - k + 1 : r[j] = q[k + j - 1]
  BY <1>0, <1>1, SubSeqProperties
<1>4. InsertAt(q, k, x) = (l \o <<x>>) \o r
  BY <1>1, <1>2, <1>3 DEF InsertAt
<1>5. q = l \o r
  <2>1. PICK y : y = l \o r
    OBVIOUS
  <2>2. y \in Seq(S) /\ Len(y) = n /\ \A j \in 1 .. n : y[j] = IF j <= k - 1 THEN l[j] ELSE r[j - (k - 1)]
    <3>1. /\ l \o r \in Seq(S) /\ Len(l \o r) = Len(l) + Len(r)
          /\ \A i \in 1 .. Len(l) + Len(r) : (l \o r)[i] = IF i <= Len(l) THEN l[i] ELSE r[i - Len(l)]
      BY <1>2, <1>3, ConcatProperties
    <3> QED BY <1>2, <1>3, <2>1, <3>1
  <2>3. ASSUME NEW j \in 1 .. n PROVE y[j] = q[j]
    <3>1. CASE j <= k - 1
      BY <1>2, <2>2, <3>1
    <3>2. CASE j > k - 1
      <4>1. PICK i : i = j - (k - 1)
        OBVIOUS
      <4>2. i \in 1 .. n - k + 1 /\ k + i - 1 = j
        BY <3>2, <4>1
      <4>3. y[j] = r[i]
        BY <2>2, <3>2, <4>1
      <4> QED BY <1>3, <4>2, <4>3
    <3> QED BY <3>1, <3>2
  <2> QED BY <2>1, <2>2, <2>3, SeqEqual
<1>6. Only((l \o <<x>>) \o r, K) = Only(l \o r, K)
  BY <1>2, <1>3, OnlyAround
<1> QED BY <1>4, <1>5, <1>6

\* What is kept of a reversed list is what is kept of the list, reversed.
LEMMA OnlyReversed ==
    ASSUME NEW S, NEW q \in Seq(S), NEW K
    PROVE  Only(Reverse(q), K) = Reverse(Only(q, K))
<1> DEFINE F == {p \in Seq(S) : Only(Reverse(p), K) = Reverse(Only(p, K))}
<1>0. Reverse(<<>>) = <<>>
  BY DEF Reverse
<1>1. <<>> \in F
  BY <1>0, OnlyEmpty
<1>2. ASSUME NEW p \in Seq(S), NEW x \in S, p \in F PROVE Append(p, x) \in F
  <2>1. Append(p, x) \in Seq(S) /\ Only(p, K) \in Seq(S)
    BY OnlyIs
  <2>2. PICK e, r, o : e = <<x>> /\ r = Reverse(p) /\ o = Only(p, K)
    OBVIOUS
  <2>3. e \in Seq(S)
    BY <2>2
  <2>4. r \in Seq(S)
    <3>1. Len(p) \in Nat
      OBVIOUS
    <3> QED BY <2>2, <3>1, ReverseEach
  <2>5. Reverse(Append(p, x)) = e \o r
    BY <2>2, ReverseAppend
  <2>6. Only(e \o r, K) = Only(e, K) \o Only(r, K)
    BY <2>3, <2>4, OnlyConcat
  <2>7. Only(e, K) = IF x \in K THEN e ELSE <<>>
    BY <2>2, OnlyOne
  <2>8. Only(r, K) = Reverse(o) /\ Only(r, K) \in Seq(S)
    BY <1>2, <2>2, <2>4, OnlyIs
  <2>9. Only(Append(p, x), K) = IF x \in K THEN Append(o, x) ELSE o
    BY <2>2, OnlyAppend
  <2>10. Reverse(Append(o, x)) = e \o Reverse(o)
    BY <2>1, <2>2, ReverseAppend
  <2>11. <<>> \o Only(r, K) = Only(r, K)
    BY <2>8, ConcatEmptySeq
  <2> QED BY <2>1, <2>5, <2>6, <2>7, <2>8, <2>9, <2>10, <2>11
<1>3. Seq(S) \subseteq F
  <2> HIDE DEF F
  <2> QED BY <1>1, <1>2, ListInduction
<1> QED BY <1>3

-----------------------------------------------------------------------------
(* One id is moved *)

\* From where it is, delta places up
MovedFrom(x, L, id, delta, y) ==
    \E old, new \in 1 .. L :
        /\ x[old] = id /\ new = (IF old - delta > 1 THEN old - delta ELSE 1)
        /\ y = InsertAt(RemoveAt(x, old), new, id)

\* To move one object by a delta removes it and inserts it (OrderSupport.py,
\* moveObjectsByDelta).
LEMMA MovesOne ==
    ASSUME NEW seq, NEW id, NEW delta
    PROVE  MovesOf(seq, <<id>>, delta) = MoveOne([seq |-> seq, min |-> 1], id, delta).seq
<1> DEFINE ids == <<id>>
           s0 == [seq |-> seq, min |-> 1]
           s1 == MoveOne(s0, id, delta)
           f == [u \in SUBSET DOMAIN ids |-> IF u = {} THEN s0 ELSE s1]
           iter[u \in SUBSET DOMAIN ids] ==
             IF u = {} THEN s0 ELSE MoveOne(iter[u \ {Max(u)}], ids[Max(u)], delta)
<1>1. MovesOf(seq, ids, delta) = iter[DOMAIN ids].seq
  BY DEF MovesOf, FoldLeft, MapThenFoldSet
<1>2. DOMAIN ids = {1} /\ ids[1] = id
  OBVIOUS
<1>3. Max({1}) = 1
  <2>1. {1} \in SUBSET (1 .. 1)
    OBVIOUS
  <2> QED BY <2>1, MaxIs
<1>4. ASSUME NEW u \in SUBSET DOMAIN ids, u # {}
      PROVE  f[u] = MoveOne(f[u \ {Max(u)}], ids[Max(u)], delta)
  <2>1. u = {1} /\ Max(u) = 1
    BY <1>2, <1>3, <1>4
  <2>2. u \ {Max(u)} = {} /\ ids[Max(u)] = id
    BY <1>2, <2>1
  <2>3. f[u] = s1 /\ f[{}] = s0
    BY <1>4
  <2> HIDE DEF ids, f, s0
  <2> QED BY <2>2, <2>3
<1>5. f = [u \in SUBSET DOMAIN ids |-> IF u = {} THEN s0 ELSE MoveOne(f[u \ {Max(u)}], ids[Max(u)], delta)]
  <2>1. f = [u \in SUBSET DOMAIN ids |-> f[u]] /\ f[{}] = s0
    OBVIOUS
  <2> HIDE DEF f, ids, s0
  <2> QED BY <1>4, <2>1
<1>6. iter = [u \in SUBSET DOMAIN ids |-> IF u = {} THEN s0 ELSE MoveOne(iter[u \ {Max(u)}], ids[Max(u)], delta)]
  <2> HIDE DEF f, ids, s0
  <2> QED BY <1>5, Zenon
<1> HIDE DEF iter
<1>7. iter[{}] = s0
  <2>1. {} \in SUBSET DOMAIN ids
    OBVIOUS
  <2> HIDE DEF f, ids, s0
  <2> QED BY <1>6, <2>1
<1>8. iter[{1}] = MoveOne(iter[{1} \ {Max({1})}], ids[Max({1})], delta)
  <2>1. {1} \in SUBSET DOMAIN ids /\ {1} # {}
    BY <1>2
  <2> HIDE DEF f, ids, s0
  <2> QED BY <1>6, <2>1
<1>9. iter[DOMAIN ids] = s1
  <2>1. {1} \ {Max({1})} = {} /\ ids[Max({1})] = id
    BY <1>2, <1>3
  <2> HIDE DEF f, ids, s0
  <2> QED BY <1>2, <1>7, <1>8, <2>1
<1> QED BY <1>1, <1>9

\* To move a list of one object by a delta is to move that object.
LEMMA MoveOnce ==
    ASSUME NEW S, NEW x \in Seq(S), NEW L \in Nat, Len(x) = L, NEW id \in ToSet(x), NEW delta \in Nat,
           NEW y, MovesOf(x, <<id>>, delta) = y
    PROVE  MovedFrom(x, L, id, delta, y)
<1>1. PICK old : old = CHOOSE k \in DOMAIN x : x[k] = id
  OBVIOUS
<1>2. PICK new : new = IF old - delta > 1 THEN old - delta ELSE 1
  OBVIOUS
<1>3. DOMAIN x = 1 .. L /\ \E k \in DOMAIN x : x[k] = id
  BY DEF ToSet
<1>4. old \in 1 .. L /\ x[old] = id
  BY <1>1, <1>3
<1>5. new \in 1 .. L
  BY <1>2, <1>4
<1>6. PICK at : at = [seq |-> x, min |-> 1]
  OBVIOUS
<1>7. at.seq = x /\ at.min = 1
  BY <1>6
<1>8. MoveOne(at, id, delta) = [seq |-> InsertAt(RemoveAt(x, old), new, id),
                                min |-> IF new = at.min THEN at.min + 1 ELSE at.min]
  BY <1>1, <1>2, <1>7 DEF MoveOne
<1>9. y = InsertAt(RemoveAt(x, old), new, id)
  <2>1. y = MoveOne(at, id, delta).seq
    BY <1>6, MovesOne
  <2> QED BY <1>8, <2>1
<1> QED BY <1>2, <1>4, <1>5, <1>9 DEF MovedFrom

\* The others keep their order when one object is moved up.
LEMMA OnlyMovedUp ==
    ASSUME NEW S, NEW x \in Seq(S), NEW id \in ToSet(x), NEW delta \in Nat, NEW K, id \notin K,
           NEW y, MovesOf(x, <<id>>, delta) = y
    PROVE  y \in Seq(S) /\ Only(y, K) = Only(x, K)
<1>1. PICK L : L = Len(x)
  OBVIOUS
<1>2. L \in Nat
  BY <1>1
<1>3. PICK old \in 1 .. L, new \in 1 .. L : x[old] = id /\ y = InsertAt(RemoveAt(x, old), new, id)
  <2>1. MovedFrom(x, L, id, delta, y)
    BY <1>1, <1>2, MoveOnce
  <2> QED BY <2>1 DEF MovedFrom
<1>4. PICK r : r = RemoveAt(x, old)
  OBVIOUS
<1>5. r \in Seq(S) /\ Len(r) = L - 1
  <2>1. Removed(S, x, L, old, r)
    BY <1>1, <1>2, <1>4, RemoveAtEach
  <2> QED BY <2>1 DEF Removed
<1>6. Only(r, K) = Only(x, K)
  BY <1>1, <1>2, <1>3, <1>4, OnlyRemoved
<1>7. PICK n \in Nat : n = L - 1 /\ Len(r) = n /\ new \in 1 .. n + 1 /\ id \in S
  BY <1>1, <1>2, <1>3, <1>5
<1>8. y = InsertAt(r, new, id)
  BY <1>3, <1>4
<1>9. Inserted(S, r, n, new, id, y)
  <2>1. Inserted(S, r, n, new, id, InsertAt(r, new, id))
    BY <1>5, <1>7, InsertAtEach
  <2> QED BY <1>8, <2>1
<1>10. Only(y, K) = Only(r, K)
  BY <1>5, <1>7, <1>8, OnlyInserted
<1> QED BY <1>6, <1>9, <1>10 DEF Inserted

\* The others keep their order when one object is moved up or down.
LEMMA OnlyMovedBy ==
    ASSUME NEW S, NEW x \in Seq(S), NEW id \in ToSet(x), NEW down, NEW delta \in Nat,
           NEW K, id \notin K, NEW t, NEW ids, ids = <<id>>, MovedByDelta(x, ids, down, delta) = t
    PROVE  Only(t, K) = Only(x, K)
<1> DEFINE Turned(s) == IF down THEN Reverse(s) ELSE s
<1>1. PICK z, y : z = Turned(x) /\ y = MovesOf(z, ids, delta)
  OBVIOUS
<1>2. Turned(ids) = ids
  BY ReverseOne
<1>3. t = Turned(y)
  <2>1. t = Turned(MovesOf(Turned(x), Turned(ids), delta))
    BY DEF MovedByDelta, MovesOf, MoveOne
  <2> QED BY <1>1, <1>2, <2>1
<1>4. z \in Seq(S) /\ id \in ToSet(z)
  BY <1>1, ReverseTypes
<1>5. y \in Seq(S) /\ Only(y, K) = Only(z, K)
  <2>1. MovesOf(z, <<id>>, delta) = y
    BY <1>1
  <2> QED BY <1>4, <2>1, OnlyMovedUp
<1>6. CASE ~down
  BY <1>1, <1>3, <1>5, <1>6
<1>7. CASE down
  <2>1. z = Reverse(x) /\ t = Reverse(y)
    BY <1>1, <1>3, <1>7
  <2>2. Only(t, K) = Reverse(Only(y, K))
    BY <1>5, <2>1, OnlyReversed
  <2>3. Only(z, K) = Reverse(Only(x, K))
    BY <2>1, OnlyReversed
  <2>4. Only(x, K) \in Seq(S)
    BY OnlyIs
  <2>5. Reverse(Reverse(Only(x, K))) = Only(x, K)
    BY <2>4, ReverseTwice
  <2> QED BY <1>5, <2>2, <2>3, <2>5
<1> QED BY <1>6, <1>7

\* moveObjectToPosition is moveObjectsByDelta by how far it is.
LEMMA PositionIs ==
    ASSUME NEW seq, NEW id, NEW position, NEW now, now = CHOOSE k \in DOMAIN seq : seq[k] = id
    PROVE  ToPosition(seq, id, position) =
             IF position > now THEN MovedByDelta(seq, <<id>>, TRUE, position - now)
             ELSE MovedByDelta(seq, <<id>>, FALSE, now - position)
<1>1. ToPosition(seq, id, position) =
        LET k == CHOOSE x \in DOMAIN seq : seq[x] = id
        IN  IF position > k THEN MovedByDelta(seq, <<id>>, TRUE, position - k)
            ELSE MovedByDelta(seq, <<id>>, FALSE, k - position)
  BY DEF ToPosition
<1> QED BY <1>1, Zenon

\* The others keep their order when one object is moved to a position.
LEMMA OnlyMoved ==
    ASSUME NEW S, NEW x \in Seq(S), NEW id \in ToSet(x), NEW position \in Nat, NEW K, id \notin K,
           NEW t, ToPosition(x, id, position) = t
    PROVE  Only(t, K) = Only(x, K)
<1>1. PICK now : now = CHOOSE k \in DOMAIN x : x[k] = id
  OBVIOUS
<1>2. DOMAIN x \subseteq Nat /\ \E k \in DOMAIN x : x[k] = id
  BY DEF ToSet
<1>3. now \in Nat
  BY <1>1, <1>2
<1>4. t = IF position > now THEN MovedByDelta(x, <<id>>, TRUE, position - now)
          ELSE MovedByDelta(x, <<id>>, FALSE, now - position)
  BY <1>1, PositionIs
<1>5. CASE position > now
  <2>1. PICK k, ids : k = position - now /\ ids = <<id>>
    OBVIOUS
  <2>3. PICK down : down = TRUE
    OBVIOUS
  <2>4. MovedByDelta(x, ids, TRUE, k) = t /\ k \in Nat
    BY <1>3, <1>4, <1>5, <2>1
  <2>5. MovedByDelta(x, ids, down, k) = t
    BY <2>3, <2>4
  <2> QED BY <2>1, <2>4, <2>5, OnlyMovedBy
<1>6. CASE ~(position > now)
  <2>1. PICK k, ids : k = now - position /\ ids = <<id>>
    OBVIOUS
  <2>3. PICK down : down = FALSE
    OBVIOUS
  <2>4. MovedByDelta(x, ids, FALSE, k) = t /\ k \in Nat
    BY <1>3, <1>4, <1>6, <2>1
  <2>5. MovedByDelta(x, ids, down, k) = t
    BY <2>3, <2>4
  <2> QED BY <2>1, <2>4, <2>5, OnlyMovedBy
<1> QED BY <1>5, <1>6

\* An object put at the end after one at a position was taken out, and then moved to that
\* position, is where the other one was, and so is everything else (OrderSupport.py,
\* manage_renameObject).
LEMMA ToItsPlace ==
    ASSUME NEW S, NEW X, NEW L \in Nat, NEW q, ListsEach(q, S, X, L), NEW p \in 1 .. L, NEW new \in S \ X,
           NEW r, r = Append(Only(q, S \ {q[p]}), new), NEW t, ToPosition(r, new, p) = t
    PROVE  Swapped(S, q, L, p, new, t)
<1>1. PICK id, n, o : id = q[p] /\ n = L - 1 /\ o = RemoveAt(q, p)
  OBVIOUS
<1>2. q \in Seq(S) /\ Len(q) = L /\ ToSet(q) = X /\ n \in Nat /\ L = n + 1
  BY <1>1 DEF ListsEach
<1>3. ListsEach(o, S, X \ {id}, n)
  BY <1>1, RemoveAtIs
<1>4. Removed(S, q, L, p, o)
  BY <1>1, <1>2, RemoveAtEach
<1>5. o \in Seq(S) /\ Len(o) = n /\ (\A j \in 1 .. n : o[j] = IF j < p THEN q[j] ELSE q[j + 1]) /\ ToSet(o) = X \ {id}
  BY <1>1, <1>3, <1>4 DEF ListsEach, Removed
<1>6. \A j \in 1 .. n : o[j] \in S \ {id} /\ o[j] # new
  <2>1. DOMAIN o = 1 .. n /\ \A j \in 1 .. n : o[j] \in S
    BY <1>5
  <2>2. \A j \in 1 .. n : o[j] \in ToSet(o)
    BY <2>1 DEF ToSet
  <2> QED BY <1>5, <2>1, <2>2
<1>7. Only(q, S \ {id}) = o
  <2>1. o \in Seq(S \ {id})
    BY <1>5, <1>6
  <2>2. PICK K : K = S \ {id}
    OBVIOUS
  <2>3. Only(o, K) = o
    BY <2>1, <2>2, OnlyAll
  <2>4. id \notin K
    BY <2>2
  <2>5. Only(RemoveAt(q, p), K) = Only(q, K)
    BY <1>1, <1>2, <2>4, OnlyRemoved
  <2> QED BY <1>1, <2>2, <2>3, <2>5
<1>8. r = Append(o, new)
  BY <1>1, <1>7
<1>9. r \in Seq(S) /\ Len(r) = L /\ r[L] = new /\ \A j \in 1 .. n : r[j] = o[j]
  <2>1. /\ Append(o, new) \in Seq(S) /\ Len(Append(o, new)) = Len(o) + 1
        /\ (\A i \in 1 .. Len(o) : Append(o, new)[i] = o[i]) /\ Append(o, new)[Len(o) + 1] = new
    <3>1. o \in Seq(S) /\ new \in S
      BY <1>5
    <3> QED BY <3>1, AppendProperties
  <2> QED BY <1>2, <1>5, <1>8, <2>1
<1>10. DOMAIN r = 1 .. L /\ \A k \in 1 .. L : r[k] = new => k = L
  <2>1. DOMAIN r = 1 .. L
    BY <1>9
  <2>2. ASSUME NEW k \in 1 .. L, k # L PROVE r[k] # new
    <3>1. k \in 1 .. n
      BY <1>2, <2>2
    <3> QED BY <1>6, <1>9, <3>1
  <2> QED BY <2>1, <2>2
<1>11. L = CHOOSE k \in DOMAIN r : r[k] = new
  BY <1>9, <1>10
<1>12. PICK delta : delta = L - p
  OBVIOUS
<1>13. delta \in Nat
  BY <1>12
<1>14. MovedByDelta(r, <<new>>, FALSE, delta) = t
  <2>1. ToPosition(r, new, p) = IF p > L THEN MovedByDelta(r, <<new>>, TRUE, p - L)
                                ELSE MovedByDelta(r, <<new>>, FALSE, L - p)
    BY <1>11, PositionIs
  <2>2. ~(p > L)
    OBVIOUS
  <2> QED BY <1>12, <2>1, <2>2
<1>15. MovesOf(r, <<new>>, delta) = t
  BY <1>14 DEF MovedByDelta, MovesOf, MoveOne
<1>16. new \in ToSet(r)
  BY <1>9, <1>10 DEF ToSet
<1>17. MovedFrom(r, L, new, delta, t)
  BY <1>9, <1>13, <1>15, <1>16, MoveOnce
<1>18. t = InsertAt(RemoveAt(r, L), p, new)
  <2>1. PICK old \in 1 .. L, at \in 1 .. L : /\ r[old] = new /\ at = (IF old - delta > 1 THEN old - delta ELSE 1)
                                             /\ t = InsertAt(RemoveAt(r, old), at, new)
    BY <1>17 DEF MovedFrom
  <2>2. old = L
    BY <1>10, <2>1
  <2>3. L - delta = p
    BY <1>12
  <2>4. at = p
    BY <2>1, <2>2, <2>3
  <2> QED BY <2>1, <2>2, <2>4
<1>19. RemoveAt(r, L) = o
  <2>1. PICK b : b = RemoveAt(r, L)
    OBVIOUS
  <2>2. L \in 1 .. L
    OBVIOUS
  <2>3. Removed(S, r, L, L, b)
    BY <1>9, <2>1, <2>2, RemoveAtEach
  <2>4. b \in Seq(S) /\ Len(b) = n /\ \A j \in 1 .. n : b[j] = r[j]
    <3>1. /\ b \in Seq(S) /\ Len(b) = L - 1
          /\ \A j \in 1 .. L - 1 : b[j] = IF j < L THEN r[j] ELSE r[j + 1]
      BY <2>3 DEF Removed
    <3>2. L - 1 = n /\ \A j \in 1 .. n : j < L
      BY <1>1, <1>2
    <3> QED BY <3>1, <3>2
  <2>5. \A j \in 1 .. n : b[j] = o[j]
    BY <1>9, <2>4
  <2>6. b = o
    BY <1>5, <2>4, <2>5, SeqEqual
  <2> QED BY <2>1, <2>6
<1>20. Inserted(S, o, n, p, new, t)
  <2>1. p \in 1 .. n + 1 /\ new \in S /\ t = InsertAt(o, p, new)
    BY <1>2, <1>18, <1>19
  <2>2. Inserted(S, o, n, p, new, InsertAt(o, p, new))
    BY <1>2, <1>5, <2>1, InsertAtEach
  <2> QED BY <2>1, <2>2
<1>b. \A j \in 1 .. L : t[j] = IF j < p THEN o[j] ELSE IF j = p THEN new ELSE o[j - 1]
  BY <1>2, <1>20 DEF Inserted
<1>21. ASSUME NEW j \in 1 .. L PROVE t[j] = IF j = p THEN new ELSE q[j]
  <2>0. CASE j = p
    BY <1>b, <2>0
  <2>1. CASE j < p
    <3>1. j \in 1 .. n
      BY <1>2, <2>1
    <3> QED BY <1>5, <1>b, <2>1, <3>1
  <2>2. CASE j > p
    <3>1. PICK k : k = j - 1
      OBVIOUS
    <3>2. k \in 1 .. n /\ ~(k < p) /\ k + 1 = j
      BY <1>2, <2>2, <3>1
    <3>3. t[j] = o[k]
      BY <1>b, <2>2, <3>1
    <3> QED BY <1>5, <2>2, <3>2, <3>3
  <2> QED BY <2>0, <2>1, <2>2
<1> QED BY <1>2, <1>20, <1>21 DEF Inserted, Swapped

-----------------------------------------------------------------------------
(* What else is in a folder *)

\* A folder gets another list and, at one id, another object.
Put(s, c, id, v, l, t) == t = [s EXCEPT !.list[c] = l, !.attr[c][id] = v]
PutBy(s, c, id, v, l, t) ==
    t \in SiteType /\ t.list = [s.list EXCEPT ![c] = l] /\ t.attr = [s.attr EXCEPT ![c][id] = v]

SameList(l, q, id) == \A K \in SUBSET (Ids \ {id}) : Only(l, K) = Only(q, K)

\* Of the folders D, t has what s has, in its order, but for the ids M of c.
SameBut(s, t, D, c, M) ==
    /\ \A d \in D \ {c} : t.list[d] = s.list[d] /\ t.attr[d] = s.attr[d]
    /\ \A i \in Ids \ M : t.attr[c][i] = s.attr[c][i]
    /\ \A K \in SUBSET (Ids \ M) : Only(t.list[c], K) = Only(s.list[c], K)

\* One change after another
LEMMA SameButStep ==
    ASSUME NEW s, NEW t, NEW u, NEW D, NEW c, NEW M, NEW N, SameBut(s, t, D, c, M), SameBut(t, u, D, c, N)
    PROVE  SameBut(s, u, D, c, M \cup N)
<1>1. \A d \in D \ {c} : u.list[d] = s.list[d] /\ u.attr[d] = s.attr[d]
  BY DEF SameBut
<1>2. \A i \in Ids \ (M \cup N) : u.attr[c][i] = s.attr[c][i]
  BY DEF SameBut
<1>3. ASSUME NEW K \in SUBSET (Ids \ (M \cup N)) PROVE Only(u.list[c], K) = Only(s.list[c], K)
  <2>1. K \in SUBSET (Ids \ M) /\ K \in SUBSET (Ids \ N)
    OBVIOUS
  <2>2. Only(u.list[c], K) = Only(t.list[c], K)
    BY <2>1 DEF SameBut
  <2>3. Only(t.list[c], K) = Only(s.list[c], K)
    BY <2>1 DEF SameBut
  <2> QED BY <2>2, <2>3
<1> QED BY <1>1, <1>2, <1>3 DEF SameBut

\* The catalog is no part of what a folder has.
LEMMA SameButSame ==
    ASSUME NEW s, NEW t, NEW u, NEW D, NEW c, NEW M, SameBut(s, t, D, c, M), u.list = t.list, u.attr = t.attr
    PROVE  SameBut(s, u, D, c, M)
  BY DEF SameBut

\* A list that keeps the others in order, and one attribute, change no more than that.
LEMMA SameButPoint ==
    ASSUME NEW s \in SiteType, NEW c \in Folders, NEW id \in Ids, NEW v \in Nodes \cup {NoNode},
           NEW l \in Seq(Ids), SameList(l, s.list[c], id),
           NEW t, PutBy(s, c, id, v, l, t)
    PROVE  SameBut(s, t, Folders, c, {id}) /\ t.attr[c][id] = v
<1>0. t.list = [s.list EXCEPT ![c] = l] /\ t.attr = [s.attr EXCEPT ![c][id] = v]
  BY DEF PutBy
<1>1. s.attr \in [Folders -> [Ids -> Nodes \cup {NoNode}]] /\ s.list \in [Folders -> Seq(Ids)]
  BY SiteTyped
<1>2. PICK f, g, V : f = s.attr /\ g = t.attr /\ V = Nodes \cup {NoNode}
  OBVIOUS
<1>3. /\ \A d \in Folders, i \in Ids : g[d][i] = IF d = c /\ i = id THEN v ELSE f[d][i]
      /\ \A d \in Folders : d # c => g[d] = f[d]
  <2>1. f \in [Folders -> [Ids -> V]] /\ g = [f EXCEPT ![c][id] = v] /\ v \in V
    BY <1>0, <1>1, <1>2
  <2> QED BY <2>1, PointIs
<1>4. t.list[c] = l /\ \A d \in Folders \ {c} : t.list[d] = s.list[d]
  BY <1>0, <1>1
<1>5. \A d \in Folders \ {c} : t.list[d] = s.list[d] /\ t.attr[d] = s.attr[d]
  BY <1>2, <1>3, <1>4
<1>6. t.attr[c][id] = v /\ \A i \in Ids \ {id} : t.attr[c][i] = s.attr[c][i]
  BY <1>2, <1>3
<1>7. \A K \in SUBSET (Ids \ {id}) : Only(t.list[c], K) = Only(s.list[c], K)
  BY <1>4 DEF SameList
<1> QED BY <1>5, <1>6, <1>7 DEF SameBut

\* What a changed folder is, part by part
LEMMA SiteChanged ==
    ASSUME NEW s \in SiteType, NEW c \in Folders, NEW id \in Ids, NEW v \in Nodes \cup {NoNode},
           NEW l \in Seq(Ids), NEW t, Put(s, c, id, v, l, t)
    PROVE  PutBy(s, c, id, v, l, t)
<1>t. /\ s.attr \in [Folders -> [Ids -> Nodes \cup {NoNode}]]
      /\ s.list \in [Folders -> Seq(Ids)]
      /\ s.index \in SUBSET (Seq(Ids) \X Nodes)
      /\ s = [list |-> s.list, attr |-> s.attr, index |-> s.index]
  BY SiteTyped
<1>1. t = [list |-> [s.list EXCEPT ![c] = l], attr |-> [s.attr EXCEPT ![c][id] = v], index |-> s.index]
  BY <1>t DEF Put
<1>2. t.list = [s.list EXCEPT ![c] = l] /\ t.attr = [s.attr EXCEPT ![c][id] = v] /\ t.index = s.index
  BY <1>1
<1>3. t.list \in [Folders -> Seq(Ids)]
  BY <1>t, <1>2
<1>4. t.attr \in [Folders -> [Ids -> Nodes \cup {NoNode}]]
  <2>1. PICK f, g, V : f = s.attr /\ g = t.attr /\ V = Nodes \cup {NoNode}
    OBVIOUS
  <2>2. f \in [Folders -> [Ids -> V]] /\ g = [f EXCEPT ![c][id] = v] /\ v \in V
    BY <1>t, <1>2, <2>1
  <2>3. g \in [Folders -> [Ids -> V]]
    BY <2>2, PointIs
  <2> QED BY <2>1, <2>3
<1> QED BY <1>t, <1>1, <1>2, <1>3, <1>4 DEF SiteType, PutBy

\* _delObject keeps the others and their order.
DelLeaves(s, c, id, t) ==
    /\ SameBut(s, t, Folders, c, {id}) /\ t \in SiteType /\ t.attr[c][id] = NoNode
    /\ t.list[c] = Only(s.list[c], Ids \ {id})

\* _delObject keeps the others and their order (ObjectManager.py).
LEMMA DelSame ==
    ASSUME NEW s \in SiteType, NEW c \in Folders, NEW id \in Ids, NEW events \in BOOLEAN,
           NEW t, DelObject(s, c, id, events) = t
    PROVE  DelLeaves(s, c, id, t)
<1>1. PICK u : u = IF events THEN Unindexed(s, s.attr[c][id]) ELSE s
  OBVIOUS
<1>2. u \in SiteType /\ u.list = s.list /\ u.attr = s.attr
  BY <1>1, UnindexedOnly
<1>3. PICK q, l : q = u.list[c] /\ l = Only(q, Ids \ {id})
  OBVIOUS
<1>4. q \in Seq(Ids)
  BY <1>2, <1>3, SiteTyped
<1>5. l \in Seq(Ids)
  BY <1>3, <1>4, OnlyIs
<1>6. Put(u, c, id, NoNode, l, t)
  BY <1>1, <1>3 DEF DelObject, Put
<1>n. NoNode \in Nodes \cup {NoNode}
  OBVIOUS
<1>7. PutBy(u, c, id, NoNode, l, t)
  BY <1>2, <1>5, <1>6, <1>n, SiteChanged
<1>8. ASSUME NEW K \in SUBSET (Ids \ {id}) PROVE Only(l, K) = Only(q, K)
  <2>1. PICK J : J = Ids \ {id}
    OBVIOUS
  <2>2. K \cap Ids \subseteq J
    BY <2>1
  <2>3. Only(Only(q, J), K) = Only(q, K)
    BY <1>4, <2>2, OnlyOnly
  <2> QED BY <1>3, <2>1, <2>3
<1>9. SameList(l, u.list[c], id)
  BY <1>3, <1>8 DEF SameList
<1>10. SameBut(u, t, Folders, c, {id}) /\ t.attr[c][id] = NoNode
  BY <1>2, <1>5, <1>7, <1>9, <1>n, SameButPoint
<1>11. t.list[c] = l
  BY <1>2, <1>7, SiteTyped DEF PutBy
<1>12. SameBut(s, t, Folders, c, {id}) /\ t \in SiteType
  BY <1>2, <1>7, <1>10 DEF SameBut, PutBy
<1> QED BY <1>2, <1>3, <1>10, <1>11, <1>12 DEF DelLeaves

\* _setObject does, over what is in the place.
SetLeaves(s, c, id, n, t) ==
    /\ SameBut(s, t, Folders, c, {id}) /\ t.attr[c][id] = n
    /\ s.attr[c][id] = NoNode => t.list[c] = Append(s.list[c], id)

\* _setObject keeps the others and their order, over what is in the place
\* (ObjectManager.py).
LEMMA SetSame ==
    ASSUME NEW s \in SiteType, NEW c \in Folders, NEW id \in Ids, NEW n \in Nodes, NEW events \in BOOLEAN,
           NEW t, SetObject(s, c, id, n, events) = t
    PROVE  SetLeaves(s, c, id, n, t)
<1>1. PICK free : free = IF s.attr[c][id] = NoNode THEN s ELSE DelObject(s, c, id, TRUE)
  OBVIOUS
<1>2. free \in SiteType /\ SameBut(s, free, Folders, c, {id})
  <2>1. CASE s.attr[c][id] = NoNode
    BY <1>1, <2>1 DEF SameBut
  <2>2. CASE s.attr[c][id] # NoNode
    <3>1. DelObject(s, c, id, TRUE) = free
      BY <1>1, <2>2
    <3> QED BY <3>1, DelSame DEF DelLeaves
  <2> QED BY <2>1, <2>2
<1>3. PICK q, l : q = free.list[c] /\ l = Append(q, id)
  OBVIOUS
<1>4. q \in Seq(Ids)
  BY <1>2, <1>3, SiteTyped
<1>5. l \in Seq(Ids)
  BY <1>3, <1>4
<1>6. PICK set : Put(free, c, id, n, l, set)
  BY DEF Put
<1>n. n \in Nodes \cup {NoNode}
  OBVIOUS
<1>7. PutBy(free, c, id, n, l, set)
  BY <1>2, <1>5, <1>6, <1>n, SiteChanged
<1>8. ASSUME NEW K \in SUBSET (Ids \ {id}) PROVE Only(l, K) = Only(q, K)
  <2>1. id \notin K
    OBVIOUS
  <2>2. Only(Append(q, id), K) = Only(q, K)
    BY <1>4, <2>1, OnlyAppend
  <2> QED BY <1>3, <2>2
<1>9. SameList(l, free.list[c], id)
  BY <1>3, <1>8 DEF SameList
<1>10. SameBut(free, set, Folders, c, {id}) /\ set.attr[c][id] = n
  BY <1>2, <1>5, <1>7, <1>9, <1>n, SameButPoint
<1>11. SameBut(s, set, Folders, c, {id})
  <2>1. {id} \cup {id} = {id}
    OBVIOUS
  <2>2. SameBut(s, set, Folders, c, {id} \cup {id})
    BY <1>2, <1>10, SameButStep
  <2> QED BY <2>1, <2>2
<1>12. t = IF events THEN Indexed(set, n) ELSE set
  <2>1. t = LET z == [free EXCEPT !.list[c] = Append(@, id), !.attr[c][id] = n]
            IN  IF events THEN Indexed(z, n) ELSE z
    BY <1>1 DEF SetObject
  <2>2. set = [free EXCEPT !.list[c] = Append(@, id), !.attr[c][id] = n]
    BY <1>3, <1>6 DEF Put
  <2> QED BY <2>1, <2>2
<1>13. t.list = set.list /\ t.attr = set.attr
  <2>1. set \in SiteType
    BY <1>7 DEF PutBy
  <2>2. PICK z : Indexed(set, n) = [set EXCEPT !.index = z]
    BY DEF Indexed
  <2>3. Indexed(set, n).list = set.list /\ Indexed(set, n).attr = set.attr
    BY <2>1, <2>2 DEF SiteType
  <2> QED BY <1>12, <2>3
<1>14. set.list[c] = l
  BY <1>2, <1>7, SiteTyped DEF PutBy
<1>15. s.attr[c][id] = NoNode => t.list[c] = Append(s.list[c], id)
  BY <1>1, <1>3, <1>13, <1>14
<1>16. SameBut(s, t, Folders, c, {id})
  BY <1>11, <1>13, SameButSame
<1> QED BY <1>10, <1>13, <1>15, <1>16 DEF SetLeaves

-----------------------------------------------------------------------------
(* The objects of a folder, in its order *)

HeldIn(s, c) == [k \in DOMAIN s.list[c] |-> s.attr[c][s.list[c][k]]]
BothIn(s, t, c) ==
    {n \in ToSet(HeldIn(s, c)) \cap ToSet(HeldIn(t, c)) :
        \/ c \in Ordered /\ Below(s, Root) = Below(t, Root)
        \/ IdOf(s, n) = IdOf(t, n)}
KeptIn(s, t, c) == Only(HeldIn(s, c), BothIn(s, t, c)) = Only(HeldIn(t, c), BothIn(s, t, c))

\* What is in a folder, by its list and by its attributes
LEMMA HeldAre ==
    ASSUME NEW s \in SiteType, AllListed(s), NEW c \in Folders
    PROVE  /\ s.list[c] \in Seq(Ids) /\ s.attr[c] \in [Ids -> Nodes \cup {NoNode}]
           /\ HeldIn(s, c) \in Seq(Nodes \cup {NoNode})
           /\ \A n \in ToSet(HeldIn(s, c)) : n # NoNode /\ \E i \in Ids : s.attr[c][i] = n
<1>1. s.attr \in [Folders -> [Ids -> Nodes \cup {NoNode}]] /\ s.list \in [Folders -> Seq(Ids)]
  BY SiteTyped
<1>2. PICK q, a, h, n : q = s.list[c] /\ a = s.attr[c] /\ h = HeldIn(s, c) /\ n = Len(q)
  OBVIOUS
<1>3. q \in Seq(Ids) /\ a \in [Ids -> Nodes \cup {NoNode}]
  BY <1>1, <1>2
<1>4. n \in Nat /\ DOMAIN q = 1 .. n /\ \A k \in 1 .. n : q[k] \in Ids
  BY <1>2, <1>3
<1>5. h = [k \in 1 .. n |-> a[q[k]]]
  BY <1>2, <1>4 DEF HeldIn
<1>6. h \in [1 .. n -> Nodes \cup {NoNode}]
  BY <1>3, <1>4, <1>5
<1>7. h \in Seq(Nodes \cup {NoNode})
  BY <1>4, <1>6
<1>8. ASSUME NEW m \in ToSet(h) PROVE m # NoNode /\ \E i \in Ids : a[i] = m
  <2>1. PICK k \in 1 .. n : h[k] = m
    BY <1>6 DEF ToSet
  <2>2. q[k] \in Ids /\ m = a[q[k]]
    BY <1>4, <1>5, <2>1
  <2>3. q[k] \in ToSet(q)
    BY <1>4 DEF ToSet
  <2>4. ToSet(q) = {i \in Ids : a[i] # NoNode}
    BY <1>2 DEF AllListed, Listed
  <2>5. PICK i : i = q[k]
    OBVIOUS
  <2> QED BY <2>2, <2>3, <2>4, <2>5
<1> QED BY <1>2, <1>3, <1>7, <1>8

\* Two lists of ids, and what each id is; K has the ids of what both keep.
Alike(l, r, a, b, both, M) ==
    /\ l \in Seq(Ids) /\ r \in Seq(Ids)
    /\ \A i \in Ids \ M : b[i] = a[i]
    /\ \A i \in M \cap Ids : a[i] \notin both /\ b[i] \notin both
    /\ \A K \in SUBSET (Ids \ M) : Only(r, K) = Only(l, K)

\* Two lists of ids with the same order of the ids that stay have the same order of the
\* objects that stay.
LEMMA AlikeKeep ==
    ASSUME NEW V, NEW a \in [Ids -> V], NEW b \in [Ids -> V], NEW l, NEW r, NEW both, NEW M,
           Alike(l, r, a, b, both, M)
    PROVE  Only(HeldBy(l, a), both) = Only(HeldBy(r, b), both)
<1>1. PICK K : K = {i \in Ids : a[i] \in both}
  OBVIOUS
<1>2. K \in SUBSET (Ids \ M) /\ HeldIf(a, Ids, V, both, K)
  BY <1>1 DEF Alike, HeldIf
<1>3. HeldIf(b, Ids, V, both, K)
  BY <1>1 DEF Alike, HeldIf
<1>4. PICK o : o = Only(l, K)
  OBVIOUS
<1>5. l \in Seq(Ids) /\ r \in Seq(Ids) /\ Only(r, K) = o
  BY <1>2, <1>4 DEF Alike
<1>6. o \in Seq(Ids) /\ ToSet(o) \subseteq K
  BY <1>4, <1>5, OnlyIs
<1>7. Only(HeldBy(l, a), both) = HeldBy(o, a)
  <2>1. l \in Seq(Ids)
    BY <1>5
  <2>2. Only(HeldBy(l, a), both) = HeldBy(Only(l, K), a)
    BY <1>2, <2>1, OnlyHeld
  <2> QED BY <1>4, <2>2
<1>8. Only(HeldBy(r, b), both) = HeldBy(o, b)
  <2>1. r \in Seq(Ids)
    BY <1>5
  <2>2. Only(HeldBy(r, b), both) = HeldBy(Only(r, K), b)
    BY <1>3, <2>1, OnlyHeld
  <2> QED BY <1>5, <2>2
<1>9. HeldBy(o, a) = HeldBy(o, b)
  <2>1. ASSUME NEW k \in DOMAIN o PROVE a[o[k]] = b[o[k]]
    <3>1. PICK i : i = o[k]
      OBVIOUS
    <3>2. i \in K
      BY <1>6, <3>1 DEF ToSet
    <3>3. i \in Ids \ M
      BY <1>2, <3>2
    <3>4. a[i] = b[i]
      BY <3>3 DEF Alike
    <3> QED BY <3>1, <3>4
  <2> QED BY <2>1 DEF HeldBy
<1> QED BY <1>7, <1>8, <1>9

\* What changes in c is not what both have.
Apart(s, x, t, c, M) ==
    \A i, j \in M \cap Ids : s.attr[c][i] # NoNode /\ s.attr[c][i] = x.attr[c][j] => s.attr[c][i] \notin BothIn(s, t, c)

\* A folder that changes at some ids only keeps the order of what it has before and after.
LEMMA KeptFolder ==
    ASSUME NEW s, NEW T, Sound(s, T), NEW x, NEW R, Fits(x, R), NEW t, t = Left(x, R), Sound(t, R),
           NEW c \in T \cap Folders, NEW M, SameBut(s, x, T \cap Folders, c, M), NEW d \in Folders,
           d = c => Apart(s, x, t, c, M)
    PROVE  KeptIn(s, t, d)
<1>1. /\ s \in SiteType /\ AllListed(s) /\ t \in SiteType /\ AllListed(t)
      /\ \A e \in Folders \ T, i \in Ids : s.attr[e][i] = NoNode
      /\ \A e \in Folders \ R, i \in Ids : t.attr[e][i] = NoNode
  BY SoundTyped
<1>2. x \in SiteType
  BY FitsTyped
<1>3. /\ \A e \in Folders \cap R : t.list[e] = x.list[e]
      /\ \A e \in Folders \cap R, i \in Ids : t.attr[e][i] = x.attr[e][i]
  BY DEF Left
<1>4. PICK l, r, a, b, V, both : /\ l = s.list[d] /\ r = t.list[d] /\ a = s.attr[d] /\ b = t.attr[d]
                                 /\ V = Nodes \cup {NoNode} /\ both = BothIn(s, t, d)
  OBVIOUS
<1>5. /\ l \in Seq(Ids) /\ a \in [Ids -> V] /\ HeldIn(s, d) \in Seq(V)
      /\ \A n \in ToSet(HeldIn(s, d)) : n # NoNode /\ \E i \in Ids : a[i] = n
  BY <1>1, <1>4, HeldAre
<1>6. /\ r \in Seq(Ids) /\ b \in [Ids -> V] /\ HeldIn(t, d) \in Seq(V)
      /\ \A n \in ToSet(HeldIn(t, d)) : n # NoNode /\ \E i \in Ids : b[i] = n
  BY <1>1, <1>4, HeldAre
<1>7. HeldIn(s, d) = HeldBy(l, a) /\ HeldIn(t, d) = HeldBy(r, b)
  BY <1>4 DEF HeldIn, HeldBy
<1>8. both \subseteq ToSet(HeldIn(s, d)) /\ both \subseteq ToSet(HeldIn(t, d))
  BY <1>4 DEF BothIn
<1>9. CASE d \notin T \/ d \notin R
  <2>1. both = {}
    BY <1>1, <1>4, <1>5, <1>6, <1>8, <1>9
  <2>2. PICK h, g : h = HeldIn(s, d) /\ g = HeldIn(t, d)
    OBVIOUS
  <2>3. h \in Seq(V) /\ g \in Seq(V) /\ V \cap both = {}
    BY <1>5, <1>6, <2>1, <2>2
  <2>4. Only(h, both) = <<>>
    BY <2>3, OnlyNone
  <2>5. Only(g, both) = <<>>
    BY <2>3, OnlyNone
  <2> QED BY <1>4, <2>2, <2>4, <2>5 DEF KeptIn
<1>10. CASE d \in T /\ d \in R /\ d # c
  <2>1. x.list[d] = s.list[d] /\ x.attr[d] = s.attr[d]
    BY <1>10 DEF SameBut
  <2>2. r = l /\ \A i \in Ids : b[i] = a[i]
    BY <1>3, <1>4, <1>10, <2>1
  <2>3. b = a
    BY <1>5, <1>6, <2>2
  <2>4. HeldIn(s, d) = HeldIn(t, d)
    BY <1>7, <2>2, <2>3
  <2> QED BY <2>4 DEF KeptIn
<1>11. CASE d = c /\ d \in R
  <2>1. \A i \in Ids : b[i] = x.attr[c][i]
    BY <1>3, <1>4, <1>11
  <2>2. r = x.list[c]
    BY <1>3, <1>4, <1>11
  <2>3. \A i \in Ids \ M : b[i] = a[i]
    BY <1>4, <1>11, <2>1 DEF SameBut
  <2>4. \A K \in SUBSET (Ids \ M) : Only(r, K) = Only(l, K)
    BY <1>4, <1>11, <2>2 DEF SameBut
  <2>5. \A i, j \in M \cap Ids : a[i] # NoNode /\ a[i] = b[j] => a[i] \notin both
    BY <1>4, <1>11, <2>1 DEF Apart
  <2>6. \A i, j \in Ids : a[i] # NoNode /\ a[i] = a[j] => i = j
    <3>1. ASSUME NEW i \in Ids, NEW j \in Ids, a[i] # NoNode, a[i] = a[j] PROVE i = j
      <4>1. PICK n : n = a[i]
        OBVIOUS
      <4>2. s.attr[d][i] = n /\ s.attr[d][j] = n /\ n # NoNode
        BY <1>4, <3>1, <4>1
      <4>3. \A e \in Folders, k \in Ids : s.attr[e][k] = n => e = d /\ k = i
        BY <4>2, KidSound
      <4> QED BY <4>2, <4>3
    <3> QED BY <3>1
  <2>7. \A i, j \in Ids : b[i] # NoNode /\ b[i] = b[j] => i = j
    <3>1. ASSUME NEW i \in Ids, NEW j \in Ids, b[i] # NoNode, b[i] = b[j] PROVE i = j
      <4>1. PICK n : n = b[i]
        OBVIOUS
      <4>2. t.attr[d][i] = n /\ t.attr[d][j] = n /\ n # NoNode
        BY <1>4, <3>1, <4>1
      <4>3. \A e \in Folders, k \in Ids : t.attr[e][k] = n => e = d /\ k = i
        BY <4>2, KidSound
      <4> QED BY <4>2, <4>3
    <3> QED BY <3>1
  <2>8. ASSUME NEW i \in M \cap Ids PROVE a[i] \notin both /\ b[i] \notin both
    <3>1. ASSUME a[i] \in both PROVE FALSE
      <4>1. PICK j \in Ids : b[j] = a[i] /\ a[i] # NoNode
        BY <1>5, <1>6, <1>8, <3>1
      <4>2. CASE j \in M
        BY <2>5, <3>1, <4>1, <4>2
      <4>3. CASE j \notin M
        BY <2>3, <2>6, <4>1, <4>3
      <4> QED BY <4>2, <4>3
    <3>2. ASSUME b[i] \in both PROVE FALSE
      <4>1. PICK j \in Ids : a[j] = b[i] /\ b[i] # NoNode
        BY <1>5, <1>6, <1>8, <3>2
      <4>2. CASE j \in M
        BY <2>5, <3>2, <4>1, <4>2
      <4>3. CASE j \notin M
        BY <2>3, <2>7, <4>1, <4>3
      <4> QED BY <4>2, <4>3
    <3> QED BY <3>1, <3>2
  <2>9. Alike(l, r, a, b, both, M)
    BY <1>5, <1>6, <2>3, <2>4, <2>8 DEF Alike
  <2>10. Only(HeldBy(l, a), both) = Only(HeldBy(r, b), both)
    <3>1. a \in [Ids -> V] /\ b \in [Ids -> V]
      BY <1>5, <1>6
    <3> QED BY <2>9, <3>1, AlikeKeep
  <2> QED BY <1>4, <1>7, <2>10 DEF KeptIn
<1> QED BY <1>9, <1>10, <1>11

\* The end of a step
OrderKept(s, t) == \A d \in Folders : KeptIn(s, t, d)
Orderly(s) == \E t : Site' = t /\ OrderKept(s, t)

\* So does a step of the tree that changes one folder.
LEMMA BecomesKept ==
    ASSUME NEW CONSTANT s, NEW CONSTANT T, Sound(s, T), NEW CONSTANT x, NEW CONSTANT R, Fits(x, R),
           NEW ls, Becomes(x, ls),
           NEW c \in T \cap Folders, NEW M, SameBut(s, x, T \cap Folders, c, M), Apart(s, x, Left(x, R), c, M)
    PROVE  Orderly(s)
<1>1. Site' = Left(x, R) /\ Sound(Left(x, R), R)
  BY BecomesSound
<1>2. PICK t : t = Left(x, R)
  OBVIOUS
<1>3. Sound(t, R) /\ Apart(s, x, t, c, M)
  BY <1>1, <1>2
<1>4. \A d \in Folders : KeptIn(s, t, d)
  BY <1>2, <1>3, KeptFolder
<1> QED BY <1>1, <1>2, <1>4 DEF Orderly, OrderKept

-----------------------------------------------------------------------------
(* Every operation keeps the order of what stays *)

\* A folder gets an object that was not in the tree; w has the copies it brings.
LEMMA SetKept ==
    ASSUME NEW CONSTANT s, NEW CONSTANT T, Sound(s, T), NEW CONSTANT w, Fits(w, T),
           NEW c \in T \cap Folders, SameBut(s, w, T \cap Folders, c, {}),
           NEW id \in Ids, NEW k \in Nodes \ T, NEW S, Hangs(w, k, S), S \cap T = {},
           NEW CONSTANT y, SetObject(w, c, id, k, TRUE) = y, NEW ls, Becomes(y, ls)
    PROVE  Orderly(s)
<1>1. SetOverDone(w, T, c, id, k, S, y)
  BY SetOver
<1>2. PICK R : Fits(y, R)
  BY <1>1 DEF SetOverDone
<1>3. PICK M : M = {id}
  OBVIOUS
<1>4. SameBut(w, y, Folders, c, M) /\ y.attr[c][id] = k
  <2>1. w \in SiteType
    BY FitsTyped
  <2>2. PICK events \in BOOLEAN : events = TRUE
    OBVIOUS
  <2>3. SetObject(w, c, id, k, events) = y
    BY <2>2
  <2>4. SameBut(w, y, Folders, c, {id}) /\ y.attr[c][id] = k
    BY <2>1, <2>3, SetSame DEF SetLeaves
  <2> QED BY <1>3, <2>4
<1>5. SameBut(w, y, T \cap Folders, c, M)
  BY <1>4 DEF SameBut
<1>6. SameBut(s, y, T \cap Folders, c, M)
  <2>1. PICK N : N = {}
    OBVIOUS
  <2>2. SameBut(s, w, T \cap Folders, c, N)
    BY <2>1
  <2>3. SameBut(s, y, T \cap Folders, c, N \cup M)
    BY <1>5, <2>2, SameButStep
  <2>4. N \cup M = M
    BY <2>1
  <2> QED BY <2>3, <2>4
<1>7. Apart(s, y, Left(y, R), c, M)
  <2>1. ASSUME s.attr[c][id] = k PROVE FALSE
    <3>1. k # NoNode
      BY FinitelyMany, TreeAssumption
    <3>2. k \in T \ {Root}
      BY <2>1, <3>1, KidSound
    <3> QED BY <3>2
  <2>2. \A i, j \in M \cap Ids : i = id /\ j = id
    BY <1>3
  <2> QED BY <1>4, <2>1, <2>2 DEF Apart
<1> QED BY <1>2, <1>6, <1>7, BecomesKept

\* A new object goes to the end of its folder, also in the place of one that gives way.
LEMMA AddOrders ==
    ASSUME NEW CONSTANT s, s = Site, NEW CONSTANT T, Sound(s, T),
           NEW c \in Folders, NEW id \in Ids, NEW n \in Nodes, Add(c, id, n)
    PROVE  Orderly(s)
<1>1. c \in T \cap Folders /\ n \in Nodes \ T
  BY FinitelyMany, InTreeIs DEF Add
<1>2. PICK S : S = {n} /\ Hangs(s, n, S)
  BY <1>1, AloneHangs DEF Sound
<1>3. PICK y : SetObject(s, c, id, n, TRUE) = y
  OBVIOUS
<1>4. Becomes(y, locks)
  BY <1>3 DEF Add
<1>5. Fits(s, T) /\ SameBut(s, s, T \cap Folders, c, {})
  BY SoundTyped DEF SameBut
<1>6. S \cap T = {}
  BY <1>1, <1>2
<1> QED BY <1>1, <1>2, <1>3, <1>4, <1>5, <1>6, SetKept

\* So does a copy.
LEMMA PutCopyOrders ==
    ASSUME NEW CONSTANT s, s = Site, NEW CONSTANT T, Sound(s, T), NEW c \in T \cap Folders, NEW id \in Ids, NEW n \in T,
           NEW m \in Copies(Below(Site, n)), NEW ls, PutCopy(c, id, m, n, ls)
    PROVE  Orderly(s)
<1>1. PICK t, k, U : WithCopies(s, m) = t /\ m[n] = k /\ U = Below(Site, n)
  OBVIOUS
<1>2. CopyDone(s, T, U, m, n, t)
  <2>1. Sound(Site, T) /\ U \in {Below(Site, n), {n}} /\ m \in Copies(U)
    BY <1>1
  <2> QED BY <1>1, <2>1, CopiesAre
<1>3. PICK S : S = Made(U, m)
  OBVIOUS
<1>4. Fits(t, T) /\ Hangs(t, k, S) /\ S \cap T = {} /\ CopyIs(s, U, m, t) /\ Copying(s, T, U, m)
  BY <1>1, <1>2, <1>3 DEF CopyDone
<1>5. k \in Nodes \ T
  <2>1. n \in U
    <3>1. PICK A : Rooted(s, Root, T, A)
      BY DEF Sound, Fits, Hangs
    <3>2. Hangs(s, n, U)
      BY <1>1, <3>1, SoundTyped, BelowSub
    <3> QED BY <3>2 DEF Hangs, Rooted
  <2> QED BY <1>1, <1>4, <2>1 DEF Copying
<1>6. SameBut(s, t, T \cap Folders, c, {})
  <2>1. \A d \in T \cap Folders : d \in Folders \ Made(U, m)
    BY <1>3, <1>4
  <2>2. \A d \in T \cap Folders : t.list[d] = s.list[d] /\ t.attr[d] = s.attr[d]
    BY <1>4, <2>1 DEF CopyIs
  <2> QED BY <2>2 DEF SameBut
<1>7. PICK y : SetObject(t, c, id, k, TRUE) = y
  OBVIOUS
<1>8. Becomes(y, ls)
  BY <1>1, <1>7 DEF PutCopy
<1> QED BY <1>4, <1>5, <1>6, <1>7, <1>8, SetKept

\* A clone keeps the order (CopySupport.py, manage_clone).
LEMMA CloneOrders ==
    ASSUME NEW CONSTANT s, s = Site, NEW CONSTANT T, Sound(s, T),
           NEW c \in Folders, NEW n \in Nodes, NEW id \in Ids, Clone(c, n, id)
    PROVE  Orderly(s)
<1>1. c \in T \cap Folders /\ n \in T
  BY FinitelyMany, InTreeIs DEF Clone
<1>2. PICK m \in Copies(Below(Site, n)) : PutCopy(c, id, m, n, CopiedLocks(m))
  BY DEF Clone
<1> QED BY <1>1, <1>2, PutCopyOrders

\* A paste of a copy does (CopySupport.py, manage_pasteObjects).
LEMMA PasteCopyOrders ==
    ASSUME NEW CONSTANT s, s = Site, NEW CONSTANT T, Sound(s, T), ClipInv, NEW c \in Folders, PasteCopy(c)
    PROVE  Orderly(s)
<1>0. Sound(Site, T)
  OBVIOUS
<1>1. c \in T \cap Folders
  BY <1>0, PasteCopyPuts
<1>2. PICK n \in T, id \in Ids : \E m \in Copies(Below(Site, n)) :
         PutCopy(c, id, m, n, [CopiedLocks(m) EXCEPT ![m[n]] = {}])
  BY <1>0, PasteCopyPuts
<1>3. PICK m \in Copies(Below(Site, n)) : PutCopy(c, id, m, n, [CopiedLocks(m) EXCEPT ![m[n]] = {}])
  BY <1>2
<1> QED BY <1>1, <1>2, <1>3, PutCopyOrders

\* What is deleted is gone and the rest is as it was.
Rest(s, c) ==
    {p \in (SUBSET Ids) \X SiteType :
        SameBut(s, p[2], Folders, c, p[1]) /\ \A i \in p[1] : p[2].attr[c][i] = NoNode}

\* One more object is deleted.
LEMMA RestMore ==
    ASSUME NEW s, NEW x \in SiteType, NEW c \in Folders, NEW u \in SUBSET Ids, NEW i \in Ids,
           <<u, x>> \in Rest(s, c), NEW y, DelObject(x, c, i, TRUE) = y
    PROVE  <<u \cup {i}, y>> \in Rest(s, c)
<1>1. SameBut(s, x, Folders, c, u) /\ \A k \in u : x.attr[c][k] = NoNode
  BY DEF Rest
<1>2. PICK M, v : M = {i} /\ v = u \cup M
  OBVIOUS
<1>3. SameBut(x, y, Folders, c, {i}) /\ y.attr[c][i] = NoNode /\ y \in SiteType
  BY DelSame DEF DelLeaves
<1>4. SameBut(s, y, Folders, c, v)
  <2>1. SameBut(x, y, Folders, c, M)
    BY <1>2, <1>3
  <2>2. SameBut(s, y, Folders, c, u \cup M)
    BY <1>1, <2>1, SameButStep
  <2> QED BY <1>2, <2>2
<1>5. \A k \in v : y.attr[c][k] = NoNode
  <2>1. \A k \in Ids \ {i} : y.attr[c][k] = x.attr[c][k]
    BY <1>3 DEF SameBut
  <2> QED BY <1>1, <1>2, <1>3, <2>1
<1>6. v \in SUBSET Ids /\ v = u \cup {i}
  BY <1>2
<1>7. <<v, y>> \in Rest(s, c)
  BY <1>3, <1>4, <1>5, <1>6 DEF Rest
<1> QED BY <1>6, <1>7

\* What is left after each of the deletions
LEMMA RestHolds ==
    ASSUME NEW s \in SiteType, NEW c \in Folders, NEW ids \in SUBSET Ids
    PROVE  <<{}, s>> \in Rest(s, c) /\ HoldsOfMore(Rest(s, c), c, ids)
<1>1. <<{}, s>> \in Rest(s, c)
  <2>1. SameBut(s, s, Folders, c, {})
    BY DEF SameBut
  <2> QED BY <2>1 DEF Rest
<1>2. PICK W : W = Rest(s, c)
  OBVIOUS
<1>3. ASSUME NEW u \in SUBSET ids, NEW i \in ids, NEW x \in SiteType, NEW y \in SiteType,
             <<u, x>> \in W, y = DelObject(x, c, i, TRUE)
      PROVE  <<u \cup {i}, y>> \in W
  <2>1. u \in SUBSET Ids /\ i \in Ids
    OBVIOUS
  <2>2. <<u, x>> \in Rest(s, c) /\ DelObject(x, c, i, TRUE) = y
    BY <1>2, <1>3
  <2>3. <<u \cup {i}, y>> \in Rest(s, c)
    BY <2>1, <2>2, RestMore
  <2> QED BY <1>2, <2>3
<1>4. HoldsOfMore(W, c, ids)
  BY <1>3 DEF HoldsOfMore
<1> QED BY <1>1, <1>2, <1>4

\* What is not deleted keeps its order (ObjectManager.py, manage_delObjects).
LEMMA DelObjectsOrders ==
    ASSUME NEW CONSTANT s, s = Site, NEW CONSTANT T, Sound(s, T),
           NEW c \in Folders, NEW CONSTANT ids \in SUBSET Ids, DelObjects(c, ids)
    PROVE  Orderly(s)
<1>1. Fits(s, T) /\ c \in T \cap Folders /\ s \in SiteType
  BY SoundTyped, FinitelyMany, InTreeIs DEF DelObjects
<1>2. \A i \in ids : s.attr[c][i] # NoNode
  BY DEF DelObjects, Deletable
<1>3. PICK y, W : DelsOf(s, c, ids) = y /\ W = Rest(s, c)
  OBVIOUS
<1>4. <<{}, s>> \in W /\ HoldsOfMore(W, c, ids)
  <2>1. <<{}, s>> \in Rest(s, c) /\ HoldsOfMore(Rest(s, c), c, ids)
    BY <1>1, RestHolds
  <2> QED BY <1>3, <2>1
<1>5. (\E R : Fits(y, R)) /\ <<ids, y>> \in W
  BY <1>1, <1>2, <1>3, <1>4, DelsFit
<1>6. PICK R : Fits(y, R)
  BY <1>5
<1>7. SameBut(s, y, Folders, c, ids) /\ \A i \in ids : y.attr[c][i] = NoNode
  BY <1>3, <1>5 DEF Rest
<1>8. SameBut(s, y, T \cap Folders, c, ids)
  BY <1>7 DEF SameBut
<1>9. Apart(s, y, Left(y, R), c, ids)
  BY <1>7 DEF Apart
<1>10. Becomes(y, locks)
  <2>1. Becomes(DelsOf(Site, c, ids), locks)
    BY DEF DelObjects, DelsOf
  <2> QED BY <1>3, <2>1
<1> QED BY <1>1, <1>6, <1>8, <1>9, <1>10, BecomesKept

\* What a renaming changes is the old id and the new one.
RenameLeaves(s, c, id, new, n, z, y) ==
    /\ SameBut(s, y, Folders, c, {id, new}) /\ y.attr[c][new] = n /\ y.attr[c][id] = NoNode
    /\ s.attr[c][new] = NoNode => z.list[c] = Append(Only(s.list[c], Ids \ {id}), new)

\* A renaming changes two ids of a folder and the order of no others.
LEMMA RenamedSame ==
    ASSUME NEW s, NEW T, Sound(s, T), NEW c \in T \cap Folders, NEW id \in Ids, NEW new \in Ids, id # new,
           NEW n \in Nodes, NEW y, NEW out, NEW z, NEW U, RenameDone(s, T, c, id, new, n, y, out, z, U)
    PROVE  RenameLeaves(s, c, id, new, n, z, y)
<1>1. /\ DelObject(s, c, id, TRUE) = out /\ SetObject(out, c, new, n, TRUE) = z
      /\ Positioned(s, c, id, new, z) = y /\ Fits(z, U) /\ y.attr = z.attr /\ out \in SiteType
  BY DEF RenameDone
<1>2. s \in SiteType /\ z \in SiteType /\ c \in Folders
  BY <1>1, SoundTyped, FitsTyped
<1>3. PICK I, N : I = {id} /\ N = {new}
  OBVIOUS
<1>4. /\ SameBut(s, out, Folders, c, {id}) /\ out.attr[c][id] = NoNode
      /\ out.list[c] = Only(s.list[c], Ids \ {id})
  <2>1. DelObject(s, c, id, TRUE) = out
    BY <1>1
  <2>2. DelLeaves(s, c, id, out)
    BY <1>2, <2>1, DelSame
  <2> QED BY <2>2 DEF DelLeaves
<1>5. /\ SameBut(out, z, Folders, c, {new}) /\ z.attr[c][new] = n
      /\ out.attr[c][new] = NoNode => z.list[c] = Append(out.list[c], new)
  <2>1. SetObject(out, c, new, n, TRUE) = z
    BY <1>1
  <2>2. SetLeaves(out, c, new, n, z)
    BY <1>1, <1>2, <2>1, SetSame
  <2> QED BY <2>2 DEF SetLeaves
<1>6. z.attr[c][id] = NoNode
  <2>1. id \in Ids \ {new}
    OBVIOUS
  <2>2. z.attr[c][id] = out.attr[c][id]
    BY <1>5, <2>1 DEF SameBut
  <2> QED BY <1>4, <2>2
<1>7. s.attr[c][new] = NoNode => z.list[c] = Append(Only(s.list[c], Ids \ {id}), new)
  <2>1. new \in Ids \ {id}
    OBVIOUS
  <2>2. out.attr[c][new] = s.attr[c][new]
    BY <1>4, <2>1 DEF SameBut
  <2> QED BY <1>4, <1>5, <2>2
<1>8. SameBut(z, y, Folders, c, N)
  <2>1. CASE c \notin Ordered
    <3>1. y = z
      BY <1>1, <2>1 DEF Positioned
    <3> QED BY <3>1 DEF SameBut
  <2>2. CASE c \in Ordered
    <3>1. PICK position : position = CHOOSE k \in DOMAIN s.list[c] : s.list[c][k] = id
      OBVIOUS
    <3>2. position \in Nat
      <4>1. s.list[c] \in Seq(Ids) /\ ToSet(s.list[c]) = {i \in Ids : s.attr[c][i] # NoNode}
        BY SoundTyped, ListIs
      <4>2. id \in ToSet(s.list[c])
        <5>1. s.attr[c][id] = n /\ n # NoNode
          BY TreeAssumption DEF RenameDone
        <5> QED BY <4>1, <5>1
      <4>3. DOMAIN s.list[c] \subseteq Nat /\ \E k \in DOMAIN s.list[c] : s.list[c][k] = id
        BY <4>1, <4>2 DEF ToSet
      <4> QED BY <3>1, <4>3
    <3>3. PICK q, x, g : /\ q = z.list[c] /\ ToPosition(q, new, position) = x
                         /\ g = [z.list EXCEPT ![c] = x]
      OBVIOUS
    <3>4. y = [z EXCEPT !.list = g]
      <4>1. y = [z EXCEPT !.list[c] = ToPosition(@, new, position)]
        BY <1>1, <2>2, <3>1 DEF Positioned
      <4> QED BY <1>2, <3>3, <4>1, SiteTyped
    <3>5. y.list = g
      BY <1>2, <3>4, SiteTyped
    <3>6. y.list[c] = x /\ \A d \in Folders \ {c} : y.list[d] = z.list[d]
      BY <1>2, <3>3, <3>5, SiteTyped
    <3>7. q \in Seq(Ids) /\ new \in ToSet(q)
      <4>1. q \in Seq(Ids) /\ ToSet(q) = {i \in Ids : z.attr[c][i] # NoNode}
        BY <1>1, <3>3, ListIs
      <4>2. z.attr[c][new] # NoNode
        BY <1>5, TreeAssumption
      <4> QED BY <4>1, <4>2
    <3>8. ASSUME NEW K \in SUBSET (Ids \ N) PROVE Only(y.list[c], K) = Only(z.list[c], K)
      <4>1. new \notin K
        BY <1>3
      <4>2. Only(x, K) = Only(q, K)
        BY <3>2, <3>3, <3>7, <4>1, OnlyMoved
      <4> QED BY <3>3, <3>6, <4>2
    <3> QED BY <1>1, <3>6, <3>8 DEF SameBut
  <2> QED BY <2>1, <2>2
<1>9. SameBut(s, y, Folders, c, {id, new})
  <2>1. SameBut(s, out, Folders, c, I) /\ SameBut(out, z, Folders, c, N)
    BY <1>3, <1>4, <1>5
  <2>2. SameBut(s, z, Folders, c, I \cup N)
    BY <2>1, SameButStep
  <2>3. PICK J : J = I \cup N
    OBVIOUS
  <2>4. SameBut(s, y, Folders, c, J \cup N)
    BY <1>8, <2>2, <2>3, SameButStep
  <2>5. J \cup N = {id, new}
    BY <1>3, <2>3
  <2> QED BY <2>4, <2>5
<1> QED BY <1>1, <1>5, <1>6, <1>7, <1>9 DEF RenameLeaves

\* A renaming to a free id leaves each object at its place of an ordered folder.
LEMMA RenamedInPlace ==
    ASSUME NEW s, NEW T, Sound(s, T), NEW c \in T \cap Folders, NEW id \in Ids, NEW new \in Ids, id # new,
           NEW n \in Nodes, s.attr[c][id] = n, s.attr[c][new] = NoNode, c \in Ordered,
           NEW y, NEW out, NEW z, NEW U, RenameDone(s, T, c, id, new, n, y, out, z, U),
           NEW t, t = Left(y, U)
    PROVE  HeldIn(t, c) = HeldIn(s, c)
<1>1. /\ Positioned(s, c, id, new, z) = y /\ Fits(z, U) /\ Fits(y, U) /\ c \in U
  BY DEF RenameDone
<1>2. /\ SameBut(s, y, Folders, c, {id, new}) /\ y.attr[c][new] = n
      /\ z.list[c] = Append(Only(s.list[c], Ids \ {id}), new)
  <2>1. RenameLeaves(s, c, id, new, n, z, y)
    BY RenamedSame
  <2> QED BY <2>1 DEF RenameLeaves
<1>3. PICK q, X, L : q = s.list[c] /\ X = ToSet(q) /\ L = Len(q)
  OBVIOUS
<1>4. L \in Nat /\ DOMAIN q = 1 .. L /\ ListsEach(q, Ids, X, L) /\ X = {i \in Ids : s.attr[c][i] # NoNode}
  BY <1>3, SoundTyped, ListIs
<1>5. new \in Ids \ X /\ id \in X
  BY <1>4, TreeAssumption
<1>6. PICK p : p = CHOOSE k \in DOMAIN s.list[c] : s.list[c][k] = id
  OBVIOUS
<1>7. p \in 1 .. L /\ q[p] = id
  <2>1. \E k \in 1 .. L : q[k] = id
    BY <1>3, <1>4, <1>5 DEF ToSet
  <2> QED BY <1>3, <1>4, <1>6, <2>1
<1>8. PICK r, x : r = z.list[c] /\ ToPosition(r, new, p) = x
  OBVIOUS
<1>9. x \in Seq(Ids) /\ Len(x) = L /\ \A j \in 1 .. L : x[j] = IF j = p THEN new ELSE q[j]
  <2>1. r = Append(Only(q, Ids \ {q[p]}), new)
    BY <1>2, <1>3, <1>7, <1>8
  <2>2. Swapped(Ids, q, L, p, new, x)
    BY <1>4, <1>5, <1>7, <1>8, <2>1, ToItsPlace
  <2> QED BY <2>2 DEF Swapped
<1>10. y.list[c] = x
  <2>1. z \in SiteType
    BY <1>1, FitsTyped
  <2>2. y = [z EXCEPT !.list[c] = ToPosition(@, new, p)]
    BY <1>1, <1>6 DEF Positioned
  <2>3. PICK g : g = [z.list EXCEPT ![c] = x]
    OBVIOUS
  <2>4. y = [z EXCEPT !.list = g]
    BY <1>8, <2>1, <2>2, <2>3, SiteTyped
  <2>5. y.list = g
    BY <2>1, <2>4, SiteTyped
  <2> QED BY <2>1, <2>3, <2>5, SiteTyped
<1>11. t.list[c] = x /\ \A i \in Ids : t.attr[c][i] = y.attr[c][i]
  BY <1>1, <1>10 DEF Left
<1>12. ASSUME NEW j \in 1 .. L PROVE t.attr[c][x[j]] = s.attr[c][q[j]]
  <2>1. CASE j = p
    BY <1>2, <1>7, <1>9, <1>11, <2>1
  <2>2. CASE j # p
    <3>1. PICK i : i = q[j]
      OBVIOUS
    <3>2. i \in X /\ i # id
      BY <1>3, <1>4, <1>7, <2>2, <3>1 DEF ListsEach, OnceIn, ToSet
    <3>3. i \in Ids \ {id, new}
      BY <1>4, <1>5, <3>2
    <3>4. y.attr[c][i] = s.attr[c][i]
      BY <1>2, <3>3 DEF SameBut
    <3>5. x[j] = i
      BY <1>9, <2>2, <3>1
    <3> QED BY <1>11, <3>1, <3>3, <3>4, <3>5
  <2> QED BY <2>1, <2>2
<1>13. DOMAIN x = 1 .. L
  BY <1>9
<1>14. HeldIn(t, c) = [j \in 1 .. L |-> t.attr[c][x[j]]]
  BY <1>11, <1>13 DEF HeldIn
<1>15. HeldIn(s, c) = [j \in 1 .. L |-> s.attr[c][q[j]]]
  BY <1>3, <1>4 DEF HeldIn
<1> QED BY <1>12, <1>14, <1>15

\* What a renaming replaces is not in the tree any more.
LEMMA ReplacedGone ==
    ASSUME NEW s, NEW T, Sound(s, T), NEW c \in T \cap Folders, NEW id \in Ids, NEW new \in Ids, id # new,
           NEW n \in Nodes, s.attr[c][id] = n, NEW r, s.attr[c][new] = r, r # NoNode,
           NEW y, NEW out, NEW z, NEW U, RenameDone(s, T, c, id, new, n, y, out, z, U)
    PROVE  r \in T \ U
<1>1. Fits(y, U) /\ y.attr = z.attr /\ z.attr[c][new] = n /\ NothingElse(out, z, n) /\ Differs(s, out, c, id, NoNode)
  BY DEF RenameDone
<1>2. r \in T \ {Root} /\ \A d \in Folders, i \in Ids : s.attr[d][i] = r => d = c /\ i = new
  BY KidSound
<1>3. r # n
  BY <1>2
<1>4. PICK t : t = Left(y, U)
  OBVIOUS
<1>5. Sound(t, U)
  BY <1>1, <1>4, LeftSound
<1>6. ASSUME r \in U PROVE FALSE
  <2>1. PICK d \in Folders, i \in Ids : t.attr[d][i] = r
    <3>1. Container(t, r) \in U \cap Folders /\ IdOf(t, r) \in Ids /\ t.attr[Container(t, r)][IdOf(t, r)] = r
      BY <1>2, <1>5, <1>6, PlacedSound
    <3> QED BY <3>1
  <2>2. t.attr[d][i] \in {NoNode, y.attr[d][i]}
    BY <1>4 DEF Left
  <2>3. z.attr[d][i] = r
    BY <1>1, <2>1, <2>2
  <2>4. out.attr[d][i] = r
    BY <1>1, <1>3, <2>3 DEF NothingElse
  <2>5. s.attr[d][i] = r
    <3>1. s.attr \in [Folders -> [Ids -> Nodes \cup {NoNode}]]
      BY SoundTyped
    <3> QED BY <1>1, <2>4, <3>1 DEF Differs
  <2>6. d = c /\ i = new
    BY <1>2, <2>5
  <2> QED BY <1>1, <1>3, <2>3, <2>6
<1> QED BY <1>2, <1>6

\* A renaming keeps the order of the others; in an ordered folder it keeps the object's
\* place, unless it gives another one's id to it (OrderSupport.py, manage_renameObject).
LEMMA RenameOrders ==
    ASSUME NEW CONSTANT s, s = Site, NEW CONSTANT T, Sound(s, T),
           NEW c \in Folders, NEW id \in Ids, NEW new \in Ids, Rename(c, id, new)
    PROVE  Orderly(s)
<1>1. PICK n : n = s.attr[c][id]
  OBVIOUS
<1>2. n # NoNode /\ id # new /\ s.attr[c][id] = n
  <2>1. attr = s.attr
    BY DEF Site
  <2> QED BY <1>1, <2>1 DEF Rename
<1>3. c \in T \cap Folders /\ n \in T \ {Root} /\ IdOf(s, n) = id /\ n \in Nodes
  BY <1>2, SoundTyped, KidSound
<1>4. PICK y : Positioned(s, c, id, new,
                 Indexed(SetObject(DelObject(Unindexed(s, n), c, id, FALSE), c, new, n, FALSE), n)) = y
  OBVIOUS
<1>5. PICK out, z, U : RenameDone(s, T, c, id, new, n, y, out, z, U)
  BY <1>2, <1>4, RenamedIs
<1>6. Becomes(y, locks)
  <2>1. PICK v : v = attr[c][id]
    OBVIOUS
  <2>2. v = n
    BY <1>1, <2>1 DEF Site
  <2>3. Becomes(Positioned(Site, c, id, new,
                   Indexed(SetObject(DelObject(Unindexed(Site, v), c, id, FALSE), c, new, v, FALSE), v)), locks)
    BY <2>1 DEF Rename
  <2> QED BY <1>4, <2>2, <2>3
<1>7. Fits(y, U) /\ c \in U /\ (s.attr[c][new] = NoNode => U = T)
  BY <1>5 DEF RenameDone
<1>8. PICK t : t = Left(y, U)
  OBVIOUS
<1>9. Site' = t /\ Sound(t, U)
  <2>1. Site' = Left(y, U) /\ Sound(Left(y, U), U)
    BY <1>6, <1>7, BecomesSound
  <2> QED BY <1>8, <2>1
<1>10. PICK M : M = {id, new}
  OBVIOUS
<1>11. SameBut(s, y, Folders, c, M) /\ y.attr[c][new] = n /\ y.attr[c][id] = NoNode
  <2>1. RenameLeaves(s, c, id, new, n, z, y)
    BY <1>2, <1>3, <1>5, RenamedSame
  <2> QED BY <1>10, <2>1 DEF RenameLeaves
<1>12. SameBut(s, y, T \cap Folders, c, M)
  BY <1>11 DEF SameBut
<1>13. ASSUME NEW d \in Folders PROVE KeptIn(s, t, d)
  <2>1. CASE d # c
    BY <1>3, <1>7, <1>8, <1>9, <1>12, <2>1, KeptFolder
  <2>2. CASE d = c /\ c \in Ordered /\ s.attr[c][new] = NoNode
    <3>1. HeldIn(t, c) = HeldIn(s, c)
      BY <1>2, <1>3, <1>5, <1>8, <2>2, RenamedInPlace
    <3> QED BY <2>2, <3>1 DEF KeptIn
  <2>3. CASE d = c /\ ~(c \in Ordered /\ s.attr[c][new] = NoNode)
    <3>1. n \notin BothIn(s, t, c)
      <4>1. IdOf(t, n) = new
        <5>1. t.attr[c][new] = n
          BY <1>3, <1>7, <1>8, <1>11 DEF Left
        <5> QED BY <1>2, <1>3, <1>9, <5>1, KidSound
      <4>2. ASSUME c \in Ordered PROVE Below(s, Root) # Below(t, Root)
        <5>1. PICK r : r = s.attr[c][new]
          OBVIOUS
        <5>2. r # NoNode
          BY <2>3, <4>2, <5>1
        <5>3. r \in T \ U
          BY <1>2, <1>3, <1>5, <5>1, <5>2, ReplacedGone
        <5>4. Below(s, Root) = T
          BY SoundTyped
        <5>5. Below(t, Root) = U
          BY <1>9, SoundTyped
        <5> QED BY <5>3, <5>4, <5>5
      <4>3. IdOf(s, n) # IdOf(t, n)
        BY <1>2, <1>3, <4>1
      <4> QED BY <4>2, <4>3 DEF BothIn
    <3>2. ASSUME NEW i \in M \cap Ids, NEW j \in M \cap Ids, s.attr[c][i] # NoNode, s.attr[c][i] = y.attr[c][j]
          PROVE  s.attr[c][i] = n
      BY <1>10, <1>11, <3>2
    <3>3. Apart(s, y, t, c, M)
      BY <3>1, <3>2 DEF Apart
    <3> QED BY <1>3, <1>7, <1>8, <1>9, <1>12, <2>3, <3>3, KeptFolder
  <2> QED BY <2>1, <2>2, <2>3
<1> QED BY <1>9, <1>13 DEF Orderly, OrderKept

\* Each operation that changes what the folders have, but for the paste of what was cut
LEMMA StepOrders ==
    ASSUME NEW CONSTANT s, s = Site, NEW CONSTANT T, Sound(s, T), ClipInv, TNext, attr' # attr, clip' = clip
    PROVE  Orderly(s)
<1>1. ASSUME NEW c \in Folders, NEW id \in Ids, NEW n \in Nodes, Add(c, id, n) PROVE Orderly(s)
  BY <1>1, AddOrders
<1>2. ASSUME NEW c \in Folders, NEW ids \in SUBSET Ids, DelObjects(c, ids) PROVE Orderly(s)
  BY <1>2, DelObjectsOrders
<1>3. \A c \in Folders, ids \in Selections : ~Cut(c, ids)
  BY DEF Cut
<1>4. \A c \in Folders, id \in Ids : ~Copy(c, id)
  BY DEF Copy
<1>5. \A c \in Folders : ~PasteMove(c)
  BY DEF PasteMove
<1>6. ASSUME NEW c \in Folders, PasteCopy(c) PROVE Orderly(s)
  BY <1>6, PasteCopyOrders
<1>7. ASSUME NEW c \in Folders, NEW n \in Nodes, NEW id \in Ids, Clone(c, n, id) PROVE Orderly(s)
  BY <1>7, CloneOrders
<1>8. ASSUME NEW c \in Folders, NEW id \in Ids, NEW new \in Ids, Rename(c, id, new) PROVE Orderly(s)
  BY <1>8, RenameOrders
<1>9. \A c \in Folders, ids \in Selections, down \in BOOLEAN, delta \in Deltas : ~MoveByDelta(c, ids, down, delta)
  BY DEF MoveByDelta
<1>10. \A n \in Nodes, token \in Tokens : ~SetLock(n, token) /\ ~DelLock(n, token)
  BY DEF SetLock, DelLock
<1> QED BY <1>1, <1>2, <1>3, <1>4, <1>5, <1>6, <1>7, <1>8, <1>9, <1>10 DEF TNext

\* No step changes the order of what stays.
LEMMA StepKeepsOrder == ASSUME TreeInv, ClipInv, [TNext]_tvars PROVE KeepsOrder
<1>1. PICK T : Sound(Site, T)
  BY DEF TreeInv
<1>2. PICK s : s = Site
  OBVIOUS
<1>3. ASSUME attr' # attr, clip' = clip PROVE \A c \in Folders : KeptIn(Site, Site', c)
  <2>1. TNext
    BY <1>3 DEF tvars
  <2>2. Orderly(s)
    BY <1>1, <1>2, <1>3, <2>1, StepOrders
  <2>3. PICK t : Site' = t /\ OrderKept(s, t)
    BY <2>2 DEF Orderly
  <2>4. \A c \in Folders : KeptIn(s, t, c)
    BY <2>3 DEF OrderKept
  <2> QED BY <1>2, <2>3, <2>4
<1>4. ASSUME attr' # attr, clip' = clip, NEW c \in Folders
      PROVE  LET Has(x, d) == [k \in DOMAIN x.list[d] |-> x.attr[d][x.list[d][k]]]
                 Stay(x, d, both) == Only(Has(x, d), both)
                 renamed == c \in Ordered /\ Below(Site, Root) = Below(Site', Root)
                 both == {n \in ToSet(Has(Site, c)) \cap ToSet(Has(Site', c)) :
                            renamed \/ IdOf(Site, n) = IdOf(Site', n)}
             IN  Stay(Site, c, both) = Stay(Site', c, both)
  <2>1. KeptIn(Site, Site', c)
    BY <1>3, <1>4
  <2> QED BY <2>1 DEF KeptIn, BothIn, HeldIn
<1> QED BY <1>4 DEF KeepsOrder

\* Whatever is added, deleted and renamed, the other objects of a folder keep their
\* order, and those of an ordered folder that are renamed keep their place.
THEOREM OrderStaysKept == TSpec => OrderIsKept
<1>1. (TreeInv /\ ClipInv) /\ [TNext]_tvars => KeepsOrder
  BY StepKeepsOrder
<1>2. TSpec => [][TNext]_tvars
  BY DEF TSpec
<1> QED BY <1>1, <1>2, TreeIsInvariant, PTL DEF OrderIsKept

=============================================================================
