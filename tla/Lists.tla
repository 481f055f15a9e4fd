------------------------------- MODULE Lists -------------------------------
(***************************************************************************)
(* What the list operations of the code (append, pop(0), +) do to the      *)
(* elements of a list, and to lists that hold some elements at most once.  *)
(***************************************************************************)
EXTENDS SequencesExt, TLAPS, SequenceTheorems, FiniteSetTheorems, WellFoundedInduction

\* No element of K is twice in s.
OnceIn(s, K) == \A i, j \in DOMAIN s : s[i] = s[j] /\ s[i] \in K => i = j

LEMMA ListRange ==
    ASSUME NEW S, NEW s \in Seq(S)
    PROVE  /\ Len(s) \in Nat /\ DOMAIN s = 1 .. Len(s)
           /\ Range(s) \subseteq S
           /\ \A i \in 1 .. Len(s) : s[i] \in S /\ s[i] \in Range(s)
           /\ \A x \in Range(s) : \E i \in 1 .. Len(s) : s[i] = x
           /\ s = <<>> <=> Len(s) = 0
           /\ s = <<>> <=> Range(s) = {}
<1>1. Len(s) \in Nat /\ DOMAIN s = 1 .. Len(s) /\ \A i \in 1 .. Len(s) : s[i] \in S
  OBVIOUS
<1>2. s = <<>> <=> Len(s) = 0
  BY EmptySeq
<1>3. /\ \A i \in 1 .. Len(s) : s[i] \in Range(s)
      /\ Range(s) \subseteq S
      /\ \A x \in Range(s) : \E i \in 1 .. Len(s) : s[i] = x
  BY <1>1 DEF Range
<1>4. Len(s) = 0 <=> Range(s) = {}
  <2>1. CASE Len(s) = 0
    BY <2>1, <1>3
  <2>2. CASE Len(s) # 0
    BY <2>2, <1>1, <1>3, 1 \in 1 .. Len(s)
  <2> QED BY <2>1, <2>2
<1> QED BY <1>1, <1>2, <1>3, <1>4

LEMMA EmptyList == Range(<<>>) = {} /\ \A K : OnceIn(<<>>, K)
BY DEF Range, OnceIn

LEMMA AppendRange ==
    ASSUME NEW S, NEW s \in Seq(S), NEW e \in S
    PROVE  /\ Append(s, e) \in Seq(S) /\ Append(s, e) # <<>>
           /\ Len(Append(s, e)) = Len(s) + 1
           /\ \A i \in 1 .. Len(s) : Append(s, e)[i] = s[i]
           /\ Append(s, e)[Len(s) + 1] = e
           /\ Range(Append(s, e)) = Range(s) \cup {e}
<1>1. /\ Append(s, e) \in Seq(S) /\ Append(s, e) # <<>>
      /\ Len(Append(s, e)) = Len(s) + 1
      /\ \A i \in 1 .. Len(s) : Append(s, e)[i] = s[i]
      /\ Append(s, e)[Len(s) + 1] = e
  BY AppendProperties
<1>2. /\ Len(s) \in Nat /\ DOMAIN s = 1 .. Len(s)
      /\ DOMAIN Append(s, e) = 1 .. Len(s) + 1
  BY <1>1
<1>3. ASSUME NEW x \in Range(Append(s, e)) PROVE x \in Range(s) \cup {e}
  <2>1. PICK i \in 1 .. Len(s) + 1 : x = Append(s, e)[i]
    BY <1>2 DEF Range
  <2> QED BY <2>1, <1>1, <1>2 DEF Range
<1>4. ASSUME NEW x \in Range(s) PROVE x \in Range(Append(s, e))
  <2>1. PICK i \in 1 .. Len(s) : x = s[i]
    BY <1>2 DEF Range
  <2> QED BY <2>1, <1>1, <1>2 DEF Range
<1>5. e \in Range(Append(s, e))
  BY <1>1, <1>2 DEF Range
<1> QED BY <1>1, <1>3, <1>4, <1>5

LEMMA OnceAppend ==
    ASSUME NEW S, NEW s \in Seq(S), NEW e \in S, NEW K,
           OnceIn(s, K), e \notin Range(s) \/ e \notin K
    PROVE  OnceIn(Append(s, e), K)
<1>1. /\ Len(s) \in Nat /\ DOMAIN s = 1 .. Len(s)
      /\ \A i \in 1 .. Len(s) : s[i] \in Range(s)
  BY ListRange
<1>2. /\ Len(Append(s, e)) = Len(s) + 1
      /\ \A i \in 1 .. Len(s) : Append(s, e)[i] = s[i]
      /\ Append(s, e)[Len(s) + 1] = e
      /\ Append(s, e) \in Seq(S)
  BY AppendRange
<1>3. DOMAIN Append(s, e) = 1 .. Len(s) + 1
  BY <1>1, <1>2
<1>4. \A i \in 1 .. Len(s) : s[i] # e \/ e \notin K
  BY <1>1
<1> QED BY <1>1, <1>2, <1>3, <1>4 DEF OnceIn

LEMMA TailRange ==
    ASSUME NEW S, NEW s \in Seq(S), s # <<>>
    PROVE  /\ Head(s) \in S /\ Tail(s) \in Seq(S)
           /\ Len(s) \in Nat \ {0} /\ Len(Tail(s)) = Len(s) - 1
           /\ Head(s) = s[1]
           /\ \A i \in 1 .. Len(Tail(s)) : Tail(s)[i] = s[i + 1]
           /\ Range(s) = Range(Tail(s)) \cup {Head(s)}
<1>1. /\ Head(s) \in S /\ Tail(s) \in Seq(S)
      /\ Len(Tail(s)) = Len(s) - 1
      /\ \A i \in 1 .. Len(Tail(s)) : Tail(s)[i] = s[i + 1]
  BY HeadTailProperties
<1>2. Len(s) \in Nat \ {0} /\ DOMAIN s = 1 .. Len(s) /\ Head(s) = s[1]
  BY EmptySeq
<1>3. DOMAIN Tail(s) = 1 .. Len(s) - 1
  BY <1>1
<1>4. ASSUME NEW x \in Range(s) PROVE x \in Range(Tail(s)) \cup {Head(s)}
  <2>1. PICK i \in 1 .. Len(s) : x = s[i]
    BY <1>2 DEF Range
  <2>2. CASE i = 1
    BY <2>1, <2>2, <1>2
  <2>3. CASE i # 1
    <3>1. i - 1 \in 1 .. Len(s) - 1 /\ Tail(s)[i - 1] = s[i]
      BY <2>3, <1>1, <1>2
    <3> QED BY <3>1, <2>1, <1>3 DEF Range
  <2> QED BY <2>2, <2>3
<1>5. ASSUME NEW x \in Range(Tail(s)) PROVE x \in Range(s)
  <2>1. PICK i \in 1 .. Len(s) - 1 : x = Tail(s)[i]
    BY <1>3 DEF Range
  <2>2. i + 1 \in 1 .. Len(s) /\ x = s[i + 1]
    BY <2>1, <1>1, <1>2
  <2> QED BY <2>2, <1>2 DEF Range
<1>6. Head(s) \in Range(s)
  BY <1>2 DEF Range
<1> QED BY <1>1, <1>2, <1>4, <1>5, <1>6

LEMMA OnceTail ==
    ASSUME NEW S, NEW s \in Seq(S), s # <<>>, NEW K, OnceIn(s, K)
    PROVE  /\ OnceIn(Tail(s), K)
           /\ Head(s) \in K => Head(s) \notin Range(Tail(s))
<1>1. /\ Tail(s) \in Seq(S)
      /\ Len(s) \in Nat \ {0} /\ Len(Tail(s)) = Len(s) - 1
      /\ Head(s) = s[1]
      /\ \A i \in 1 .. Len(Tail(s)) : Tail(s)[i] = s[i + 1]
  BY TailRange
<1>2. DOMAIN s = 1 .. Len(s) /\ DOMAIN Tail(s) = 1 .. Len(s) - 1
  BY <1>1
<1>3. OnceIn(Tail(s), K)
  BY <1>1, <1>2 DEF OnceIn
<1>4. \A i \in 1 .. Len(s) - 1 : Head(s) \in K => Tail(s)[i] # Head(s)
  BY <1>1, <1>2 DEF OnceIn
<1> QED BY <1>2, <1>3, <1>4 DEF Range

-----------------------------------------------------------------------------
(* Induction and recursion.  A property is the set of what has it, since the *)
(* provers cannot instantiate a theorem with an operator.                     *)

NatBefore == {p \in Nat \X Nat : p[1] < p[2]}

\* Induction over the naturals, for a property given as the set that has it.
LEMMA NatSetInduction ==
    ASSUME NEW F, 0 \in F, \A n \in Nat : n \in F => n + 1 \in F
    PROVE  Nat \subseteq F
<1>0. IsWellFoundedOn(NatBefore, Nat)
  BY NatLessThanWellFounded DEF OpToRel, NatBefore
<1>1. SUFFICES ASSUME Nat \ F # {} PROVE FALSE
  OBVIOUS
<1>2. PICK x \in Nat \ F : \A y \in Nat \ F : ~(<<y, x>> \in NatBefore)
  BY <1>0, <1>1, WFMin
<1>3. x # 0 /\ x - 1 \in Nat /\ x - 1 < x
  BY <1>2
<1>4. <<x - 1, x>> \in NatBefore
  BY <1>3 DEF NatBefore
<1> QED BY <1>2, <1>3, <1>4

\* The subsets of S with at most n elements
UpTo(S, n) == {s \in SUBSET S : Cardinality(s) <= n}

\* C picks an element of each nonempty subset of S.
Picks(C, S) == \A s \in SUBSET S : s # {} => C[s] \in s

LEMMA UpToStep ==
    ASSUME NEW S, IsFiniteSet(S), NEW n \in Nat, NEW s \in UpTo(S, n + 1), NEW x \in s
    PROVE  s \ {x} \in UpTo(S, n)
<1>1. IsFiniteSet(s) /\ Cardinality(s) <= n + 1 /\ Cardinality(s) \in Nat
  BY FS_Subset, FS_CardinalityType DEF UpTo
<1>2. Cardinality(s \ {x}) = Cardinality(s) - 1
  BY <1>1, FS_RemoveElement
<1> QED BY <1>1, <1>2 DEF UpTo

LEMMA UpToAll ==
    ASSUME NEW S, IsFiniteSet(S)
    PROVE  Cardinality(S) \in Nat /\ UpTo(S, Cardinality(S)) = SUBSET S /\ UpTo(S, 0) = {{}}
<1>1. Cardinality(S) \in Nat /\ \A s \in SUBSET S : IsFiniteSet(s) /\ Cardinality(s) <= Cardinality(S) /\ Cardinality(s) \in Nat
  BY FS_CardinalityType, FS_Subset
<1>2. \A s \in SUBSET S : Cardinality(s) = 0 <=> s = {}
  BY <1>1, FS_EmptySet
<1> QED BY <1>1, <1>2 DEF UpTo

\* Induction over the subsets of a finite set, which lose the elements that C picks.
LEMMA SubsetInduction ==
    ASSUME NEW S, IsFiniteSet(S), NEW C, Picks(C, S), NEW F, {} \in F,
           \A s \in SUBSET S : s # {} /\ s \ {C[s]} \in F => s \in F
    PROVE  \A s \in SUBSET S : s \in F
<1> DEFINE N == {n \in Nat : UpTo(S, n) \subseteq F}
<1>1. 0 \in N
  BY UpToAll
<1>2. ASSUME NEW n \in Nat, n \in N PROVE n + 1 \in N
  <2>1. ASSUME NEW s \in UpTo(S, n + 1) PROVE s \in F
    <3>1. CASE s = {}
      BY <3>1
    <3>2. CASE s # {}
      <4>1. s \in SUBSET S /\ C[s] \in s
        BY <3>2 DEF UpTo, Picks
      <4>2. s \ {C[s]} \in UpTo(S, n)
        BY <4>1, UpToStep
      <4>3. s \ {C[s]} \in F
        BY <4>2, <1>2
      <4> QED BY <3>2, <4>1, <4>3
    <3> QED BY <3>1, <3>2
  <2> QED BY <2>1
<1>3. Nat \subseteq N
  <2> HIDE DEF N
  <2> QED BY <1>1, <1>2, NatSetInduction
<1> QED BY <1>3, UpToAll

\* A fold over a finite set is defined: G takes an element and what the rest gave.
FoldOf(f, b, C, G, T) ==
    f = [s \in T |-> IF s = {} THEN b ELSE G[<<C[s], f[s \ {C[s]}]>>]]

LEMMA FoldStep ==
    ASSUME NEW S, IsFiniteSet(S), NEW C, Picks(C, S), NEW D, NEW b \in D, NEW G \in [S \X D -> D],
           NEW n \in Nat, NEW f \in [UpTo(S, n) -> D], FoldOf(f, b, C, G, UpTo(S, n))
    PROVE  \E g \in [UpTo(S, n + 1) -> D] : FoldOf(g, b, C, G, UpTo(S, n + 1))
<1> DEFINE g == [s \in UpTo(S, n + 1) |-> IF s = {} THEN b ELSE G[<<C[s], f[s \ {C[s]}]>>]]
<1>1. ASSUME NEW s \in UpTo(S, n + 1), s # {} PROVE C[s] \in S /\ s \ {C[s]} \in UpTo(S, n)
  <2>1. s \in SUBSET S /\ C[s] \in s
    BY <1>1 DEF UpTo, Picks
  <2> QED BY <2>1, UpToStep
<1>2. g \in [UpTo(S, n + 1) -> D]
  <2>1. ASSUME NEW s \in UpTo(S, n + 1) PROVE g[s] \in D
    BY <1>1
  <2> QED BY <2>1
<1>3. ASSUME NEW t \in UpTo(S, n) PROVE g[t] = f[t]
  <2>1. t \in UpTo(S, n + 1)
    <3>1. Cardinality(t) \in Nat
      BY FS_Subset, FS_CardinalityType DEF UpTo
    <3> QED BY <3>1 DEF UpTo
  <2>2. f[t] = IF t = {} THEN b ELSE G[<<C[t], f[t \ {C[t]}]>>]
    BY DEF FoldOf
  <2> QED BY <2>1, <2>2
<1>4. ASSUME NEW s \in UpTo(S, n + 1), s # {} PROVE g[s] = G[<<C[s], g[s \ {C[s]}]>>]
  <2>1. g[s \ {C[s]}] = f[s \ {C[s]}]
    BY <1>1, <1>3, <1>4
  <2>2. g[s] = G[<<C[s], f[s \ {C[s]}]>>]
    BY <1>4
  <2> QED BY <2>1, <2>2
<1>5. FoldOf(g, b, C, G, UpTo(S, n + 1))
  <2>1. \A s \in UpTo(S, n + 1) : g[s] = IF s = {} THEN b ELSE G[<<C[s], g[s \ {C[s]}]>>]
    BY <1>4
  <2>2. g = [s \in UpTo(S, n + 1) |-> g[s]]
    OBVIOUS
  <2> HIDE DEF g
  <2>3. [s \in UpTo(S, n + 1) |-> g[s]] = [s \in UpTo(S, n + 1) |-> IF s = {} THEN b ELSE G[<<C[s], g[s \ {C[s]}]>>]]
    BY <2>1
  <2> QED BY <2>2, <2>3 DEF FoldOf
<1> QED BY <1>2, <1>5

LEMMA FoldDefined ==
    ASSUME NEW S, IsFiniteSet(S), NEW C, Picks(C, S), NEW D, NEW b \in D, NEW G \in [S \X D -> D]
    PROVE  \E f \in [SUBSET S -> D] : FoldOf(f, b, C, G, SUBSET S)
<1> DEFINE N == {n \in Nat : \E f \in [UpTo(S, n) -> D] : FoldOf(f, b, C, G, UpTo(S, n))}
<1>1. 0 \in N
  <2> DEFINE f == [s \in {{}} |-> b]
  <2>1. f \in [{{}} -> D] /\ f = [s \in {{}} |-> IF s = {} THEN b ELSE G[<<C[s], f[s \ {C[s]}]>>]]
    OBVIOUS
  <2>2. FoldOf(f, b, C, G, {{}})
    BY <2>1 DEF FoldOf
  <2> QED BY <2>1, <2>2, UpToAll
<1>2. ASSUME NEW n \in Nat, n \in N PROVE n + 1 \in N
  BY <1>2, FoldStep
<1>3. Nat \subseteq N
  <2> HIDE DEF N
  <2> QED BY <1>1, <1>2, NatSetInduction
<1>4. \A n \in Nat : \E f \in [UpTo(S, n) -> D] : FoldOf(f, b, C, G, UpTo(S, n))
  BY <1>3
<1>5. \E f \in [UpTo(S, Cardinality(S)) -> D] : FoldOf(f, b, C, G, UpTo(S, Cardinality(S)))
  BY <1>4, UpToAll
<1> QED BY <1>5, UpToAll

\* A function by recursion over the naturals is defined.
Iterates(f, d, G, n) == f = [k \in 0 .. n |-> IF k = 0 THEN d ELSE G[f[k - 1]]]

LEMMA StepsDefined ==
    ASSUME NEW D, NEW d \in D, NEW G \in [D -> D]
    PROVE  \A n \in Nat : \E f \in [0 .. n -> D] : Iterates(f, d, G, n)
<1> DEFINE N == {m \in Nat : \E f \in [0 .. m -> D] : Iterates(f, d, G, m)}
<1>1. 0 \in N
  <2> DEFINE f == [k \in 0 .. 0 |-> d]
  <2>1. f \in [0 .. 0 -> D] /\ Iterates(f, d, G, 0)
    BY DEF Iterates
  <2> QED BY <2>1
<1>2. ASSUME NEW m \in Nat, m \in N PROVE m + 1 \in N
  <2>1. PICK f \in [0 .. m -> D] : Iterates(f, d, G, m)
    BY <1>2
  <2> DEFINE g == [k \in 0 .. m + 1 |-> IF k = 0 THEN d ELSE G[f[k - 1]]]
  <2>2. g \in [0 .. m + 1 -> D]
    OBVIOUS
  <2>3. \A k \in 0 .. m : g[k] = f[k]
    BY <2>1 DEF Iterates
  <2>4. ASSUME NEW k \in 0 .. m + 1 PROVE g[k] = IF k = 0 THEN d ELSE G[g[k - 1]]
    <3>1. CASE k = 0
      BY <3>1
    <3>2. CASE k # 0
      <4>1. k - 1 \in 0 .. m
        BY <3>2
      <4> QED BY <3>2, <4>1, <2>3
    <3> QED BY <3>1, <3>2
  <2>5. Iterates(g, d, G, m + 1)
    <3>1. g = [k \in 0 .. m + 1 |-> g[k]]
      OBVIOUS
    <3> HIDE DEF g
    <3> QED BY <2>4, <3>1 DEF Iterates
  <2> HIDE DEF g
  <2> QED BY <2>2, <2>5
<1>3. Nat \subseteq N
  <2> HIDE DEF N
  <2> QED BY <1>1, <1>2, NatSetInduction
<1> QED BY <1>3

\* A function by recursion over the naturals whose steps know their number.
RunsOf(f, d, G, n) == f = [k \in 0 .. n |-> IF k = 0 THEN d ELSE G[<<k, f[k - 1]>>]]

\* Such a function exists.
LEMMA RunsDefined ==
    ASSUME NEW D, NEW d \in D, NEW G \in [(Nat \ {0}) \X D -> D]
    PROVE  \A n \in Nat : \E f \in [0 .. n -> D] : RunsOf(f, d, G, n)
<1> DEFINE N == {m \in Nat : \E f \in [0 .. m -> D] : RunsOf(f, d, G, m)}
<1>1. 0 \in N
  <2> DEFINE f == [k \in 0 .. 0 |-> d]
  <2>1. f \in [0 .. 0 -> D] /\ RunsOf(f, d, G, 0)
    BY DEF RunsOf
  <2> QED BY <2>1
<1>2. ASSUME NEW m \in Nat, m \in N PROVE m + 1 \in N
  <2>1. PICK f \in [0 .. m -> D] : RunsOf(f, d, G, m)
    BY <1>2
  <2> DEFINE g == [k \in 0 .. m + 1 |-> IF k = 0 THEN d ELSE G[<<k, f[k - 1]>>]]
  <2>2. g \in [0 .. m + 1 -> D]
    OBVIOUS
  <2>3. \A k \in 0 .. m : g[k] = f[k]
    BY <2>1 DEF RunsOf
  <2>4. ASSUME NEW k \in 0 .. m + 1 PROVE g[k] = IF k = 0 THEN d ELSE G[<<k, g[k - 1]>>]
    <3>1. CASE k = 0
      BY <3>1
    <3>2. CASE k # 0
      <4>1. k - 1 \in 0 .. m
        BY <3>2
      <4> QED BY <3>2, <4>1, <2>3
    <3> QED BY <3>1, <3>2
  <2>5. RunsOf(g, d, G, m + 1)
    <3>1. g = [k \in 0 .. m + 1 |-> g[k]]
      OBVIOUS
    <3> HIDE DEF g
    <3> QED BY <2>4, <3>1 DEF RunsOf
  <2> HIDE DEF g
  <2> QED BY <2>2, <2>5
<1>3. Nat \subseteq N
  <2> HIDE DEF N
  <2> QED BY <1>1, <1>2, NatSetInduction
<1> QED BY <1>3

\* Bounds of finite sets of numbers.
LEMMA HasBounds ==
    ASSUME NEW n \in Nat, NEW u \in SUBSET (1 .. n), u # {}
    PROVE  /\ \E x \in u : \A y \in u : x <= y
           /\ \E x \in u : \A y \in u : x >= y
<1> DEFINE Bounded(v) == /\ \E x \in v : \A y \in v : x <= y
                         /\ \E x \in v : \A y \in v : x >= y
           N == {m \in Nat : \A v \in SUBSET (1 .. m) : v # {} => Bounded(v)}
<1>1. 0 \in N
  <2>1. \A v \in SUBSET (1 .. 0) : v = {}
    OBVIOUS
  <2> HIDE DEF Bounded
  <2> QED BY <2>1
<1>2. ASSUME NEW m \in Nat, m \in N PROVE m + 1 \in N
  <2>1. ASSUME NEW v \in SUBSET (1 .. m + 1), v # {} PROVE Bounded(v)
    <3>1. CASE m + 1 \notin v
      <4>1. v \in SUBSET (1 .. m)
        BY <3>1
      <4> QED BY <4>1, <2>1, <1>2
    <3>2. CASE v = {m + 1}
      BY <3>2
    <3>3. CASE m + 1 \in v /\ v # {m + 1}
      <4>0. PICK z \in v : z # m + 1
        BY <3>3
      <4>1. v \cap (1 .. m) # {} /\ v \cap (1 .. m) \in SUBSET (1 .. m)
        BY <4>0
      <4>2. PICK x \in v \cap (1 .. m) : \A y \in v \cap (1 .. m) : x <= y
        BY <4>1, <1>2
      <4>3. \A y \in v : x <= y /\ m + 1 >= y
        <5>1. ASSUME NEW y \in v PROVE x <= y /\ m + 1 >= y
          <6>1. y = m + 1 \/ y \in v \cap (1 .. m)
            BY <2>1, <5>1
          <6> QED BY <6>1, <4>2
        <5> QED BY <5>1
      <4>4. x \in v
        OBVIOUS
      <4> QED BY <3>3, <4>3, <4>4
    <3> QED BY <3>1, <3>2, <3>3
  <2> HIDE DEF Bounded
  <2> QED BY <2>1
<1>3. Nat \subseteq N
  <2> HIDE DEF N
  <2> QED BY <1>1, <1>2, NatSetInduction
<1> QED BY <1>3

\* The greatest of a set of numbers
LEMMA MaxIs ==
    ASSUME NEW n \in Nat, NEW u \in SUBSET (1 .. n), u # {}
    PROVE  Max(u) \in u /\ \A y \in u : Max(u) >= y
BY HasBounds DEF Max

\* The function by which a fold over a list is computed: G takes the place of an
\* element and what those before it gave.
FoldsUp(f, b, G, n) ==
    /\ f = [u \in SUBSET (1 .. n) |-> f[u]] /\ f[{}] = b
    /\ \A u \in SUBSET (1 .. n) : u # {} => f[u] = G[<<Max(u), f[u \ {Max(u)}]>>]

\* A set without its greatest element
LEMMA PeelMax ==
    ASSUME NEW n \in Nat, NEW u \in SUBSET (1 .. n), u # {}
    PROVE  Max(u) \in 1 .. n /\ u \ {Max(u)} \in SUBSET (1 .. n)
BY MaxIs

\* A fold over a list exists, as a function of the positions taken.
LEMMA FoldUp ==
    ASSUME NEW n \in Nat, NEW D, NEW b \in D, NEW G \in [(1 .. n) \X D -> D]
    PROVE  \E f \in [SUBSET (1 .. n) -> D] : FoldsUp(f, b, G, n)
<1> DEFINE S == 1 .. n
           C == [u \in SUBSET S |-> Max(u)]
<1>1. IsFiniteSet(S)
  BY FS_Interval
<1>2. Picks(C, S)
  <2>1. ASSUME NEW u \in SUBSET S, u # {} PROVE Max(u) \in u
    BY <2>1, MaxIs
  <2> QED BY <2>1 DEF Picks
<1>3. PICK f \in [SUBSET S -> D] : FoldOf(f, b, C, G, SUBSET S)
  <2> HIDE DEF S, C
  <2>1. G \in [S \X D -> D]
    BY DEF S
  <2> QED BY <1>1, <1>2, <2>1, FoldDefined
<1>4. ASSUME NEW u \in SUBSET S, u # {} PROVE f[u] = G[<<Max(u), f[u \ {Max(u)}]>>]
  <2>1. C[u] = Max(u)
    OBVIOUS
  <2> HIDE DEF S, C
  <2> QED BY <1>3, <1>4, <2>1 DEF FoldOf
<1>5. f[{}] = b /\ f = [u \in SUBSET S |-> f[u]]
  <2>1. {} \in SUBSET S
    OBVIOUS
  <2> HIDE DEF S, C
  <2> QED BY <1>3, <2>1 DEF FoldOf
<1> HIDE DEF C
<1> QED BY <1>3, <1>4, <1>5 DEF FoldsUp

\* Induction along a fold over a list
LEMMA FoldInduction ==
    ASSUME NEW n \in Nat, NEW F, {} \in F,
           \A u \in SUBSET (1 .. n) : u # {} /\ u \ {Max(u)} \in F => u \in F
    PROVE  \A u \in SUBSET (1 .. n) : u \in F
<1> DEFINE S == 1 .. n
           C == [u \in SUBSET S |-> Max(u)]
<1>1. IsFiniteSet(S)
  BY FS_Interval
<1>2. Picks(C, S)
  <2>1. ASSUME NEW u \in SUBSET S, u # {} PROVE Max(u) \in u
    BY <2>1, MaxIs
  <2> QED BY <2>1 DEF Picks
<1>3. ASSUME NEW u \in SUBSET S, u # {}, u \ {C[u]} \in F PROVE u \in F
  <2>1. C[u] = Max(u)
    OBVIOUS
  <2> HIDE DEF C
  <2> QED BY <1>3, <2>1
<1>4. \A u \in SUBSET S : u \in F
  <2> HIDE DEF S, C
  <2> QED BY <1>1, <1>2, <1>3, SubsetInduction
<1> QED BY <1>4

\* SetToSeq lists each element of a finite set once.
LEMMA SeqOfSet ==
    ASSUME NEW S, IsFiniteSet(S)
    PROVE  /\ Cardinality(S) \in Nat
           /\ SetToSeq(S) \in [1 .. Cardinality(S) -> S]
           /\ \A i, j \in 1 .. Cardinality(S) : SetToSeq(S)[i] = SetToSeq(S)[j] => i = j
           /\ \A x \in S : \E i \in 1 .. Cardinality(S) : SetToSeq(S)[i] = x
<1> DEFINE n == Cardinality(S)
<1>1. n \in Nat /\ ExistsBijection(1 .. n, S)
  BY FS_CardinalityType
<1>2. \E f \in [1 .. n -> S] : IsInjective(f)
  BY <1>1 DEF ExistsBijection, Bijection, Injection, IsInjective
<1>3. SetToSeq(S) \in [1 .. n -> S] /\ IsInjective(SetToSeq(S))
  BY <1>2 DEF SetToSeq
<1> HIDE DEF n
<1>4. DOMAIN SetToSeq(S) = 1 .. n
  BY <1>3
<1>5. IsFiniteSet(1 .. n) /\ Cardinality(1 .. n) = n
  BY <1>1, FS_Interval
<1>6. PICK f : f = SetToSeq(S)
  OBVIOUS
<1>7. f \in Injection(1 .. n, S)
  BY <1>3, <1>6 DEF Injection, IsInjective
<1>8. f \in Surjection(1 .. n, S)
  BY <1>5, <1>7, FS_Injection DEF n
<1>9. \A x \in S : \E i \in 1 .. n : f[i] = x
  BY <1>8 DEF Surjection
<1> QED BY <1>1, <1>3, <1>4, <1>6, <1>9 DEF IsInjective, n

\* From every object of S that is not in base, up leads to one that is less deep.
LeadsUp(S, base, up, depth, K) ==
    /\ K \in Nat /\ depth \in [S -> 0 .. K] /\ base \subseteq S /\ up \in [S \ base -> S]
    /\ \A n \in S \ base : depth[up[n]] < depth[n]

\* A function by recursion up the tree, for objects up to a depth
WithinReach(S, depth, k) == {n \in S : depth[n] <= k}
ClimbsOf(f, base, up, b, G, V) ==
    f = [n \in V |-> IF n \in base THEN b[n] ELSE G[<<n, f[up[n]]>>]]

\* Induction from what is at the top
LEMMA UpInduction ==
    ASSUME NEW S, NEW base, NEW up, NEW depth, NEW K, LeadsUp(S, base, up, depth, K),
           NEW F, base \subseteq F, \A n \in S \ base : up[n] \in F => n \in F
    PROVE  S \subseteq F
<1> DEFINE N == {k \in Nat : WithinReach(S, depth, k) \subseteq F}
<1>0. K \in Nat /\ \A n \in S : depth[n] \in 0 .. K
  BY DEF LeadsUp
<1>1. ASSUME NEW n \in S \ base PROVE up[n] \in S /\ depth[up[n]] < depth[n]
  BY DEF LeadsUp
<1>2. 0 \in N
  <2>1. ASSUME NEW n \in WithinReach(S, depth, 0) PROVE n \in base
    <3>1. n \in S /\ depth[n] <= 0
      BY DEF WithinReach
    <3>2. CASE n \notin base
      BY <1>0, <1>1, <3>1, <3>2
    <3> QED BY <3>2
  <2> QED BY <2>1
<1>3. ASSUME NEW k \in Nat, k \in N PROVE k + 1 \in N
  <2>1. ASSUME NEW n \in WithinReach(S, depth, k + 1) PROVE n \in F
    <3>1. n \in S /\ depth[n] <= k + 1
      BY DEF WithinReach
    <3>2. CASE n \notin base
      <4>1. up[n] \in S /\ depth[up[n]] <= k
        BY <1>0, <1>1, <3>1, <3>2
      <4>2. up[n] \in F
        BY <1>3, <4>1 DEF WithinReach
      <4> QED BY <3>1, <3>2, <4>2
    <3> QED BY <3>2
  <2> QED BY <2>1
<1>4. Nat \subseteq N
  <2> HIDE DEF N
  <2> QED BY <1>2, <1>3, NatSetInduction
<1> QED BY <1>0, <1>4 DEF WithinReach

\* A function that climbs to the top exists.
LEMMA UpDefined ==
    ASSUME NEW S, NEW base, NEW up, NEW depth, NEW K, LeadsUp(S, base, up, depth, K),
           NEW D, NEW b \in [base -> D], NEW G \in [S \X D -> D]
    PROVE  \E f \in [S -> D] : ClimbsOf(f, base, up, b, G, S)
<1> DEFINE V(k) == WithinReach(S, depth, k)
           N == {k \in Nat : \E f \in [V(k) -> D] : ClimbsOf(f, base, up, b, G, V(k))}
<1>0. K \in Nat /\ \A n \in S : depth[n] \in 0 .. K
  BY DEF LeadsUp
<1>1. ASSUME NEW n \in S \ base PROVE up[n] \in S /\ depth[up[n]] < depth[n]
  BY DEF LeadsUp
<1>2. 0 \in N
  <2>1. ASSUME NEW n \in V(0) PROVE n \in base
    <3>1. n \in S /\ depth[n] <= 0
      BY DEF WithinReach
    <3>2. CASE n \notin base
      BY <1>0, <1>1, <3>1, <3>2
    <3> QED BY <3>2
  <2> DEFINE f == [n \in V(0) |-> b[n]]
  <2> HIDE DEF V
  <2>2. f \in [V(0) -> D]
    BY <2>1
  <2>3. \A n \in V(0) : f[n] = IF n \in base THEN b[n] ELSE G[<<n, f[up[n]]>>]
    BY <2>1
  <2>4. f = [n \in V(0) |-> f[n]]
    OBVIOUS
  <2> HIDE DEF f
  <2>5. ClimbsOf(f, base, up, b, G, V(0))
    BY <2>3, <2>4 DEF ClimbsOf
  <2> QED BY <2>2, <2>5
<1>3. ASSUME NEW k \in Nat, k \in N PROVE k + 1 \in N
  <2>1. PICK f \in [V(k) -> D] : ClimbsOf(f, base, up, b, G, V(k))
    BY <1>3
  <2>2. ASSUME NEW n \in V(k + 1), n \notin base PROVE n \in S /\ up[n] \in V(k)
    <3>1. n \in S /\ depth[n] <= k + 1
      BY DEF WithinReach
    <3>2. up[n] \in S /\ depth[up[n]] <= k
      BY <1>0, <1>1, <2>2, <3>1
    <3> QED BY <3>1, <3>2 DEF WithinReach
  <2>3. V(k) \subseteq V(k + 1)
    BY <1>0 DEF WithinReach
  <2> DEFINE g == [n \in V(k + 1) |-> IF n \in base THEN b[n] ELSE G[<<n, f[up[n]]>>]]
  <2> HIDE DEF V
  <2>4. g \in [V(k + 1) -> D]
    BY <2>2
  <2>5. \A n \in V(k) : g[n] = f[n]
    BY <2>1, <2>3 DEF ClimbsOf
  <2>6. \A n \in V(k + 1) : g[n] = IF n \in base THEN b[n] ELSE G[<<n, g[up[n]]>>]
    BY <2>2, <2>5
  <2>7. g = [n \in V(k + 1) |-> g[n]]
    OBVIOUS
  <2> HIDE DEF g
  <2>8. ClimbsOf(g, base, up, b, G, V(k + 1))
    BY <2>6, <2>7 DEF ClimbsOf
  <2> QED BY <2>4, <2>8
<1>4. Nat \subseteq N
  <2> HIDE DEF N
  <2> QED BY <1>2, <1>3, NatSetInduction
<1>5. V(K) = S
  BY <1>0 DEF WithinReach
<1> HIDE DEF V
<1> QED BY <1>0, <1>4, <1>5

\* A list of different elements, these
ListsEach(x, S, X, n) == x \in Seq(S) /\ Len(x) = n /\ ToSet(x) = X /\ OnceIn(x, S)

Removed(S, x, n, k, y) ==
    /\ y \in Seq(S) /\ Len(y) = n - 1
    /\ \A j \in 1 .. n - 1 : y[j] = IF j < k THEN x[j] ELSE x[j + 1]
Inserted(S, x, n, k, e, y) ==
    /\ y \in Seq(S) /\ Len(y) = n + 1
    /\ \A j \in 1 .. n + 1 : y[j] = IF j < k THEN x[j] ELSE IF j = k THEN e ELSE x[j - 1]

\* What is after the removed element moves up by one.
LEMMA RemoveAtEach ==
    ASSUME NEW S, NEW x \in Seq(S), NEW n \in Nat, Len(x) = n, NEW k \in 1 .. n
    PROVE  Removed(S, x, n, k, RemoveAt(x, k))
<1>0. \A j \in 1 .. n : x[j] \in S
  OBVIOUS
<1> DEFINE a == SubSeq(x, 1, k - 1)
           b == SubSeq(x, k + 1, n)
           y == a \o b
<1>1. a \in Seq(S) /\ Len(a) = k - 1 /\ \A j \in 1 .. k - 1 : a[j] = x[j]
  BY <1>0, SubSeqProperties
<1>2. b \in Seq(S) /\ Len(b) = n - k /\ \A j \in 1 .. n - k : b[j] = x[k + j]
  BY <1>0, SubSeqProperties
<1>3. RemoveAt(x, k) = y
  BY <1>0 DEF RemoveAt
<1> HIDE DEF a, b
<1>4. /\ y \in Seq(S) /\ Len(y) = n - 1
      /\ \A j \in 1 .. n - 1 : y[j] = IF j <= k - 1 THEN a[j] ELSE b[j - (k - 1)]
  <2>1. /\ a \o b \in Seq(S) /\ Len(a \o b) = Len(a) + Len(b)
        /\ \A i \in 1 .. Len(a) + Len(b) : (a \o b)[i] = IF i <= Len(a) THEN a[i] ELSE b[i - Len(a)]
    BY <1>1, <1>2, ConcatProperties
  <2> QED BY <1>1, <1>2, <2>1
<1> HIDE DEF y
<1>5. \A j \in 1 .. n - 1 : y[j] = IF j < k THEN x[j] ELSE x[j + 1]
  <2>1. ASSUME NEW j \in 1 .. n - 1 PROVE y[j] = IF j < k THEN x[j] ELSE x[j + 1]
    <3>1. CASE j < k
      BY <1>1, <1>4, <3>1
    <3>2. CASE j >= k
      <4>1. j - (k - 1) \in 1 .. n - k /\ k + (j - (k - 1)) = j + 1
        BY <3>2
      <4> QED BY <1>2, <1>4, <3>2, <4>1
    <3> QED BY <3>1, <3>2
  <2> QED BY <2>1
<1> QED BY <1>3, <1>4, <1>5 DEF Removed

\* A list without one of its positions
LEMMA RemoveAtIs ==
    ASSUME NEW S, NEW x, NEW X, NEW n \in Nat, ListsEach(x, S, X, n), NEW k \in 1 .. n
    PROVE  ListsEach(RemoveAt(x, k), S, X \ {x[k]}, n - 1)
<1>0. x \in Seq(S) /\ Len(x) = n /\ DOMAIN x = 1 .. n /\ \A j \in 1 .. n : x[j] \in S
  BY DEF ListsEach
<1>3. PICK y : y = RemoveAt(x, k)
  OBVIOUS
<1>4. y \in Seq(S) /\ Len(y) = n - 1 /\ \A j \in 1 .. n - 1 : y[j] = IF j < k THEN x[j] ELSE x[j + 1]
  <2>1. Removed(S, x, n, k, RemoveAt(x, k))
    BY <1>0, RemoveAtEach
  <2> QED BY <1>3, <2>1 DEF Removed
<1>5. \A j \in 1 .. n - 1 : y[j] = IF j < k THEN x[j] ELSE x[j + 1]
  BY <1>4
<1>6. DOMAIN y = 1 .. n - 1
  BY <1>4
<1>7. \A i, j \in 1 .. n : x[i] = x[j] => i = j
  BY <1>0 DEF ListsEach, OnceIn
<1>8. OnceIn(y, S)
  <2>1. ASSUME NEW i \in 1 .. n - 1, NEW j \in 1 .. n - 1, y[i] = y[j] PROVE i = j
    <3> DEFINE P(m) == IF m < k THEN m ELSE m + 1
    <3>1. P(i) \in 1 .. n /\ P(j) \in 1 .. n /\ y[i] = x[P(i)] /\ y[j] = x[P(j)]
      BY <1>5
    <3>2. P(i) = P(j)
      <4> HIDE DEF P
      <4> QED BY <1>7, <2>1, <3>1
    <3> QED BY <3>2
  <2> QED BY <1>6, <2>1 DEF OnceIn
<1>9. ToSet(y) = X \ {x[k]}
  <2>1. X = {x[j] : j \in 1 .. n} /\ ToSet(y) = {y[j] : j \in 1 .. n - 1}
    BY <1>0, <1>6 DEF ListsEach, ToSet
  <2>2. ASSUME NEW j \in 1 .. n - 1 PROVE y[j] \in X \ {x[k]}
    <3>1. CASE j < k
      BY <1>5, <1>7, <2>1, <3>1
    <3>2. CASE j >= k
      <4>1. j + 1 \in 1 .. n /\ j + 1 # k
        BY <3>2
      <4> QED BY <1>5, <1>7, <2>1, <3>2, <4>1
    <3> QED BY <3>1, <3>2
  <2>3. ASSUME NEW j \in 1 .. n, x[j] # x[k] PROVE x[j] \in ToSet(y)
    <3>1. CASE j < k
      BY <1>5, <2>1, <3>1
    <3>2. CASE j > k
      <4>1. j - 1 \in 1 .. n - 1 /\ ~(j - 1 < k) /\ (j - 1) + 1 = j
        BY <3>2
      <4> QED BY <1>5, <2>1, <4>1
    <3> QED BY <2>3, <3>1, <3>2
  <2> QED BY <2>1, <2>2, <2>3
<1> QED BY <1>3, <1>4, <1>8, <1>9 DEF ListsEach

\* What is after the inserted element moves down by one.
LEMMA InsertAtEach ==
    ASSUME NEW S, NEW x \in Seq(S), NEW n \in Nat, Len(x) = n, NEW k \in 1 .. n + 1, NEW e \in S
    PROVE  Inserted(S, x, n, k, e, InsertAt(x, k, e))
<1>0. \A j \in 1 .. n : x[j] \in S
  OBVIOUS
<1> DEFINE a == SubSeq(x, 1, k - 1)
           b == SubSeq(x, k, n)
           c == a \o <<e>>
           y == c \o b
<1>1. a \in Seq(S) /\ Len(a) = k - 1 /\ \A j \in 1 .. k - 1 : a[j] = x[j]
  BY <1>0, SubSeqProperties
<1>2. b \in Seq(S) /\ Len(b) = n - k + 1 /\ \A j \in 1 .. n - k + 1 : b[j] = x[k + j - 1]
  BY <1>0, SubSeqProperties
<1>3. InsertAt(x, k, e) = y
  BY <1>0 DEF InsertAt
<1> HIDE DEF a, b
<1>c. c \in Seq(S) /\ Len(c) = k /\ c[k] = e /\ \A j \in 1 .. k - 1 : c[j] = a[j]
  <2>1. /\ c \in Seq(S) /\ Len(c) = Len(a) + Len(<<e>>)
        /\ \A i \in 1 .. Len(a) + Len(<<e>>) : c[i] = IF i <= Len(a) THEN a[i] ELSE <<e>>[i - Len(a)]
    <3>1. <<e>> \in Seq(S)
      OBVIOUS
    <3> QED BY <1>1, <3>1, ConcatProperties
  <2>2. Len(<<e>>) = 1 /\ <<e>>[1] = e
    OBVIOUS
  <2> HIDE DEF c
  <2> QED BY <1>1, <2>1, <2>2
<1> HIDE DEF c
<1>4. /\ y \in Seq(S) /\ Len(y) = n + 1
      /\ \A j \in 1 .. n + 1 : y[j] = IF j <= k THEN c[j] ELSE b[j - k]
  <2>1. /\ c \o b \in Seq(S) /\ Len(c \o b) = Len(c) + Len(b)
        /\ \A i \in 1 .. Len(c) + Len(b) : (c \o b)[i] = IF i <= Len(c) THEN c[i] ELSE b[i - Len(c)]
    BY <1>c, <1>2, ConcatProperties
  <2> QED BY <1>c, <1>2, <2>1
<1> HIDE DEF y
<1>5. \A j \in 1 .. n + 1 : y[j] = IF j < k THEN x[j] ELSE IF j = k THEN e ELSE x[j - 1]
  <2>1. ASSUME NEW j \in 1 .. n + 1 PROVE y[j] = IF j < k THEN x[j] ELSE IF j = k THEN e ELSE x[j - 1]
    <3>1. CASE j < k
      BY <1>1, <1>c, <1>4, <3>1
    <3>2. CASE j > k
      <4>1. j - k \in 1 .. n - k + 1 /\ k + (j - k) - 1 = j - 1
        BY <3>2
      <4> QED BY <1>2, <1>4, <3>2, <4>1
    <3>3. CASE j = k
      BY <1>c, <1>4, <3>3
    <3> QED BY <3>1, <3>2, <3>3
  <2> QED BY <2>1
<1> QED BY <1>3, <1>4, <1>5 DEF Inserted

\* A list with an element put in
LEMMA InsertAtIs ==
    ASSUME NEW S, NEW x, NEW X, NEW n \in Nat, ListsEach(x, S, X, n), NEW k \in 1 .. n + 1, NEW e \in S \ X
    PROVE  ListsEach(InsertAt(x, k, e), S, X \cup {e}, n + 1)
<1>0. x \in Seq(S) /\ Len(x) = n /\ DOMAIN x = 1 .. n /\ \A j \in 1 .. n : x[j] \in S
  BY DEF ListsEach
<1>3. PICK y : y = InsertAt(x, k, e)
  OBVIOUS
<1>4. y \in Seq(S) /\ Len(y) = n + 1 /\ \A j \in 1 .. n + 1 : y[j] = IF j < k THEN x[j] ELSE IF j = k THEN e ELSE x[j - 1]
  <2>1. Inserted(S, x, n, k, e, InsertAt(x, k, e))
    BY <1>0, InsertAtEach
  <2> QED BY <1>3, <2>1 DEF Inserted
<1>5. \A j \in 1 .. n + 1 : y[j] = IF j < k THEN x[j] ELSE IF j = k THEN e ELSE x[j - 1]
  BY <1>4
<1>6. DOMAIN y = 1 .. n + 1
  BY <1>4
<1>7. \A i, j \in 1 .. n : x[i] = x[j] => i = j
  BY <1>0 DEF ListsEach, OnceIn
<1>x. X = {x[j] : j \in 1 .. n} /\ ToSet(y) = {y[j] : j \in 1 .. n + 1}
  BY <1>0, <1>6 DEF ListsEach, ToSet
<1> DEFINE P(m) == IF m < k THEN m ELSE m - 1
<1>p. ASSUME NEW j \in 1 .. n + 1, j # k PROVE P(j) \in 1 .. n /\ y[j] = x[P(j)] /\ y[j] \in X
  <2>1. P(j) \in 1 .. n /\ y[j] = x[P(j)]
    BY <1>p, <1>5
  <2> HIDE DEF P
  <2> QED BY <1>x, <2>1
<1>8. OnceIn(y, S)
  <2>1. ASSUME NEW i \in 1 .. n + 1, NEW j \in 1 .. n + 1, y[i] = y[j] PROVE i = j
    <3>1. CASE i = k \/ j = k
      <4>1. y[k] = e /\ e \notin X /\ k \in 1 .. n + 1
        BY <1>5
      <4> HIDE DEF P
      <4> QED BY <1>p, <2>1, <3>1, <4>1
    <3>2. CASE i # k /\ j # k
      <4>1. P(i) = P(j)
        <5> HIDE DEF P
        <5> QED BY <1>7, <1>p, <2>1, <3>2
      <4> QED BY <3>2, <4>1
    <3> QED BY <3>1, <3>2
  <2> QED BY <1>6, <2>1 DEF OnceIn
<1>9. ToSet(y) = X \cup {e}
  <2>1. ASSUME NEW j \in 1 .. n + 1 PROVE y[j] \in X \cup {e}
    <3> HIDE DEF P
    <3> QED BY <1>5, <1>p
  <2>2. ASSUME NEW j \in 1 .. n PROVE x[j] \in ToSet(y)
    <3>1. CASE j < k
      BY <1>5, <1>x, <3>1
    <3>2. CASE j >= k
      <4>1. j + 1 \in 1 .. n + 1 /\ ~(j + 1 < k) /\ j + 1 # k /\ (j + 1) - 1 = j
        BY <3>2
      <4> QED BY <1>5, <1>x, <4>1
    <3> QED BY <3>1, <3>2
  <2>3. e \in ToSet(y)
    BY <1>5, <1>x
  <2> HIDE DEF P
  <2> QED BY <1>x, <2>1, <2>2, <2>3
<1> QED BY <1>3, <1>4, <1>8, <1>9 DEF ListsEach

\* A list turned round
LEMMA ReverseIs ==
    ASSUME NEW S, NEW x, NEW X, NEW n \in Nat, ListsEach(x, S, X, n)
    PROVE  ListsEach(Reverse(x), S, X, n)
<1>0. x \in Seq(S) /\ Len(x) = n /\ DOMAIN x = 1 .. n /\ \A j \in 1 .. n : x[j] \in S
  BY DEF ListsEach
<1> DEFINE y == [i \in 1 .. n |-> x[(n - i) + 1]]
<1>1. Reverse(x) = y
  BY <1>0 DEF Reverse
<1>2. \A i \in 1 .. n : (n - i) + 1 \in 1 .. n /\ y[i] = x[(n - i) + 1]
  OBVIOUS
<1>3. y \in [1 .. n -> S] /\ DOMAIN y = 1 .. n
  BY <1>0, <1>2
<1> HIDE DEF y
<1>4. y \in Seq(S) /\ Len(y) = n
  BY <1>3
<1>5. \A i, j \in 1 .. n : x[i] = x[j] => i = j
  BY <1>0 DEF ListsEach, OnceIn
<1>6. OnceIn(y, S)
  <2>1. ASSUME NEW i \in 1 .. n, NEW j \in 1 .. n, y[i] = y[j] PROVE i = j
    <3>1. (n - i) + 1 = (n - j) + 1
      BY <1>2, <1>5, <2>1
    <3> QED BY <3>1
  <2> QED BY <1>3, <2>1 DEF OnceIn
<1>7. ToSet(y) = X
  <2>1. X = {x[j] : j \in 1 .. n} /\ ToSet(y) = {y[j] : j \in 1 .. n}
    BY <1>0, <1>3 DEF ListsEach, ToSet
  <2>2. ASSUME NEW j \in 1 .. n PROVE x[j] \in ToSet(y)
    <3>1. (n - j) + 1 \in 1 .. n /\ (n - ((n - j) + 1)) + 1 = j
      OBVIOUS
    <3> QED BY <1>2, <2>1, <3>1
  <2>3. ASSUME NEW j \in 1 .. n PROVE y[j] \in X
    BY <1>2, <2>1
  <2> QED BY <2>1, <2>2, <2>3
<1> QED BY <1>1, <1>4, <1>6, <1>7 DEF ListsEach

\* A list without repetition is as long as what it lists.
LEMMA ListCount ==
    ASSUME NEW S, NEW q \in Seq(S), OnceIn(q, S)
    PROVE  Len(q) = Cardinality(ToSet(q))
<1>1. Len(q) \in Nat /\ DOMAIN q = 1 .. Len(q) /\ \A k \in 1 .. Len(q) : q[k] \in S
  OBVIOUS
<1>2. PICK n, X : n = Len(q) /\ X = ToSet(q)
  OBVIOUS
<1>3. X = {q[k] : k \in 1 .. n}
  BY <1>1, <1>2 DEF ToSet
<1>4. q \in [1 .. n -> X]
  BY <1>1, <1>2, <1>3
<1>5. \A i, j \in 1 .. n : q[i] = q[j] => i = j
  BY <1>1, <1>2 DEF OnceIn
<1>6. q \in Bijection(1 .. n, X)
  BY <1>1, <1>2, <1>3, <1>4, <1>5 DEF Bijection, Injection, Surjection, IsInjective
<1>7. ExistsBijection(1 .. n, X)
  BY <1>6 DEF ExistsBijection
<1> QED BY <1>1, <1>2, <1>7, FS_CountingElements

\* What holds of the empty list, and of a list with one more element, holds of all lists.
LEMMA ListInduction ==
    ASSUME NEW S, NEW F, <<>> \in F, \A q \in Seq(S), x \in S : q \in F => Append(q, x) \in F
    PROVE  Seq(S) \subseteq F
<1> DEFINE N == {n \in Nat : \A q \in Seq(S) : Len(q) = n => q \in F}
<1>1. 0 \in N
  BY EmptySeq
<1>2. ASSUME NEW n \in Nat, n \in N PROVE n + 1 \in N
  <2>1. ASSUME NEW q \in Seq(S), Len(q) = n + 1 PROVE q \in F
    <3>1. PICK b, x : b = SubSeq(q, 1, n) /\ x = q[n + 1]
      OBVIOUS
    <3>2. b \in Seq(S) /\ Len(b) = n /\ (\A j \in 1 .. n : b[j] = q[j]) /\ x \in S
      <4>1. \A j \in 1 .. n + 1 : q[j] \in S
        BY <2>1
      <4> QED BY <2>1, <3>1, <4>1, SubSeqProperties
    <3>3. q = Append(b, x)
      <4>1. /\ Append(b, x) \in Seq(S) /\ Len(Append(b, x)) = n + 1
            /\ \A j \in 1 .. n : Append(b, x)[j] = b[j]
            /\ Append(b, x)[n + 1] = x
        BY <3>2, AppendProperties
      <4>2. \A j \in 1 .. n + 1 : q[j] = Append(b, x)[j]
        BY <3>1, <3>2, <4>1
      <4> QED BY <2>1, <4>1, <4>2, SeqEqual
    <3>4. b \in F
      BY <1>2, <3>2
    <3> QED BY <3>2, <3>3, <3>4
  <2> QED BY <2>1
<1>3. Nat \subseteq N
  <2> HIDE DEF N
  <2> QED BY <1>1, <1>2, NatSetInduction
<1> QED BY <1>3

\* A list around one of its elements
Around(S, q, n, k, l, r) ==
    /\ l \in Seq(S) /\ r \in Seq(S) /\ q[k] \in S
    /\ q = (l \o <<q[k]>>) \o r /\ RemoveAt(q, k) = l \o r
    /\ Len(l) = k - 1 /\ Len(r) = n - k
    /\ \A j \in 1 .. k - 1 : l[j] = q[j]
    /\ \A j \in 1 .. n - k : r[j] = q[k + j]

\* A list is what is before an element, the element and what is after it.
LEMMA AroundIs ==
    ASSUME NEW S, NEW q \in Seq(S), NEW n \in Nat, Len(q) = n, NEW k \in 1 .. n
    PROVE  \E l, r : Around(S, q, n, k, l, r)
<1>1. PICK l, r, x : l = SubSeq(q, 1, k - 1) /\ r = SubSeq(q, k + 1, n) /\ x = q[k]
  OBVIOUS
<1>0. \A j \in 1 .. n : q[j] \in S
  OBVIOUS
<1>2. l \in Seq(S) /\ Len(l) = k - 1 /\ \A j \in 1 .. k - 1 : l[j] = q[j]
  BY <1>0, <1>1, SubSeqProperties
<1>3. r \in Seq(S) /\ Len(r) = n - k /\ \A j \in 1 .. n - k : r[j] = q[k + j]
  BY <1>0, <1>1, SubSeqProperties
<1>4. RemoveAt(q, k) = l \o r
  BY <1>1 DEF RemoveAt
<1>5. PICK m : m = l \o <<x>>
  OBVIOUS
<1>6. m \in Seq(S) /\ Len(m) = k /\ m[k] = x /\ \A j \in 1 .. k - 1 : m[j] = l[j]
  <2>1. m = Append(l, x) /\ x \in S
    BY <1>0, <1>1, <1>2, <1>5
  <2>2. (k - 1) + 1 = k
    OBVIOUS
  <2> QED BY <1>2, <2>1, <2>2, AppendProperties
<1>7. PICK y : y = m \o r
  OBVIOUS
<1>8. /\ y \in Seq(S) /\ Len(y) = n
      /\ \A j \in 1 .. n : y[j] = IF j <= k THEN m[j] ELSE r[j - k]
  <2>1. /\ m \o r \in Seq(S) /\ Len(m \o r) = Len(m) + Len(r)
        /\ \A i \in 1 .. Len(m) + Len(r) : (m \o r)[i] = IF i <= Len(m) THEN m[i] ELSE r[i - Len(m)]
    BY <1>3, <1>6, ConcatProperties
  <2> QED BY <1>3, <1>6, <1>7, <2>1
<1>9. ASSUME NEW j \in 1 .. n PROVE y[j] = q[j]
  <2>1. CASE j <= k
    BY <1>1, <1>2, <1>6, <1>8, <2>1
  <2>2. CASE j > k
    <3>1. PICK i : i = j - k
      OBVIOUS
    <3>2. i \in 1 .. n - k /\ k + i = j
      BY <2>2, <3>1
    <3>3. y[j] = r[i]
      BY <1>8, <2>2, <3>1
    <3> QED BY <1>3, <3>2, <3>3
  <2> QED BY <2>1, <2>2
<1>10. y = q
  BY <1>8, <1>9, SeqEqual
<1>11. x \in S
  BY <1>0, <1>1
<1>12. Around(S, q, n, k, l, r)
  BY <1>1, <1>2, <1>3, <1>4, <1>5, <1>7, <1>10, <1>11 DEF Around
<1> QED BY <1>12

\* The elements of a reversed list
LEMMA ReverseEach ==
    ASSUME NEW S, NEW q \in Seq(S), NEW n \in Nat, Len(q) = n
    PROVE  Reverse(q) \in Seq(S) /\ Len(Reverse(q)) = n /\ \A j \in 1 .. n : Reverse(q)[j] = q[(n - j) + 1]
<1>1. PICK y : y = [i \in 1 .. n |-> q[(n - i) + 1]]
  OBVIOUS
<1>2. \A i \in 1 .. n : (n - i) + 1 \in 1 .. n /\ q[(n - i) + 1] \in S
  OBVIOUS
<1>3. y \in [1 .. n -> S]
  BY <1>1, <1>2
<1>4. y \in Seq(S) /\ Len(y) = n
  BY <1>3
<1>5. Reverse(q) = y
  BY <1>1 DEF Reverse
<1> QED BY <1>1, <1>4, <1>5

\* A list reversed twice is as it was.
LEMMA ReverseTwice ==
    ASSUME NEW S, NEW q \in Seq(S)
    PROVE  Reverse(Reverse(q)) = q
<1>1. PICK n, r, t : n = Len(q) /\ r = Reverse(q) /\ t = Reverse(r)
  OBVIOUS
<1>2. n \in Nat
  BY <1>1
<1>3. r \in Seq(S) /\ Len(r) = n /\ \A j \in 1 .. n : r[j] = q[(n - j) + 1]
  <2>1. Reverse(q) \in Seq(S) /\ Len(Reverse(q)) = n /\ \A j \in 1 .. n : Reverse(q)[j] = q[(n - j) + 1]
    BY <1>1, <1>2, ReverseEach
  <2> QED BY <1>1, <2>1
<1>4. t \in Seq(S) /\ Len(t) = n /\ \A j \in 1 .. n : t[j] = r[(n - j) + 1]
  <2>1. Reverse(r) \in Seq(S) /\ Len(Reverse(r)) = n /\ \A j \in 1 .. n : Reverse(r)[j] = r[(n - j) + 1]
    BY <1>2, <1>3, ReverseEach
  <2> QED BY <1>1, <2>1
<1>5. ASSUME NEW j \in 1 .. n PROVE t[j] = q[j]
  <2>1. PICK i : i = (n - j) + 1
    OBVIOUS
  <2>2. i \in 1 .. n /\ (n - i) + 1 = j
    BY <1>2, <2>1
  <2>3. t[j] = r[i] /\ r[i] = q[(n - i) + 1]
    BY <1>3, <1>4, <2>1, <2>2
  <2> QED BY <2>2, <2>3
<1>6. t = q
  BY <1>1, <1>4, <1>5, SeqEqual
<1> QED BY <1>1, <1>6

\* What is appended comes first in the reversed list.
LEMMA ReverseAppend ==
    ASSUME NEW S, NEW q \in Seq(S), NEW x \in S
    PROVE  Reverse(Append(q, x)) = <<x>> \o Reverse(q)
<1>1. PICK n, p, r, e, y, t : /\ n = Len(q) /\ p = Append(q, x) /\ r = Reverse(p) /\ e = <<x>>
                              /\ y = Reverse(q) /\ t = e \o y
  OBVIOUS
<1>2. /\ n \in Nat /\ n + 1 \in Nat /\ p \in Seq(S) /\ Len(p) = n + 1 /\ p[n + 1] = x
      /\ \A j \in 1 .. n : p[j] = q[j]
  BY <1>1, AppendProperties
<1>3. r \in Seq(S) /\ Len(r) = n + 1 /\ \A j \in 1 .. n + 1 : r[j] = p[((n + 1) - j) + 1]
  <2>1. /\ Reverse(p) \in Seq(S) /\ Len(Reverse(p)) = n + 1
        /\ \A j \in 1 .. n + 1 : Reverse(p)[j] = p[((n + 1) - j) + 1]
    BY <1>2, ReverseEach
  <2> QED BY <1>1, <2>1
<1>4. y \in Seq(S) /\ Len(y) = n /\ \A j \in 1 .. n : y[j] = q[(n - j) + 1]
  <2>1. Reverse(q) \in Seq(S) /\ Len(Reverse(q)) = n /\ \A j \in 1 .. n : Reverse(q)[j] = q[(n - j) + 1]
    BY <1>1, <1>2, ReverseEach
  <2> QED BY <1>1, <2>1
<1>5. e \in Seq(S) /\ Len(e) = 1 /\ e[1] = x
  BY <1>1
<1>6. t \in Seq(S) /\ Len(t) = n + 1 /\ \A j \in 1 .. n + 1 : t[j] = IF j <= 1 THEN e[j] ELSE y[j - 1]
  <2>1. /\ e \o y \in Seq(S) /\ Len(e \o y) = Len(e) + Len(y)
        /\ \A i \in 1 .. Len(e) + Len(y) : (e \o y)[i] = IF i <= Len(e) THEN e[i] ELSE y[i - Len(e)]
    <3>1. e \in Seq(S) /\ y \in Seq(S)
      BY <1>4, <1>5
    <3> QED BY <3>1, ConcatProperties
  <2>2. Len(e) + Len(y) = n + 1
    BY <1>2, <1>4, <1>5
  <2> QED BY <1>1, <1>5, <2>1, <2>2
<1>7. ASSUME NEW j \in 1 .. n + 1 PROVE r[j] = t[j]
  <2>1. CASE j = 1
    BY <1>2, <1>3, <1>5, <1>6, <2>1
  <2>2. CASE j # 1
    <3>1. PICK i, k : i = j - 1 /\ k = (n - i) + 1
      OBVIOUS
    <3>2. i \in 1 .. n /\ k \in 1 .. n /\ ((n + 1) - j) + 1 = k
      BY <1>2, <2>2, <3>1
    <3>3. t[j] = y[i]
      BY <1>6, <2>2, <3>1
    <3>4. y[i] = q[k]
      BY <1>4, <3>1, <3>2
    <3>5. r[j] = p[k]
      BY <1>3, <3>2
    <3> QED BY <1>2, <3>2, <3>3, <3>4, <3>5
  <2> QED BY <2>1, <2>2
<1>8. r = t
  BY <1>3, <1>6, <1>7, SeqEqual
<1> QED BY <1>1, <1>8

\* A list of one element, reversed
LEMMA ReverseOne == ASSUME NEW x PROVE Reverse(<<x>>) = <<x>>
<1>1. Len(<<x>>) = 1
  OBVIOUS
<1>2. Reverse(<<x>>) = [i \in 1 .. 1 |-> <<x>>[(1 - i) + 1]]
  BY <1>1 DEF Reverse
<1> QED BY <1>2

\* A reversed list has the same elements.
LEMMA ReverseTypes ==
    ASSUME NEW S, NEW x \in Seq(S)
    PROVE  Reverse(x) \in Seq(S) /\ ToSet(x) \subseteq ToSet(Reverse(x))
<1>1. PICK n, r : n = Len(x) /\ r = Reverse(x)
  OBVIOUS
<1>2. n \in Nat
  BY <1>1
<1>3. r \in Seq(S) /\ Len(r) = n /\ \A j \in 1 .. n : r[j] = x[(n - j) + 1]
  <2>1. Reverse(x) \in Seq(S) /\ Len(Reverse(x)) = n /\ \A j \in 1 .. n : Reverse(x)[j] = x[(n - j) + 1]
    BY <1>1, <1>2, ReverseEach
  <2> QED BY <1>1, <2>1
<1>4. DOMAIN x = 1 .. n /\ DOMAIN r = 1 .. n
  BY <1>1, <1>3
<1>5. ASSUME NEW k \in 1 .. n PROVE \E j \in 1 .. n : r[j] = x[k]
  <2>1. PICK j : j = (n - k) + 1
    OBVIOUS
  <2>2. j \in 1 .. n /\ (n - j) + 1 = k
    BY <1>2, <2>1
  <2> QED BY <1>3, <2>2
<1>6. ToSet(x) \subseteq ToSet(r)
  BY <1>4, <1>5 DEF ToSet
<1> QED BY <1>1, <1>3, <1>6

\* What is put at the end of a folder in place of the id at p, and moved there
Swapped(S, q, n, k, e, y) ==
    y \in Seq(S) /\ Len(y) = n /\ \A j \in 1 .. n : y[j] = IF j = k THEN e ELSE q[j]

=============================================================================
