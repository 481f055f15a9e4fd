------------------------- MODULE ZRendezvous_proofs -------------------------
(***************************************************************************)
(* Theorems about the worker pool, for any finite set of threads, any      *)
(* callers and any requests.                                               *)
(*                                                                         *)
(* The argument follows the locks.  Each lock is in exactly one place: in  *)
(* pool, or with the one thread that waits on it or has just been let go;  *)
(* ready lists exactly the locks of the threads that sleep.  From that,    *)
(* every step moves one lock and one thread together, so the lengths of    *)
(* the two lists count threads.                                            *)
(***************************************************************************)
EXTENDS ZRendezvous, TLAPS, FiniteSetTheorems, SequenceTheorems

Distinct(s) == \A i, j \in 1 .. Len(s) : s[i] = s[j] => i = j

-----------------------------------------------------------------------------
(* What the list operations do to the elements *)

LEMMA EmptyList == Range(<<>>) = {} /\ Distinct(<<>>)
BY DEF Range, Distinct

LEMMA AppendNew ==
    ASSUME NEW S, NEW s \in Seq(S), NEW e \in S
    PROVE  /\ Append(s, e) \in Seq(S)
           /\ Len(Append(s, e)) = Len(s) + 1
           /\ Append(s, e) # <<>>
           /\ Range(Append(s, e)) = Range(s) \cup {e}
           /\ Distinct(s) /\ e \notin Range(s) => Distinct(Append(s, e))
<1>1. /\ Append(s, e) \in Seq(S)
      /\ Len(Append(s, e)) = Len(s) + 1
      /\ Append(s, e) # <<>>
      /\ \A i \in 1 .. Len(s) : Append(s, e)[i] = s[i]
      /\ Append(s, e)[Len(s) + 1] = e
  BY AppendProperties
<1>2. /\ DOMAIN Append(s, e) = 1 .. Len(s) + 1
      /\ DOMAIN s = 1 .. Len(s)
      /\ Len(s) \in Nat
  BY <1>1
<1>3. Range(Append(s, e)) = Range(s) \cup {e}
  <2>1. ASSUME NEW x \in Range(Append(s, e)) PROVE x \in Range(s) \cup {e}
    <3>1. PICK i \in 1 .. Len(s) + 1 : x = Append(s, e)[i]
      BY <1>2 DEF Range
    <3> QED BY <3>1, <1>1, <1>2 DEF Range
  <2>2. ASSUME NEW x \in Range(s) PROVE x \in Range(Append(s, e))
    <3>1. PICK i \in 1 .. Len(s) : x = s[i]
      BY <1>2 DEF Range
    <3> QED BY <3>1, <1>1, <1>2 DEF Range
  <2>3. e \in Range(Append(s, e))
    BY <1>1, <1>2 DEF Range
  <2> QED BY <2>1, <2>2, <2>3
<1>4. ASSUME Distinct(s), e \notin Range(s) PROVE Distinct(Append(s, e))
  <2>1. \A i \in 1 .. Len(s) : s[i] # e
    BY <1>2, <1>4 DEF Range
  <2> QED BY <2>1, <1>1, <1>2, <1>4 DEF Distinct
<1> QED BY <1>1, <1>3, <1>4

LEMMA FrontLast ==
    ASSUME NEW S, NEW s \in Seq(S), s # <<>>
    PROVE  /\ Front(s) \in Seq(S)
           /\ Len(Front(s)) = Len(s) - 1
           /\ Last(s) \in S /\ Last(s) \in Range(s)
           /\ Distinct(s) => /\ Distinct(Front(s))
                             /\ Range(Front(s)) = Range(s) \ {Last(s)}
<1>1. /\ Len(s) \in Nat /\ Len(s) > 0
      /\ DOMAIN s = 1 .. Len(s)
      /\ \A i \in 1 .. Len(s) : s[i] \in S
  OBVIOUS
<1>2. /\ Front(s) \in Seq(S)
      /\ Len(Front(s)) = Len(s) - 1
      /\ \A i \in 1 .. Len(s) - 1 : Front(s)[i] = s[i]
  <2> DEFINE n == Len(s) - 1
  <2>1. n \in Int /\ n >= 0 /\ \A i \in 1 .. n : s[i] \in S
    BY <1>1
  <2>2. Front(s) = SubSeq(s, 1, n)
    BY DEF Front
  <2> HIDE DEF n
  <2>3. /\ SubSeq(s, 1, n) \in Seq(S)
        /\ Len(SubSeq(s, 1, n)) = IF 1 <= n THEN n - 1 + 1 ELSE 0
        /\ \A i \in 1 .. n - 1 + 1 : SubSeq(s, 1, n)[i] = s[1 + i - 1]
    BY <2>1, SubSeqProperties
  <2>4. /\ SubSeq(s, 1, n) \in Seq(S)
        /\ Len(SubSeq(s, 1, n)) = n
        /\ \A i \in 1 .. n : SubSeq(s, 1, n)[i] = s[i]
    BY <2>1, <2>3
  <2> QED BY <2>2, <2>4 DEF n
<1>3. Last(s) = s[Len(s)] /\ Last(s) \in S /\ Last(s) \in Range(s)
  BY <1>1 DEF Last, Range
<1>4. DOMAIN Front(s) = 1 .. Len(s) - 1
  BY <1>1, <1>2
<1>5. ASSUME Distinct(s)
      PROVE  Distinct(Front(s)) /\ Range(Front(s)) = Range(s) \ {Last(s)}
  <2>1. Distinct(Front(s))
    BY <1>1, <1>2, <1>5 DEF Distinct
  <2>2. ASSUME NEW x \in Range(Front(s)) PROVE x \in Range(s) /\ x # Last(s)
    <3>1. PICK i \in 1 .. Len(s) - 1 : x = s[i]
      BY <1>2, <1>4 DEF Range
    <3> QED BY <3>1, <1>1, <1>3, <1>5 DEF Distinct, Range
  <2>3. ASSUME NEW x \in Range(s), x # Last(s) PROVE x \in Range(Front(s))
    <3>1. PICK i \in 1 .. Len(s) : x = s[i]
      BY <1>1 DEF Range
    <3>2. i \in 1 .. Len(s) - 1
      BY <3>1, <2>3, <1>1, <1>3
    <3> QED BY <3>1, <3>2, <1>2, <1>4 DEF Range
  <2> QED BY <2>1, <2>2, <2>3
<1> QED BY <1>2, <1>3, <1>5

(* Counting threads *)

LEMMA OneMore ==
    ASSUME NEW A, NEW B, NEW x, A \subseteq Threads, x \in Threads, x \notin A,
           B = A \cup {x}
    PROVE  /\ Cardinality(A) \in Nat /\ Cardinality(B) \in Nat
           /\ Cardinality(B) = Cardinality(A) + 1
<1>1. IsFiniteSet(A)
  BY ThreadsAssumption, FS_Subset
<1> QED BY <1>1, FS_AddElement, FS_CardinalityType

LEMMA OneLess ==
    ASSUME NEW A, NEW B, NEW x, A \subseteq Threads, x \in A, B = A \ {x}
    PROVE  /\ Cardinality(A) \in Nat /\ Cardinality(B) \in Nat
           /\ Cardinality(B) = Cardinality(A) - 1
<1>1. IsFiniteSet(A)
  BY ThreadsAssumption, FS_Subset
<1> QED BY <1>1, FS_RemoveElement, FS_CardinalityType

-----------------------------------------------------------------------------
(* The inductive invariant *)

\* The mutex is held by exactly the thread that is inside accept, handle or
\* __init__, and a caller has a request in hand only inside handle.
MutexInv ==
    /\ \A t \in Threads : pc[t] = "test" <=> mutex = t
    /\ \A c \in Callers : calling[c] # NoRequest => mutex = c
    /\ \A t \in Threads : pc[t] = "unborn" => mutex = Constructor

Waiting == {t \in Threads : pc[t] \in {"parked", "woken"}}
Started == {t \in Threads : pc[t] # "unborn"}

\* Each lock is in one place.
LockInv ==
    /\ Distinct(pool) /\ Distinct(ready)
    /\ Range(pool) \cap Range(ready) = {}
    /\ Range(pool) \subseteq held
    /\ held \subseteq Started
    /\ \A t \in Waiting : lock[t] \in Started \ Range(pool)
    /\ \A t, u \in Waiting : lock[t] = lock[u] => t = u
    /\ \A t \in Threads : pc[t] = "woken" => lock[t] \in held \ Range(ready)
    /\ \A t \in Threads : pc[t] = "parked" => (lock[t] \in held <=> lock[t] \in Range(ready))
    /\ \A l \in Range(ready) : \E t \in Threads : pc[t] = "parked" /\ lock[t] = l

\* Outside are the threads that have their lock in pool.
Outside == {t \in Threads : pc[t] \in {"enter", "test", "publish"}}
CountInv ==
    /\ Len(pool) = Cardinality(Outside)
    /\ Len(ready) = Cardinality(Asleep)
    /\ ready # <<>> => Len(requests) <= Cardinality(Awake)

ServeInv ==
    /\ \A t \in Threads : serving[t] # NoRequest <=> pc[t] = "publish"
    /\ \A c \in Callers : calling[c] # NoRequest => calling[c] \in accepted

IInv == TypeOK /\ MutexInv /\ LockInv /\ CountInv /\ ServeInv

LEMMA InitIInv == Init => IInv
<1> SUFFICES ASSUME Init PROVE IInv
  OBVIOUS
<1> USE DEF Init
<1>1. TypeOK
  BY DEF TypeOK
<1>2. MutexInv
  BY NamesAssumption DEF MutexInv
<1>3. LockInv
  BY EmptyList DEF LockInv, Waiting, Started
<1>4. CountInv
  <2>1. Outside = {} /\ Asleep = {}
    BY DEF Outside, Asleep
  <2> QED BY <2>1, FS_EmptySet DEF CountInv
<1>5. ServeInv
  BY DEF ServeInv
<1> QED BY <1>1, <1>2, <1>3, <1>4, <1>5 DEF IInv

\* Every element of ready is held: its thread sleeps.
LEMMA ReadyHeld == IInv => Range(ready) \subseteq held
BY DEF IInv, LockInv

LEMMA StartThreadStep ==
    ASSUME IInv, NEW t \in Threads, StartThread(t)
    PROVE  IInv'
<1> USE DEF StartThread, handling
<1>1. t \notin Started
  BY DEF Started
<1>2. /\ t \notin held /\ t \notin Range(pool) /\ t \notin Range(ready)
      /\ \A u \in Waiting : lock[u] # t
  BY <1>1, ReadyHeld DEF IInv, LockInv
<1>3. /\ pool' \in Seq(Threads) /\ Len(pool') = Len(pool) + 1
      /\ Range(pool') = Range(pool) \cup {t} /\ Distinct(pool')
  BY <1>2, AppendNew DEF IInv, TypeOK, LockInv
<1>4. TypeOK'
  BY <1>3 DEF IInv, TypeOK
<1>5. MutexInv'
  BY NamesAssumption DEF IInv, TypeOK, MutexInv
<1>6. /\ Waiting' = Waiting
      /\ Started' = Started \cup {t}
      /\ Asleep' = Asleep
      /\ Awake' = Awake \cup {t} /\ t \notin Awake
      /\ Outside' = Outside \cup {t} /\ t \notin Outside
  BY <1>2 DEF IInv, TypeOK, Waiting, Started, Asleep, Awake, Outside
<1>7. LockInv'
  <2>1. /\ Distinct(pool') /\ Distinct(ready')
        /\ Range(pool') \cap Range(ready') = {}
        /\ Range(pool') \subseteq held'
        /\ held' \subseteq Started'
    BY <1>2, <1>3, <1>6 DEF IInv, LockInv
  <2>2. /\ \A u \in Waiting' : lock'[u] \in Started' \ Range(pool')
        /\ \A u, v \in Waiting' : lock'[u] = lock'[v] => u = v
    BY <1>2, <1>3, <1>6 DEF IInv, LockInv
  <2>3. \A u \in Threads : pc'[u] = "woken" => lock'[u] \in held' \ Range(ready')
    BY DEF IInv, TypeOK, LockInv
  <2>4. \A u \in Threads :
          pc'[u] = "parked" => (lock'[u] \in held' <=> lock'[u] \in Range(ready'))
    BY <1>2 DEF IInv, TypeOK, LockInv, Waiting
  <2>5. \A l \in Range(ready') : \E u \in Threads : pc'[u] = "parked" /\ lock'[u] = l
    BY DEF IInv, TypeOK, LockInv
  <2> QED BY <2>1, <2>2, <2>3, <2>4, <2>5 DEF LockInv
<1>8. CountInv'
  <2>1. Cardinality(Outside') = Cardinality(Outside) + 1
    BY <1>6, OneMore DEF Outside
  <2>2. Cardinality(Awake') = Cardinality(Awake) + 1 /\ Cardinality(Awake) \in Nat
    BY <1>6, OneMore DEF Awake
  <2>3. Len(requests) \in Nat
    BY DEF IInv, TypeOK
  <2> QED BY <1>3, <1>6, <2>1, <2>2, <2>3 DEF IInv, CountInv
<1>9. ServeInv'
  BY DEF IInv, TypeOK, ServeInv
<1> QED BY <1>4, <1>5, <1>7, <1>8, <1>9 DEF IInv

\* The steps that move no lock: only who holds the mutex, or what a thread
\* outside the lists does, changes.
LEMMA NoLockMoves ==
    ASSUME IInv, UNCHANGED <<pool, ready, held, lock>>,
           pc' \in [Threads -> {"unborn", "enter", "test", "parked", "woken", "publish"}],
           Waiting' = Waiting, Started' = Started,
           \A t \in Threads : pc'[t] = "parked" <=> pc[t] = "parked"
    PROVE  LockInv' /\ Asleep' = Asleep /\ Outside' = Outside
<1>1. \A t \in Threads : pc'[t] = "woken" <=> pc[t] = "woken"
  BY DEF Waiting
<1>2. \A t \in Threads : pc'[t] = "unborn" <=> pc[t] = "unborn"
  BY DEF Started
<1>3. LockInv'
  <2>1. /\ Distinct(pool') /\ Distinct(ready')
        /\ Range(pool') \cap Range(ready') = {}
        /\ Range(pool') \subseteq held'
        /\ held' \subseteq Started'
    BY DEF IInv, LockInv
  <2>2. /\ \A u \in Waiting' : lock'[u] \in Started' \ Range(pool')
        /\ \A u, v \in Waiting' : lock'[u] = lock'[v] => u = v
    BY DEF IInv, LockInv
  <2>3. /\ \A u \in Threads : pc'[u] = "woken" => lock'[u] \in held' \ Range(ready')
        /\ \A u \in Threads :
             pc'[u] = "parked" => (lock'[u] \in held' <=> lock'[u] \in Range(ready'))
        /\ \A l \in Range(ready') : \E u \in Threads : pc'[u] = "parked" /\ lock'[u] = l
    BY <1>1 DEF IInv, LockInv
  <2> QED BY <2>1, <2>2, <2>3 DEF LockInv
<1>4. Asleep' = Asleep
  BY DEF Asleep
<1>5. Outside' = Outside
  BY <1>1, <1>2 DEF Outside, IInv, TypeOK
<1> QED BY <1>3, <1>4, <1>5

LEMMA ConstructedStep ==
    ASSUME IInv, Constructed
    PROVE  IInv'
<1> USE DEF Constructed, lists, handling
<1>1. TypeOK'
  BY DEF IInv, TypeOK
<1>2. MutexInv'
  BY NamesAssumption DEF IInv, TypeOK, MutexInv
<1>3. LockInv' /\ Asleep' = Asleep /\ Outside' = Outside
  BY NoLockMoves DEF IInv, TypeOK, Waiting, Started
<1>4. Awake' = Awake
  BY DEF Awake
<1>5. CountInv'
  BY <1>3, <1>4 DEF IInv, CountInv
<1>6. ServeInv'
  BY DEF IInv, ServeInv
<1> QED BY <1>1, <1>2, <1>3, <1>5, <1>6 DEF IInv

LEMMA EnterStep ==
    ASSUME IInv, NEW t \in Threads, Enter(t)
    PROVE  IInv'
<1> USE DEF Enter, lists, handling
<1>1. TypeOK'
  BY DEF IInv, TypeOK
<1>2. MutexInv'
  BY NamesAssumption DEF IInv, TypeOK, MutexInv
<1>3. LockInv' /\ Asleep' = Asleep /\ Outside' = Outside
  <2>1. Waiting' = Waiting /\ Started' = Started
    BY DEF IInv, TypeOK, Waiting, Started
  <2> QED BY <2>1, NoLockMoves DEF IInv, TypeOK
<1>4. Awake' = Awake
  BY DEF IInv, TypeOK, Awake
<1>5. CountInv'
  BY <1>3, <1>4 DEF IInv, CountInv
<1>6. ServeInv'
  BY DEF IInv, TypeOK, ServeInv
<1> QED BY <1>1, <1>2, <1>3, <1>5, <1>6 DEF IInv

LEMMA PublishedStep ==
    ASSUME IInv, NEW t \in Threads, Published(t)
    PROVE  IInv'
<1> USE DEF Published, lists, handling
<1>1. TypeOK'
  BY DEF IInv, TypeOK
<1>2. MutexInv'
  BY NamesAssumption DEF IInv, TypeOK, MutexInv
<1>3. LockInv' /\ Asleep' = Asleep /\ Outside' = Outside
  <2>1. Waiting' = Waiting /\ Started' = Started
    BY DEF IInv, TypeOK, Waiting, Started
  <2> QED BY <2>1, NoLockMoves DEF IInv, TypeOK
<1>4. Awake' = Awake \cup {t} /\ t \notin Awake
  BY DEF IInv, TypeOK, Awake
<1>5. CountInv'
  <2>1. Cardinality(Awake') = Cardinality(Awake) + 1 /\ Cardinality(Awake) \in Nat
    BY <1>4, OneMore DEF Awake
  <2>2. Len(requests) \in Nat
    BY DEF IInv, TypeOK
  <2> QED BY <1>3, <2>1, <2>2 DEF IInv, CountInv
<1>6. ServeInv'
  BY DEF IInv, TypeOK, ServeInv
<1> QED BY <1>1, <1>2, <1>3, <1>5, <1>6 DEF IInv

LEMMA TakeStep ==
    ASSUME IInv, NEW t \in Threads, Take(t)
    PROVE  IInv'
<1> USE DEF Take, PopFirst, handling
<1>1. /\ Head(requests) \in Requests /\ requests' \in Seq(Requests)
      /\ Len(requests') = Len(requests) - 1 /\ Len(requests) \in Nat
  BY HeadTailProperties DEF IInv, TypeOK
<1>2. TypeOK'
  BY <1>1 DEF IInv, TypeOK
<1>3. MutexInv'
  BY NamesAssumption DEF IInv, TypeOK, MutexInv
<1>4. LockInv' /\ Asleep' = Asleep /\ Outside' = Outside
  <2>1. Waiting' = Waiting /\ Started' = Started
    BY DEF IInv, TypeOK, Waiting, Started
  <2> QED BY <2>1, NoLockMoves DEF IInv, TypeOK
<1>5. Awake' = Awake \ {t} /\ t \in Awake
  BY DEF IInv, TypeOK, Awake
<1>6. CountInv'
  <2>1. Cardinality(Awake') = Cardinality(Awake) - 1 /\ Cardinality(Awake) \in Nat
    BY <1>5, OneLess DEF Awake
  <2> QED BY <1>1, <1>4, <2>1 DEF IInv, CountInv
<1>7. ServeInv'
  BY <1>1, NamesAssumption DEF IInv, TypeOK, ServeInv
<1> QED BY <1>2, <1>3, <1>4, <1>6, <1>7 DEF IInv

LEMMA ParkStep ==
    ASSUME IInv, NEW t \in Threads, Park(t)
    PROVE  IInv'
<1> USE DEF Park, handling
<1> DEFINE l == Last(pool)
<1>1. /\ l \in Threads /\ l \in Range(pool)
      /\ pool' \in Seq(Threads) /\ Len(pool') = Len(pool) - 1
      /\ Distinct(pool') /\ Range(pool') = Range(pool) \ {l}
  BY FrontLast DEF IInv, TypeOK, LockInv
<1>2. l \in held /\ l \in Started /\ l \notin Range(ready) /\ \A u \in Waiting : lock[u] # l
  BY <1>1 DEF IInv, LockInv
<1>3. /\ ready' \in Seq(Threads) /\ Len(ready') = Len(ready) + 1
      /\ Distinct(ready') /\ Range(ready') = Range(ready) \cup {l}
  BY <1>1, <1>2, AppendNew DEF IInv, TypeOK, LockInv
<1>4. TypeOK'
  BY <1>1, <1>3 DEF IInv, TypeOK
<1>5. MutexInv'
  BY NamesAssumption DEF IInv, TypeOK, MutexInv
<1> HIDE DEF l
<1>6. lock' = [lock EXCEPT ![t] = l] /\ pc' = [pc EXCEPT ![t] = "parked"]
  BY DEF l
<1>7. /\ Waiting' = Waiting \cup {t} /\ t \notin Waiting
      /\ Started' = Started
      /\ Outside' = Outside \ {t} /\ t \in Outside
      /\ Asleep' = Asleep \cup {t} /\ t \notin Asleep
      /\ Awake' = Awake \ {t}
  BY <1>2, <1>6 DEF IInv, TypeOK, Waiting, Started, Outside, Asleep, Awake
<1>8. /\ lock'[t] = l /\ pc'[t] = "parked"
      /\ \A u \in Threads : u # t => lock'[u] = lock[u] /\ pc'[u] = pc[u]
  BY <1>6 DEF IInv, TypeOK
<1>9. LockInv'
  <2>1. /\ Distinct(pool') /\ Distinct(ready')
        /\ Range(pool') \cap Range(ready') = {}
        /\ Range(pool') \subseteq held'
        /\ held' \subseteq Started'
    BY <1>1, <1>3, <1>7 DEF IInv, LockInv
  <2>2. \A u \in Waiting' : lock'[u] \in Started' \ Range(pool')
    BY <1>1, <1>2, <1>7, <1>8 DEF IInv, LockInv, Waiting
  <2>3. \A u, v \in Waiting' : lock'[u] = lock'[v] => u = v
    BY <1>2, <1>7, <1>8 DEF IInv, LockInv, Waiting
  <2>4. \A u \in Threads : pc'[u] = "woken" => lock'[u] \in held' \ Range(ready')
    BY <1>2, <1>3, <1>8 DEF IInv, LockInv, Waiting
  <2>5. \A u \in Threads :
          pc'[u] = "parked" => (lock'[u] \in held' <=> lock'[u] \in Range(ready'))
    BY <1>2, <1>3, <1>8 DEF IInv, LockInv, Waiting
  <2>6. \A k \in Range(ready') : \E u \in Threads : pc'[u] = "parked" /\ lock'[u] = k
    <3>1. ASSUME NEW k \in Range(ready)
          PROVE \E u \in Threads : pc'[u] = "parked" /\ lock'[u] = k
      <4>1. PICK u \in Threads : pc[u] = "parked" /\ lock[u] = k
        BY DEF IInv, LockInv
      <4>2. u # t
        BY <4>1
      <4> QED BY <4>1, <4>2, <1>8
    <3> QED BY <3>1, <1>3, <1>8
  <2> QED BY <2>1, <2>2, <2>3, <2>4, <2>5, <2>6 DEF LockInv
<1>10. CountInv'
  <2>1. Cardinality(Outside') = Cardinality(Outside) - 1
    BY <1>7, OneLess DEF Outside
  <2>2. Cardinality(Asleep') = Cardinality(Asleep) + 1
    BY <1>7, OneMore DEF Asleep
  <2>3. Cardinality(Awake') \in Nat
    BY ThreadsAssumption, FS_Subset, FS_CardinalityType, Awake' \subseteq Threads DEF Awake
  <2>4. Len(requests') = 0
    OBVIOUS
  <2> QED BY <1>1, <1>3, <2>1, <2>2, <2>3, <2>4 DEF IInv, CountInv
<1>11. ServeInv'
  BY DEF IInv, TypeOK, ServeInv
<1> QED BY <1>4, <1>5, <1>9, <1>10, <1>11 DEF IInv

LEMMA UnparkStep ==
    ASSUME IInv, NEW t \in Threads, Unpark(t)
    PROVE  IInv'
<1> USE DEF Unpark, lists, handling
<1>1. lock[t] \in Threads
  BY DEF IInv, TypeOK
<1>2. TypeOK'
  BY <1>1 DEF IInv, TypeOK
<1>3. MutexInv'
  BY DEF IInv, TypeOK, MutexInv
<1>4. /\ pc'[t] = "woken"
      /\ \A u \in Threads : u # t => pc'[u] = pc[u]
  BY DEF IInv, TypeOK
<1>5. t \in Waiting /\ \A u \in Waiting : u # t => lock[u] # lock[t]
  BY DEF IInv, LockInv, Waiting
<1>6. /\ Waiting' = Waiting /\ Started' = Started /\ Outside' = Outside
  BY DEF IInv, TypeOK, Waiting, Started, Outside
<1>7. Asleep' = Asleep
  BY <1>4, <1>5 DEF Asleep, Waiting
<1>8. Awake' = Awake
  BY <1>4, <1>5 DEF Awake, Waiting
<1>9. LockInv'
  <2>1. /\ Distinct(pool') /\ Distinct(ready')
        /\ Range(pool') \cap Range(ready') = {}
        /\ Range(pool') \subseteq held'
    BY DEF IInv, LockInv
  <2>2. held' \subseteq Started'
    BY <1>5, <1>6 DEF IInv, LockInv
  <2>3. /\ \A u \in Waiting' : lock'[u] \in Started' \ Range(pool')
        /\ \A u, v \in Waiting' : lock'[u] = lock'[v] => u = v
    BY <1>6 DEF IInv, LockInv
  <2>4. \A u \in Threads : pc'[u] = "woken" => lock'[u] \in held' \ Range(ready')
    BY <1>4 DEF IInv, LockInv
  <2>5. \A u \in Threads :
          pc'[u] = "parked" => (lock'[u] \in held' <=> lock'[u] \in Range(ready'))
    BY <1>4, <1>5 DEF IInv, LockInv, Waiting
  <2>6. \A k \in Range(ready') : \E u \in Threads : pc'[u] = "parked" /\ lock'[u] = k
    <3> SUFFICES ASSUME NEW k \in Range(ready)
                 PROVE  \E u \in Threads : pc'[u] = "parked" /\ lock'[u] = k
      OBVIOUS
    <3>1. PICK u \in Threads : pc[u] = "parked" /\ lock[u] = k
      BY DEF IInv, LockInv
    <3>2. u # t
      BY <3>1 DEF IInv, LockInv
    <3> QED BY <3>1, <3>2, <1>4
  <2> QED BY <2>1, <2>2, <2>3, <2>4, <2>5, <2>6 DEF LockInv
<1>10. CountInv'
  BY <1>6, <1>7, <1>8 DEF IInv, CountInv
<1>11. ServeInv'
  BY DEF IInv, TypeOK, ServeInv
<1> QED BY <1>2, <1>3, <1>9, <1>10, <1>11 DEF IInv

LEMMA ReenterStep ==
    ASSUME IInv, NEW t \in Threads, Reenter(t)
    PROVE  IInv'
<1> USE DEF Reenter, PutLockBack, handling
<1>1. /\ lock[t] \in Threads /\ lock[t] \in held \ Range(ready)
      /\ lock[t] \in Started \ Range(pool)
      /\ \A u \in Waiting : u # t => lock[u] # lock[t]
  BY DEF IInv, TypeOK, LockInv, Waiting
<1>2. /\ pool' \in Seq(Threads) /\ Len(pool') = Len(pool) + 1
      /\ Range(pool') = Range(pool) \cup {lock[t]} /\ Distinct(pool')
  BY <1>1, AppendNew DEF IInv, TypeOK, LockInv
<1>3. TypeOK'
  BY <1>2 DEF IInv, TypeOK
<1>4. MutexInv'
  BY NamesAssumption DEF IInv, TypeOK, MutexInv
<1>5. /\ pc'[t] = "test"
      /\ \A u \in Threads : u # t => pc'[u] = pc[u]
  BY DEF IInv, TypeOK
<1>6. /\ Waiting' = Waiting \ {t} /\ t \in Waiting
      /\ Started' = Started
      /\ Outside' = Outside \cup {t} /\ t \notin Outside
      /\ Asleep' = Asleep
      /\ Awake' = Awake
  BY <1>5 DEF IInv, TypeOK, Waiting, Started, Outside, Asleep, Awake
<1>7. LockInv'
  <2>1. /\ Distinct(pool') /\ Distinct(ready')
        /\ Range(pool') \cap Range(ready') = {}
        /\ Range(pool') \subseteq held'
        /\ held' \subseteq Started'
    BY <1>1, <1>2, <1>6 DEF IInv, LockInv
  <2>2. /\ \A u \in Waiting' : lock'[u] \in Started' \ Range(pool')
        /\ \A u, v \in Waiting' : lock'[u] = lock'[v] => u = v
    BY <1>1, <1>2, <1>6 DEF IInv, LockInv
  <2>3. /\ \A u \in Threads : pc'[u] = "woken" => lock'[u] \in held' \ Range(ready')
        /\ \A u \in Threads :
             pc'[u] = "parked" => (lock'[u] \in held' <=> lock'[u] \in Range(ready'))
    BY <1>5 DEF IInv, LockInv
  <2>4. \A k \in Range(ready') : \E u \in Threads : pc'[u] = "parked" /\ lock'[u] = k
    BY <1>5 DEF IInv, LockInv
  <2> QED BY <2>1, <2>2, <2>3, <2>4 DEF LockInv
<1>8. CountInv'
  <2>1. Cardinality(Outside') = Cardinality(Outside) + 1
    BY <1>6, OneMore DEF Outside
  <2> QED BY <1>2, <1>6, <2>1 DEF IInv, CountInv
<1>9. ServeInv'
  BY DEF IInv, TypeOK, ServeInv
<1> QED BY <1>3, <1>4, <1>7, <1>8, <1>9 DEF IInv

LEMMA HandleAcquireStep ==
    ASSUME IInv, NEW c \in Callers, NEW r \in Requests, HandleAcquire(c, r)
    PROVE  IInv'
<1> USE DEF HandleAcquire, lists
<1>1. TypeOK'
  BY DEF IInv, TypeOK
<1>2. MutexInv'
  BY NamesAssumption DEF IInv, TypeOK, MutexInv
<1>3. LockInv' /\ Asleep' = Asleep /\ Outside' = Outside
  <2>1. Waiting' = Waiting /\ Started' = Started
    BY DEF Waiting, Started
  <2> QED BY <2>1, NoLockMoves DEF IInv, TypeOK
<1>4. Awake' = Awake
  BY DEF Awake
<1>5. CountInv'
  BY <1>3, <1>4 DEF IInv, CountInv
<1>6. ServeInv'
  BY DEF IInv, TypeOK, ServeInv
<1> QED BY <1>1, <1>2, <1>3, <1>5, <1>6 DEF IInv

LEMMA HandleReleaseStep ==
    ASSUME IInv, NEW c \in Callers, HandleRelease(c)
    PROVE  IInv'
<1> USE DEF HandleRelease, lists, handling
<1>1. TypeOK'
  BY DEF IInv, TypeOK
<1>2. MutexInv'
  BY NamesAssumption DEF IInv, TypeOK, MutexInv
<1>3. LockInv' /\ Asleep' = Asleep /\ Outside' = Outside
  <2>1. Waiting' = Waiting /\ Started' = Started
    BY DEF Waiting, Started
  <2> QED BY <2>1, NoLockMoves DEF IInv, TypeOK
<1>4. Awake' = Awake
  BY DEF Awake
<1>5. CountInv'
  BY <1>3, <1>4 DEF IInv, CountInv
<1>6. ServeInv'
  BY DEF IInv, TypeOK, ServeInv
<1> QED BY <1>1, <1>2, <1>3, <1>5, <1>6 DEF IInv

LEMMA HandleQueueStep ==
    ASSUME IInv, NEW c \in Callers, HandleQueue(c)
    PROVE  IInv'
<1> USE DEF HandleQueue, QueueRequest, WakeOne
<1>1. /\ calling[c] \in Requests
      /\ requests' \in Seq(Requests)
      /\ Len(requests') = Len(requests) + 1 /\ Len(requests) \in Nat
  BY AppendNew DEF IInv, TypeOK
<1>2. MutexInv'
  BY DEF IInv, TypeOK, MutexInv
<1>3. ServeInv'
  BY DEF IInv, TypeOK, ServeInv
<1>4. CASE ready = <<>>
  <2>1. TypeOK'
    BY <1>1, <1>4 DEF IInv, TypeOK
  <2>2. LockInv' /\ Asleep' = Asleep /\ Outside' = Outside
    <3>1. Waiting' = Waiting /\ Started' = Started
      BY DEF Waiting, Started
    <3> QED BY <1>4, <3>1, NoLockMoves DEF IInv, TypeOK
  <2>3. CountInv'
    BY <1>4, <2>2 DEF IInv, CountInv
  <2> QED BY <1>2, <1>3, <2>1, <2>2, <2>3 DEF IInv
<1>5. CASE ready # <<>>
  <2> DEFINE l == Last(ready)
  <2>1. /\ l \in Threads /\ l \in Range(ready)
        /\ ready' \in Seq(Threads) /\ Len(ready') = Len(ready) - 1
        /\ Distinct(ready') /\ Range(ready') = Range(ready) \ {l}
    <3>1. ready' = Front(ready) /\ ready \in Seq(Threads) /\ Distinct(ready)
      BY <1>5 DEF IInv, TypeOK, LockInv
    <3> QED BY <3>1, <1>5, FrontLast
  <2>2. held' = held \ {l}
    BY <1>5
  <2> HIDE DEF l
  <2>3. PICK t \in Threads : pc[t] = "parked" /\ lock[t] = l
    BY <2>1 DEF IInv, LockInv
  <2>4. /\ t \in Asleep /\ t \in Waiting
        /\ \A u \in Waiting : u # t => lock[u] # l
    BY <2>1, <2>3, ReadyHeld DEF IInv, LockInv, Waiting, Asleep
  <2>5. TypeOK'
    BY <1>1, <2>1, <2>2 DEF IInv, TypeOK
  <2>6. Waiting' = Waiting /\ Started' = Started /\ Outside' = Outside
    BY DEF Waiting, Started, Outside
  <2>7. /\ Asleep' = Asleep \ {t}
        /\ Awake' = Awake \cup {t} /\ t \notin Awake
    BY <2>2, <2>3, <2>4 DEF Asleep, Awake, Waiting
  <2>8. LockInv'
    <3>1. /\ Distinct(pool') /\ Distinct(ready')
          /\ Range(pool') \cap Range(ready') = {}
          /\ held' \subseteq Started'
      BY <2>1, <2>2, <2>6 DEF IInv, LockInv
    <3>2. Range(pool') \subseteq held'
      BY <2>1, <2>2 DEF IInv, LockInv
    <3>3. /\ \A u \in Waiting' : lock'[u] \in Started' \ Range(pool')
          /\ \A u, v \in Waiting' : lock'[u] = lock'[v] => u = v
      BY <2>6 DEF IInv, LockInv
    <3>4. \A u \in Threads : pc'[u] = "woken" => lock'[u] \in held' \ Range(ready')
      BY <2>1, <2>2, <2>3, <2>4 DEF IInv, LockInv, Waiting
    <3>5. \A u \in Threads :
            pc'[u] = "parked" => (lock'[u] \in held' <=> lock'[u] \in Range(ready'))
      BY <2>1, <2>2 DEF IInv, LockInv
    <3>6. \A k \in Range(ready') : \E u \in Threads : pc'[u] = "parked" /\ lock'[u] = k
      BY <2>1 DEF IInv, LockInv
    <3> QED BY <3>1, <3>2, <3>3, <3>4, <3>5, <3>6 DEF LockInv
  <2>9. CountInv'
    <3>1. Cardinality(Asleep') = Cardinality(Asleep) - 1
      BY <2>4, <2>7, OneLess DEF Asleep
    <3>2. Cardinality(Awake') = Cardinality(Awake) + 1 /\ Cardinality(Awake) \in Nat
      BY <2>7, OneMore DEF Awake
    <3> QED BY <1>1, <1>5, <2>1, <2>6, <3>1, <3>2 DEF IInv, CountInv
  <2> QED BY <1>2, <1>3, <2>5, <2>8, <2>9 DEF IInv
<1> QED BY <1>4, <1>5

LEMMA StutterStep == IInv /\ UNCHANGED vars => IInv'
<1> SUFFICES ASSUME IInv, UNCHANGED vars PROVE IInv'
  OBVIOUS
<1> USE DEF vars
<1>1. TypeOK' /\ MutexInv' /\ ServeInv'
  BY DEF IInv, TypeOK, MutexInv, ServeInv
<1>2. LockInv' /\ Asleep' = Asleep /\ Outside' = Outside
  <2>1. Waiting' = Waiting /\ Started' = Started
    BY DEF Waiting, Started
  <2> QED BY <2>1, NoLockMoves DEF IInv, TypeOK
<1>3. Awake' = Awake
  BY DEF Awake
<1> QED BY <1>1, <1>2, <1>3 DEF IInv, CountInv

LEMMA NextIInv == IInv /\ [Next]_vars => IInv'
<1> SUFFICES ASSUME IInv, [Next]_vars PROVE IInv'
  OBVIOUS
<1>1. CASE Next
  <2>1. ASSUME NEW t \in Threads, StartThread(t) \/ Accept(t) \/ Published(t)
        PROVE  IInv'
    BY <2>1, StartThreadStep, EnterStep, ParkStep, UnparkStep, ReenterStep, TakeStep,
       PublishedStep DEF Accept
  <2>2. CASE Constructed
    BY <2>2, ConstructedStep
  <2>3. ASSUME NEW c \in Callers, Handle(c)
        PROVE  IInv'
    BY <2>3, HandleAcquireStep, HandleQueueStep, HandleReleaseStep DEF Handle
  <2> QED BY <1>1, <2>1, <2>2, <2>3 DEF Next
<1>2. CASE UNCHANGED vars
  BY <1>2, StutterStep
<1> QED BY <1>1, <1>2

\* The invariant holds in every reachable state.
THEOREM Invariance == Spec => []IInv
BY InitIInv, NextIInv, PTL DEF Spec

-----------------------------------------------------------------------------
(* The properties of ZRendezvous *)

\* Every variable keeps its type, ZRendezvous.py:29-35.
THEOREM TypeCorrect == Spec => []TypeOK
<1>1. IInv => TypeOK
  BY DEF IInv
<1> QED BY <1>1, Invariance, PTL

\* pool.pop() at ZRendezvous.py:63 never meets an empty list: a thread that runs
\* accept is outside, so the pool holds at least one lock.
THEOREM PoolIsNeverEmpty == Spec => []PoolNeverEmpty
<1>1. ASSUME IInv, NEW t \in Threads, pc[t] = "test" PROVE pool # <<>>
  <2>1. t \in Outside
    BY <1>1 DEF Outside
  <2>2. Outside \subseteq Threads
    BY DEF Outside
  <2>3. /\ Cardinality(Outside) \in Nat /\ Cardinality(Outside \ {t}) \in Nat
        /\ Cardinality(Outside \ {t}) = Cardinality(Outside) - 1
    BY <2>1, <2>2, OneLess
  <2>4. Len(pool) # 0
    BY <1>1, <2>3 DEF IInv, CountInv
  <2> QED BY <2>4
<1>2. IInv => PoolNeverEmpty
  BY <1>1 DEF PoolNeverEmpty
<1> QED BY <1>2, Invariance, PTL

\* ready lists exactly the sleeping threads, one lock each, ZRendezvous.py:67-73
\* and 93-98.
THEOREM ReadyListsTheSleepers == Spec => []ReadyIsTheSleepers
<1>1. ASSUME IInv PROVE {lock[t] : t \in Asleep} = Range(ready)
  BY <1>1, ReadyHeld DEF IInv, LockInv, Asleep
<1>2. IInv => ReadyIsTheSleepers
  BY <1>1 DEF ReadyIsTheSleepers, IInv, CountInv
<1> QED BY <1>2, Invariance, PTL

\* No wakeup is lost: a request never waits for a thread that sleeps,
\* ZRendezvous.py:58-77 and 91-98.
THEOREM WakeupsAreNotLost == Spec => []NoLostWakeup
<1>1. ASSUME IInv, Asleep # {} PROVE ready # <<>>
  <2>1. PICK t \in Asleep : TRUE
    BY <1>1
  <2>2. lock[t] \in Range(ready)
    BY <1>1, <2>1 DEF IInv, LockInv, Asleep
  <2> QED BY <2>2, EmptyList
<1>2. IInv => NoLostWakeup
  BY <1>1 DEF NoLostWakeup, IInv, CountInv
<1> QED BY <1>2, Invariance, PTL

-----------------------------------------------------------------------------
(* The pool implements RequestQueue *)

LEMMA InitImplements == Init => Abstract!Init
BY DEF Init, Abstract!Init

\* A step that leaves the queue and the serving threads alone is a stutter of
\* RequestQueue, as long as no caller's request counts as accepted too early.
LEMMA NextImplements == IInv /\ [Next]_vars => [Abstract!Next]_(Abstract!vars)
<1> SUFFICES ASSUME IInv, [Next]_vars PROVE [Abstract!Next]_(Abstract!vars)
  OBVIOUS
<1> USE DEF Abstract!vars
<1>1. ASSUME NEW t \in Threads, StartThread(t) \/ Enter(t) \/ Park(t) \/ Unpark(t) \/ Reenter(t)
      PROVE  UNCHANGED Abstract!vars
  BY <1>1 DEF StartThread, Enter, Park, Unpark, Reenter, PutLockBack, lists, handling
<1>2. ASSUME NEW t \in Threads, Take(t)
      PROVE  Abstract!Take(t)
  <2>1. serving[t] = NoRequest
    BY <1>2 DEF Take, IInv, ServeInv
  <2> QED BY <1>2, <2>1 DEF Take, PopFirst, Abstract!Take, handling
<1>3. ASSUME NEW t \in Threads, Published(t)
      PROVE  Abstract!Finish(t)
  <2>1. serving[t] # NoRequest
    BY <1>3 DEF Published, IInv, ServeInv
  <2> QED BY <1>3, <2>1 DEF Published, Abstract!Finish, lists, handling
<1>4. CASE Constructed
  BY <1>4 DEF Constructed, lists, handling
<1>5. ASSUME NEW c \in Callers, NEW r \in Requests, HandleAcquire(c, r)
      PROVE  UNCHANGED Abstract!vars
  <2>1. \A d \in Callers : calling[d] = NoRequest
    BY <1>5, NamesAssumption DEF HandleAcquire, IInv, MutexInv
  <2>2. /\ calling'[c] = r
        /\ \A d \in Callers : d # c => calling'[d] = NoRequest
    BY <1>5, <2>1 DEF HandleAcquire, IInv, TypeOK
  <2>3. accepted' = accepted \cup {r} /\ r \notin accepted /\ NoRequest \notin accepted
    BY <1>5, NamesAssumption DEF HandleAcquire, IInv, TypeOK
  <2>4. accepted' \ {calling'[d] : d \in Callers} = accepted \ {calling[d] : d \in Callers}
    BY <2>1, <2>2, <2>3
  <2>5. UNCHANGED <<requests, serving>>
    BY <1>5 DEF HandleAcquire, lists
  <2> QED BY <2>4, <2>5
<1>6. ASSUME NEW c \in Callers, HandleQueue(c)
      PROVE  \E r \in Requests : Abstract!Submit(r)
  <2>1. PICK r \in Requests : r = calling[c] /\ r \in accepted
    BY <1>6 DEF HandleQueue, IInv, TypeOK, ServeInv
  <2>2. mutex = c /\ \A d \in Callers : d # c => calling[d] = NoRequest
    BY <1>6 DEF HandleQueue, IInv, MutexInv
  <2>3. \A d \in Callers : calling'[d] = NoRequest
    BY <1>6, <2>2 DEF HandleQueue, IInv, TypeOK
  <2>4. accepted' = accepted /\ NoRequest \notin accepted
    BY <1>6, NamesAssumption DEF HandleQueue, IInv, TypeOK
  <2>5. r \notin accepted \ {calling[d] : d \in Callers}
    BY <2>1
  <2>6. accepted' \ {calling'[d] : d \in Callers}
          = (accepted \ {calling[d] : d \in Callers}) \cup {r}
    BY <2>1, <2>2, <2>3, <2>4
  <2>7. requests' = Append(requests, r) /\ serving' = serving
    BY <1>6, <2>1 DEF HandleQueue, QueueRequest
  <2>8. Abstract!Submit(r)
    BY <2>5, <2>6, <2>7 DEF Abstract!Submit
  <2> QED BY <2>1, <2>8
<1>7. ASSUME NEW c \in Callers, HandleRelease(c)
      PROVE  UNCHANGED Abstract!vars
  BY <1>7 DEF HandleRelease, lists, handling
<1>8. CASE UNCHANGED vars
  BY <1>8 DEF vars
<1> QED BY <1>1, <1>2, <1>3, <1>4, <1>5, <1>6, <1>7, <1>8
        DEF Next, Accept, Handle, Abstract!Next

\* Whatever the interleaving, the pool is one first-in first-out queue from which
\* each request is taken once, ZRendezvous.py:79-80 and 91-92.
THEOREM Refinement == Spec => ImplementsQueue
BY InitImplements, NextImplements, Invariance, PTL DEF Spec, ImplementsQueue, Abstract!Spec
=============================================================================
