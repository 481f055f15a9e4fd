---------------------- MODULE TransientContainer_proofs ----------------------
(***************************************************************************)
(* Theorems about the container of the sessions, for any threads, keys,    *)
(* timeout, number of spare buckets and span of transactions.              *)
(*                                                                         *)
(* A container is Sound when the buckets from the present slice to         *)
(* _max_timeslice are all there, and finalization has reached neither.     *)
(* One container Follows another if it was made from it: it has grown at   *)
(* the end, and lost only buckets it has finalized.  A transaction's view  *)
(* and the database both follow what the transaction found, and that is    *)
(* why merging them keeps the row of buckets unbroken.                     *)
(*                                                                         *)
(* A container has an object At a slice and a key.  SessionInv says what a *)
(* transaction may have made of the places it found: nothing new in slices *)
(* before it began, and nothing gone that was not passed to notifyDel,     *)
(* deleted or moved.  Two transactions that overlap are within twice the   *)
(* span of one: what either has put is in a bucket that the other has not  *)
(* finalized, and their merge keeps it (2 * MaxSpan <= TimeoutSlices).     *)
(*                                                                         *)
(* QuietInv is about transactions that begin and end in one slice.  Each   *)
(* container is then an Heir of what was found: it has the same objects in *)
(* the buckets that are no longer searched, it finalizes all of them or    *)
(* none, and what it has put somewhere is its own or was found.  Merged,   *)
(* two heirs keep one place for an object, one object to find for a key,   *)
(* and the count of both.                                                  *)
(***************************************************************************)
EXTENDS TransientContainer, TLAPS, FiniteSetTheorems, WellFoundedInduction

Bucket == [Keys -> Items \cup {NoItem}]
Datas == UNION {[S -> Bucket] : S \in SUBSET Int}

Container == [data : Datas, max : Int, fin : Int, gc : Int, ceiling : Int, floor : Int,
              told : SUBSET Items, removed : SUBSET Items]

\* Nothing is said of max and fin: finalization may have passed an idle max.
Sound(c) ==
    /\ c \in Container
    /\ DOMAIN c.data \subseteq 0 .. clock + 2 * SpareBuckets - 1
    /\ clock .. c.max \subseteq DOMAIN c.data
    /\ c.max \in DOMAIN c.data
    /\ c.fin < clock

Ahead(c) == c.fin < c.max

Follows(old, new) ==
    /\ old.max <= new.max /\ old.fin <= new.fin
    /\ \A s \in DOMAIN old.data : s > new.fin => s \in DOMAIN new.data

\* What an operation may make of the container a transaction has.
Made(b, c) == Sound(c) /\ Ahead(c) /\ Follows(b, c)

Transactions == [base : Container, view : Container, since : StartTime .. clock]

TInv ==
    /\ clock \in StartTime .. MaxTime /\ inband \in BOOLEAN /\ spanned \in BOOLEAN
    /\ ops \in 0 .. MaxOps
    /\ open \subseteq Threads /\ txn \in [open -> Transactions]

BucketInv ==
    /\ Sound(db) /\ Ahead(db)
    /\ \A t \in open : /\ Made(txn[t].base, txn[t].view)
                       /\ Sound(txn[t].base) /\ Ahead(txn[t].base)
                       /\ Follows(txn[t].base, db)

-----------------------------------------------------------------------------
(* Buckets *)

LEMMA DatasDef ==
    ASSUME NEW f
    PROVE  f \in Datas <=> DOMAIN f \subseteq Int /\ f \in [DOMAIN f -> Bucket]
  BY DEF Datas

\* The present slice is a number.
LEMMA ClockIsNat == ASSUME TInv PROVE clock \in Nat
  BY ContainerAssumption DEF TInv

\* The greatest of an interval.
LEMMA MaxOfInterval ==
    ASSUME NEW a \in Int, NEW b \in Int, a <= b
    PROVE  Max(a .. b) = b
<1>1. b \in a .. b /\ \A y \in a .. b : b >= y
  OBVIOUS
<1>2. \A x \in a .. b : (\A y \in a .. b : x >= y) => x = b
  OBVIOUS
<1> QED BY <1>1, <1>2 DEF Max

\* Conflict resolution by the greatest of three values.
LEMMA GreatestOfThree ==
    ASSUME NEW a \in Int, NEW b \in Int, NEW c \in Int
    PROVE  /\ Greatest(a, b, c) \in {a, b, c} /\ Greatest(a, b, c) \in Int
           /\ a <= Greatest(a, b, c) /\ b <= Greatest(a, b, c) /\ c <= Greatest(a, b, c)
           /\ Floor(a, b, c) \in Int
<1>1. \E x \in {a, b, c} : \A y \in {a, b, c} : x >= y
  <2>1. CASE a >= b /\ a >= c
    BY <2>1
  <2>2. CASE b >= a /\ b >= c
    BY <2>2
  <2>3. CASE c >= a /\ c >= b
    BY <2>3
  <2> QED BY <2>1, <2>2, <2>3
<1>2. Max({a, b, c}) \in {a, b, c} /\ \A y \in {a, b, c} : Max({a, b, c}) >= y
  BY <1>1 DEF Max
<1> QED BY <1>2 DEF Greatest, Floor

\* A new bucket is a bucket.
LEMMA EmptyBucketType == EmptyBucket \in Bucket
  BY DEF EmptyBucket, Bucket

\* Adding a run of new buckets after, or at, the present.
LEMMA ExtendedProperties ==
    ASSUME TInv, NEW c, Sound(c), NEW a \in Nat, NEW b \in Int, a <= b
    PROVE  /\ Extended(c, a .. b) \in Container
           /\ DOMAIN Extended(c, a .. b).data = DOMAIN c.data \cup a .. b
           /\ Extended(c, a .. b).max = b
           /\ Extended(c, a .. b).fin = c.fin
<1> DEFINE d == [s \in DOMAIN c.data \cup a .. b |->
                    IF s \in a .. b THEN EmptyBucket ELSE c.data[s]]
<1>1. c \in Container /\ c.data \in Datas
  BY DEF Sound, Container
<1>2. DOMAIN c.data \subseteq Int /\ c.data \in [DOMAIN c.data -> Bucket]
  BY <1>1, DatasDef
<1>3. d \in Datas
  <2>1. DOMAIN d \subseteq Int
    BY <1>2
  <2>2. d \in [DOMAIN d -> Bucket]
    BY <1>2, EmptyBucketType
  <2> QED BY <2>1, <2>2, DatasDef
<1>4. Max(a .. b) = b
  BY MaxOfInterval
<1>5. Extended(c, a .. b) = [c EXCEPT !.data = d, !.max = b]
  BY <1>4 DEF Extended
<1> HIDE DEF d
<1>6. [c EXCEPT !.data = d, !.max = b] \in Container
  BY <1>1, <1>3 DEF Container
<1>7. DOMAIN d = DOMAIN c.data \cup a .. b
  BY DEF d
<1> QED BY <1>1, <1>5, <1>6, <1>7 DEF Container

\* The slices of the entries are buckets, and there are finitely many.
LEMMA EntriesAreFinite ==
    ASSUME TInv, NEW c, Sound(c), NEW slices
    PROVE  /\ IsFiniteSet(Entries(c, slices))
           /\ Cardinality(Entries(c, slices)) \in Nat
<1>1. clock + 2 * SpareBuckets - 1 \in Int
  BY ClockIsNat, ContainerAssumption
<1>2. IsFiniteSet(0 .. clock + 2 * SpareBuckets - 1)
  BY <1>1, FS_Interval
<1>3. IsFiniteSet(DOMAIN c.data \cap slices)
  <2>1. DOMAIN c.data \cap slices \in SUBSET (0 .. clock + 2 * SpareBuckets - 1)
    BY DEF Sound
  <2> QED BY <1>2, <2>1, FS_Subset
<1>4. IsFiniteSet((DOMAIN c.data \cap slices) \X Keys)
  BY <1>3, FS_Product, ContainerAssumption
<1>5. Entries(c, slices) \in SUBSET ((DOMAIN c.data \cap slices) \X Keys)
  BY DEF Entries
<1>6. IsFiniteSet(Entries(c, slices))
  BY <1>4, <1>5, FS_Subset
<1> QED BY <1>6, FS_CardinalityType

LEMMA ItemsInType ==
    ASSUME NEW c \in Container, NEW slices
    PROVE  ItemsIn(c, slices) \subseteq Items
<1>1. c.data \in [DOMAIN c.data -> Bucket]
  BY DatasDef DEF Container
<1>2. ASSUME NEW e \in Entries(c, slices) PROVE c.data[e[1]][e[2]] \in Items
  BY <1>1 DEF Entries, Bucket
<1> QED BY <1>2 DEF ItemsIn

-----------------------------------------------------------------------------
(* Housekeeping *)

\* Finalization takes no bucket away and stays behind the present.
LEMMA FinalizedSound ==
    ASSUME TInv, NEW b, NEW c, Sound(c), Follows(b, c), Sound(b)
    PROVE  Sound(Finalized(c, clock)) /\ Follows(b, Finalized(c, clock))
<1> DEFINE expired == c.fin + 1 .. MaxExpired(clock)
           f == c.floor + Cardinality(Entries(c, expired))
           w == c.told \cup ItemsIn(c, expired)
           e == [c EXCEPT !.fin = MaxExpired(clock), !.floor = f, !.told = w]
<1>1. CASE c.fin + 1 >= MaxExpired(clock)
  BY <1>1 DEF Finalized
<1>2. CASE ~(c.fin + 1 >= MaxExpired(clock))
  <2>1. Finalized(c, clock) = e
    BY <1>2 DEF Finalized
  <2>2. f \in Int /\ w \in SUBSET Items /\ c \in Container
    <3>1. c \in Container
      BY DEF Sound
    <3>2. Cardinality(Entries(c, expired)) \in Nat
      BY EntriesAreFinite
    <3>3. ItemsIn(c, expired) \subseteq Items
      BY <3>1, ItemsInType
    <3> QED BY <3>1, <3>2, <3>3 DEF Container
  <2>3. MaxExpired(clock) \in Int /\ MaxExpired(clock) < clock
    BY ClockIsNat, ContainerAssumption DEF MaxExpired
  <2> HIDE DEF f, w
  <2>4. /\ e \in Container /\ e.data = c.data /\ e.max = c.max
        /\ e.fin = MaxExpired(clock)
    BY <2>2, <2>3 DEF Container
  <2> HIDE DEF e
  <2>5. c.fin \in Int /\ c.fin <= MaxExpired(clock) /\ b.fin \in Int
    BY <1>2, <2>2, <2>3 DEF Container, Sound
  <2>6. DOMAIN c.data \subseteq Int /\ DOMAIN b.data \subseteq Int
    BY DatasDef DEF Sound, Container
  <2>7. Sound(e)
    BY <2>3, <2>4 DEF Sound
  <2>8. Follows(b, e)
    BY <2>3, <2>4, <2>5, <2>6 DEF Follows
  <2> QED BY <2>1, <2>7, <2>8
<1> QED BY <1>1, <1>2

\* Replenishing keeps the row unbroken, and makes a bucket for the present.
LEMMA ReplentishedSound ==
    ASSUME TInv, NEW b, NEW c, Sound(c), Follows(b, c), Sound(b)
    PROVE  LET r == Replentished(c, clock)
           IN  Sound(r) /\ Follows(b, r) /\ r.max > clock - 1 /\ Ahead(r)
<1> DEFINE r == Replentished(c, clock)
<1>1. /\ clock \in Nat /\ SpareBuckets \in Nat /\ SpareBuckets >= 1
      /\ c.max \in Nat /\ c.fin \in Int /\ b.max \in Int /\ b.fin \in Int
  BY ClockIsNat, ContainerAssumption DEF Sound, Container
<1>2. DOMAIN c.data \subseteq Int /\ DOMAIN b.data \subseteq Int
  BY DatasDef DEF Sound, Container
<1>3. CASE c.max - clock >= SpareBuckets
  BY <1>1, <1>3 DEF Replentished, Sound, Ahead
<1>4. CASE ~(c.max - clock >= SpareBuckets) /\ c.max < clock
  <2>1. r = Extended(c, clock .. clock + SpareBuckets - 1)
    BY <1>4 DEF Replentished
  <2>2. /\ r \in Container /\ r.max = clock + SpareBuckets - 1 /\ r.fin = c.fin
        /\ DOMAIN r.data = DOMAIN c.data \cup clock .. clock + SpareBuckets - 1
    BY <1>1, <2>1, ExtendedProperties
  <2> HIDE DEF r
  <2>3. Sound(r)
    BY <1>1, <1>2, <2>2 DEF Sound
  <2> QED BY <1>1, <1>2, <1>4, <2>2, <2>3 DEF Follows, Sound, Ahead, r
<1>5. CASE ~(c.max - clock >= SpareBuckets) /\ ~(c.max < clock)
  <2>1. r = Extended(c, c.max + 1 .. c.max + SpareBuckets)
    BY <1>5 DEF Replentished
  <2>2. /\ r \in Container /\ r.max = c.max + SpareBuckets /\ r.fin = c.fin
        /\ DOMAIN r.data = DOMAIN c.data \cup c.max + 1 .. c.max + SpareBuckets
    BY <1>1, <2>1, ExtendedProperties
  <2> HIDE DEF r
  <2>3. Sound(r)
    BY <1>1, <1>2, <1>5, <2>2 DEF Sound
  <2> QED BY <1>1, <1>2, <1>5, <2>2, <2>3 DEF Follows, Sound, Ahead, r
<1> QED BY <1>3, <1>4, <1>5

\* Collection takes away only what is finalized.
LEMMA CollectedSound ==
    ASSUME TInv, NEW b, NEW c, Made(b, c), Sound(b)
    PROVE  Made(b, Collected(c, clock)) /\ Collected(c, clock).max = c.max
<1> DEFINE d == [s \in {x \in DOMAIN c.data : x > c.fin} |-> c.data[s]]
           g == Collected(c, clock)
<1>1. c \in Container /\ clock \in Nat
  BY ClockIsNat DEF Made, Sound
<1>2. DOMAIN c.data \subseteq Int /\ c.data \in [DOMAIN c.data -> Bucket]
  BY <1>1, DatasDef DEF Container
<1>3. d \in Datas
  BY <1>2, DatasDef
<1>4. g = [c EXCEPT !.data = d, !.gc = clock]
  BY DEF Collected
<1>5. DOMAIN d = {x \in DOMAIN c.data : x > c.fin}
  OBVIOUS
<1> HIDE DEF d, g
<1>6. /\ g \in Container /\ g.data = d /\ g.max = c.max /\ g.fin = c.fin
  <2>1. clock \in Int
    BY <1>1
  <2>2. [c EXCEPT !.data = d, !.gc = clock] \in Container
    BY ONLY <1>1, <1>3, <2>1 DEF Container
  <2> QED BY <1>1, <1>4, <2>2 DEF Container
<1>7. DOMAIN b.data \subseteq Int
  BY DatasDef DEF Sound, Container
<1>8. Sound(g)
  BY <1>1, <1>2, <1>5, <1>6 DEF Made, Sound, Ahead, Container
<1>9. Follows(b, g)
  BY <1>1, <1>5, <1>6, <1>7 DEF Made, Follows
<1> QED BY <1>6, <1>8, <1>9 DEF Made, Ahead, g

\* Finalize, replenish, collect, each perhaps not.
LEMMA HousekeptMade ==
    ASSUME TInv, NEW t, NEW b, NEW c, Sound(b), Made(b, c),
           NEW d \in Housekept(t, c)
    PROVE  Made(b, d) /\ clock \in DOMAIN d.data
<1>1. PICK f \in Finalizes(t, c) : \E r \in Replentishes(t, f) : d \in Collects(r)
  BY DEF Housekept
<1>. PICK r \in Replentishes(t, f) : d \in Collects(r)
  BY <1>1
<1>2. Sound(f) /\ Follows(b, f)
  BY <1>1, FinalizedSound DEF Finalizes, Made
<1>3. /\ clock \in Nat /\ f.max \in Int /\ f.fin \in Int
  BY <1>2, ClockIsNat DEF Sound, Container
<1>4. Made(b, r) /\ r.max > clock - 1
  <2>1. CASE r = Replentished(f, clock)
    BY <1>2, <2>1, ReplentishedSound DEF Made
  <2>2. CASE r = f /\ ~Shortage(f)
    BY <1>2, <1>3, <2>2 DEF Shortage, Made, Ahead, Sound
  <2> QED BY <1>1, <2>1, <2>2 DEF Replentishes
<1>5. Made(b, d) /\ d.max = r.max
  BY <1>1, <1>4, CollectedSound DEF Collects
<1>6. d.max \in Int /\ d.max > clock - 1 /\ clock .. d.max \subseteq DOMAIN d.data
  BY <1>4, <1>5 DEF Made, Sound, Container
<1> QED BY <1>3, <1>5, <1>6

LEMMA PreparedMade ==
    ASSUME TInv, NEW t, NEW b, NEW c, Sound(b), Made(b, c), NEW d \in Prepared(t, c)
    PROVE  Made(b, d) /\ clock \in DOMAIN d.data
<1>1. CASE inband
  BY <1>1, HousekeptMade DEF Prepared
<1>2. CASE ~inband /\ Shortage(c)
  <2>1. d = Replentished(c, clock)
    BY <1>2 DEF Prepared
  <2>2. Made(b, d) /\ d.max > clock - 1
    BY <2>1, ReplentishedSound DEF Made
  <2>3. d.max \in Int /\ clock .. d.max \subseteq DOMAIN d.data /\ clock \in Nat
    BY <2>2, ClockIsNat DEF Made, Sound, Container
  <2> QED BY <2>2, <2>3
<1>3. CASE ~inband /\ ~Shortage(c)
  <2>1. d = c /\ c.max \in Int /\ clock \in Nat /\ clock .. c.max \subseteq DOMAIN c.data
    BY <1>3, ClockIsNat DEF Prepared, Made, Sound, Container
  <2> QED BY <1>3, <2>1 DEF Shortage
<1> QED BY <1>1, <1>2, <1>3

LEMMA PreparedTwiceMade ==
    ASSUME TInv, NEW t, NEW b, Sound(b), Made(b, txn[t].view), NEW d \in PreparedTwice(t)
    PROVE  Made(b, d) /\ clock \in DOMAIN d.data
<1>1. PICK c \in Prepared(t, txn[t].view) : d \in Prepared(t, c)
  BY DEF PreparedTwice
<1>2. Made(b, c)
  BY <1>1, PreparedMade
<1> QED BY <1>1, <1>2, PreparedMade

-----------------------------------------------------------------------------
(* Operations *)

\* A change of one entry, and of fields that do not matter for the buckets.
LEMMA PutMade ==
    ASSUME TInv, NEW b, NEW c, Made(b, c), NEW s \in DOMAIN c.data, NEW k \in Keys,
           NEW i \in Items \cup {NoItem}
    PROVE  /\ Made(b, Put(c, s, k, i))
           /\ DOMAIN Put(c, s, k, i).data = DOMAIN c.data
           /\ Put(c, s, k, i).data[s][k] = i
<1> DEFINE d == [c.data EXCEPT ![s][k] = i]
           p == Put(c, s, k, i)
<1>1. c \in Container
  BY DEF Made, Sound
<1>2. DOMAIN c.data \subseteq Int /\ c.data \in [DOMAIN c.data -> Bucket]
  BY <1>1, DatasDef DEF Container
<1>3. DOMAIN d = DOMAIN c.data /\ d \in [DOMAIN d -> Bucket] /\ d[s][k] = i
  BY <1>2 DEF Bucket
<1>4. d \in Datas
  BY <1>2, <1>3, DatasDef
<1>5. p = [c EXCEPT !.data = d]
  BY DEF Put
<1> HIDE DEF d, p
<1>6. p \in Container /\ p.data = d /\ p.max = c.max /\ p.fin = c.fin
  BY <1>1, <1>4, <1>5 DEF Container
<1>7. Made(b, p)
  BY <1>3, <1>6 DEF Made, Sound, Ahead, Follows
<1> QED BY <1>3, <1>6, <1>7 DEF p

\* The newest bucket that holds a key.
LEMMA NewestHolds ==
    ASSUME TInv, NEW c \in Container, NEW k \in Keys, Holding(c, k, clock) # {}
    PROVE  LET s == Max(Holding(c, k, clock))
           IN  s \in DOMAIN c.data /\ c.data[s][k] \in Items
<1> DEFINE H == Holding(c, k, clock)
<1>1. H \subseteq CurrentSlices(clock) /\ H \subseteq DOMAIN c.data
  BY DEF Holding
<1>2. PICK n \in H : \A y \in H : n >= y
  <2>1. clock \in Nat /\ TimeoutSlices \in Nat
    BY ClockIsNat, ContainerAssumption
  <2>2. IsFiniteSet(clock - TimeoutSlices .. clock)
    BY <2>1, FS_Interval
  <2>3. H \in SUBSET (clock - TimeoutSlices .. clock)
    BY <1>1 DEF CurrentSlices
  <2> DEFINE N == {clock - h : h \in H}
  <2>4. N \subseteq Nat /\ N # {}
    BY <2>1, <2>3
  <2> HIDE DEF N
  <2>5. PICK m \in N : \A y \in N : <<y, m>> \notin OpToRel(<, Nat)
    BY <2>4, WFMin, NatLessThanWellFounded, Zenon
  <2>8. \A y \in N : ~(y < m)
    BY <2>4, <2>5, Zenon DEF OpToRel
  <2> USE DEF N
  <2>6. PICK n \in H : m = clock - n
    BY <2>5
  <2>7. \A y \in H : n >= y
    BY <2>1, <2>3, <2>6, <2>8
  <2> QED BY <2>7
<1>3. Max(H) \in H
  BY <1>2 DEF Max
<1>4. c.data \in [DOMAIN c.data -> Bucket]
  BY DatasDef DEF Container
<1>5. c.data[Max(H)][k] # NoItem
  BY <1>3 DEF Holding
<1> QED BY <1>1, <1>3, <1>4, <1>5 DEF Bucket

\* A key that is found is afterwards in the bucket of the present.
LEMMA MovedMade ==
    ASSUME TInv, NEW b, NEW c, Made(b, c), clock \in DOMAIN c.data,
           NEW k \in Keys, Holding(c, k, clock) # {}
    PROVE  LET m == Moved(c, k, clock)
           IN  Made(b, m) /\ clock \in DOMAIN m.data /\ m.data[clock][k] \in Items
<1> DEFINE s == Max(Holding(c, k, clock))
           x == Put(c, s, k, NoItem)
           i == c.data[s][k]
<1>1. s \in DOMAIN c.data /\ i \in Items
  BY NewestHolds DEF Made, Sound
<1>2. Made(b, x) /\ clock \in DOMAIN x.data
  BY <1>1, PutMade
<1>3. Moved(c, k, clock) = Put(x, clock, k, i)
  BY DEF Moved
<1> HIDE DEF s, x, i
<1>4. /\ Made(b, Put(x, clock, k, i)) /\ clock \in DOMAIN Put(x, clock, k, i).data
      /\ Put(x, clock, k, i).data[clock][k] = i
  BY <1>1, <1>2, PutMade
<1> QED BY <1>1, <1>3, <1>4

\* The length and the deleted objects do not matter for the buckets.
LEMMA FieldsMade ==
    ASSUME NEW b, NEW c, Made(b, c),
           NEW d \in Container, d.data = c.data, d.max = c.max, d.fin = c.fin
    PROVE  Made(b, d)
  BY DEF Made, Sound, Ahead, Follows

LEMMA AddedMade ==
    ASSUME TInv, NEW b, NEW c, Made(b, c), clock \in DOMAIN c.data,
           NEW k \in Keys, NEW i \in Items
    PROVE  Made(b, Added(c, k, i, clock))
<1> DEFINE x == Put(c, clock, k, i)
<1>1. Made(b, x)
  BY PutMade
<1> HIDE DEF x
<1> DEFINE d == [x EXCEPT !.ceiling = @ + 1]
<1>2. x \in Container
  BY <1>1 DEF Made, Sound
<1>3. d \in Container /\ d.data = x.data /\ d.max = x.max /\ d.fin = x.fin
  BY <1>2 DEF Container
<1>4. Added(c, k, i, clock) = d
  BY DEF Added, x
<1> HIDE DEF d
<1> QED BY <1>1, <1>3, <1>4, FieldsMade

LEMMA DeletedMade ==
    ASSUME TInv, NEW b, NEW c, Made(b, c), clock \in DOMAIN c.data,
           NEW k \in Keys, Holding(c, k, clock) # {}
    PROVE  Made(b, Deleted(c, k, clock))
<1> DEFINE m == Moved(c, k, clock)
           x == Put(m, clock, k, NoItem)
<1>1. Made(b, m) /\ clock \in DOMAIN m.data /\ m.data[clock][k] \in Items
  BY MovedMade
<1>2. Made(b, x)
  BY <1>1, PutMade
<1> DEFINE d == [x EXCEPT !.ceiling = @ - 1, !.removed = @ \cup {m.data[clock][k]}]
<1>3. Deleted(c, k, clock) = d
  BY DEF Deleted
<1> HIDE DEF x, m
<1>4. x \in Container
  BY <1>2 DEF Made, Sound
<1>5. d \in Container /\ d.data = x.data /\ d.max = x.max /\ d.fin = x.fin
  <2>1. x.removed \cup {m.data[clock][k]} \in SUBSET Items /\ x.ceiling - 1 \in Int
    BY <1>1, <1>4 DEF Container
  <2> QED BY ONLY <1>4, <2>1 DEF Container, d
<1> HIDE DEF d
<1> QED BY <1>2, <1>3, <1>5, FieldsMade

-----------------------------------------------------------------------------
(* Merging *)

LEMMA MergedDataType ==
    ASSUME NEW o \in Container, NEW s \in Container, NEW n \in Container
    PROVE  /\ MergedData(o, s, n) \in Datas
           /\ DOMAIN MergedData(o, s, n) = (DOMAIN s.data \ (DOMAIN o.data \ DOMAIN n.data))
                                               \cup (DOMAIN n.data \ DOMAIN o.data)
<1> DEFINE d == MergedData(o, s, n)
           D == (DOMAIN s.data \ (DOMAIN o.data \ DOMAIN n.data))
                    \cup (DOMAIN n.data \ DOMAIN o.data)
<1>1. /\ DOMAIN s.data \subseteq Int /\ s.data \in [DOMAIN s.data -> Bucket]
      /\ DOMAIN n.data \subseteq Int /\ n.data \in [DOMAIN n.data -> Bucket]
  BY DatasDef DEF Container
<1>2. DOMAIN d = D
  BY DEF MergedData
<1>3. ASSUME NEW x \in D PROVE d[x] \in Bucket
  <2>1. CASE x \notin DOMAIN s.data
    BY <1>1, <2>1 DEF MergedData
  <2>2. CASE x \in DOMAIN s.data
    <3> DEFINE v(k) == IF <<x, k>> \in EntriesChanged(o, n) THEN n.data[x][k] ELSE s.data[x][k]
    <3>1. d[x] = [k \in Keys |-> v(k)]
      BY <2>2 DEF MergedData
    <3>2. ASSUME NEW k \in Keys PROVE v(k) \in Items \cup {NoItem}
      <4>1. CASE <<x, k>> \in EntriesChanged(o, n)
        <5>1. x \in DOMAIN n.data
          BY <4>1 DEF EntriesChanged
        <5> QED BY <1>1, <4>1, <5>1 DEF Bucket
      <4>2. CASE <<x, k>> \notin EntriesChanged(o, n)
        BY <1>1, <2>2, <4>2 DEF Bucket
      <4> QED BY <4>1, <4>2
    <3> HIDE DEF v
    <3> QED BY <3>1, <3>2 DEF Bucket
  <2> QED BY <2>1, <2>2
<1>4. D \subseteq Int
  BY <1>1
<1>5. d \in [D -> Bucket]
  BY <1>2, <1>3 DEF MergedData
<1> HIDE DEF d, D
<1>6. d \in Datas
  BY <1>2, <1>4, <1>5, DatasDef
<1> QED BY <1>2, <1>6 DEF d, D

\* The row of buckets stays unbroken when two versions of it are merged.
LEMMA MergedSound ==
    ASSUME TInv, NEW o, NEW s, NEW n, Sound(o), Ahead(o),
           Sound(s), Ahead(s), Made(o, n), Follows(o, s)
    PROVE  LET m == Merged(o, s, n)
           IN  Sound(m) /\ Ahead(m) /\ Follows(s, m)
<1> DEFINE m == Merged(o, s, n)
<1>1. o \in Container /\ s \in Container /\ n \in Container /\ clock \in Nat
  BY ClockIsNat DEF Made, Sound
<1>2. /\ o.max \in Int /\ s.max \in Int /\ n.max \in Int
      /\ o.fin \in Int /\ s.fin \in Int /\ n.fin \in Int
      /\ o.gc \in Int /\ s.gc \in Int /\ n.gc \in Int
      /\ o.floor \in Int /\ s.floor \in Int /\ n.floor \in Int
      /\ o.ceiling \in Int /\ s.ceiling \in Int /\ n.ceiling \in Int
  BY <1>1 DEF Container
<1> DEFINE Among(x, a, b, c) == x \in {a, b, c} /\ x \in Int /\ a <= x /\ b <= x /\ c <= x
<1>3. /\ Among(m.max, o.max, s.max, n.max) /\ Among(m.fin, o.fin, s.fin, n.fin)
      /\ m.gc \in Int /\ m.floor \in Int /\ m.ceiling \in Int
  <2>1. Among(Greatest(o.max, s.max, n.max), o.max, s.max, n.max)
    BY <1>2, GreatestOfThree, Zenon
  <2>2. Among(Greatest(o.fin, s.fin, n.fin), o.fin, s.fin, n.fin)
    BY <1>2, GreatestOfThree, Zenon
  <2>3. Greatest(o.gc, s.gc, n.gc) \in Int
    BY <1>2, GreatestOfThree, Zenon
  <2>5. Floor(o.floor, s.floor, n.floor) \in Int
    BY <1>2, GreatestOfThree, Zenon
  <2>4. Ceiling(o.ceiling, s.ceiling, n.ceiling) \in Int
    BY <1>2 DEF Ceiling
  <2> HIDE DEF Among
  <2> QED BY <2>1, <2>2, <2>3, <2>4, <2>5 DEF Merged
<1>15. m \in Container
  <2>1. MergedData(o, s, n) \in Datas
    BY <1>1, MergedDataType
  <2>2. m.data = MergedData(o, s, n) /\ m.told = s.told \cup n.told
        /\ m.removed = s.removed \cup n.removed
    BY DEF Merged
  <2>3. m.told \in SUBSET Items /\ m.removed \in SUBSET Items
    BY <1>1, <2>2 DEF Container
  <2>4. m = [data |-> m.data, max |-> m.max, fin |-> m.fin, gc |-> m.gc,
             ceiling |-> m.ceiling, floor |-> m.floor, told |-> m.told, removed |-> m.removed]
    BY DEF Merged
  <2> HIDE DEF m
  <2> QED BY <1>3, <2>1, <2>2, <2>3, <2>4 DEF Container
<1>4. DOMAIN m.data = (DOMAIN s.data \ (DOMAIN o.data \ DOMAIN n.data))
                          \cup (DOMAIN n.data \ DOMAIN o.data)
  BY <1>1, MergedDataType DEF Merged
<1> HIDE DEF m
<1>5. /\ o.max \in Int /\ s.max \in Int /\ n.max \in Int /\ m.max \in Int
      /\ o.fin \in Int /\ s.fin \in Int /\ n.fin \in Int /\ m.fin \in Int
  BY <1>2, <1>3
<1>6. /\ DOMAIN o.data \subseteq Int /\ DOMAIN s.data \subseteq Int
      /\ DOMAIN n.data \subseteq Int
  BY <1>1, DatasDef DEF Container
<1>7. /\ o.max <= s.max /\ o.max <= n.max /\ o.fin <= s.fin /\ o.fin <= n.fin
      /\ \A x \in DOMAIN o.data : x > s.fin => x \in DOMAIN s.data
      /\ \A x \in DOMAIN o.data : x > n.fin => x \in DOMAIN n.data
  BY DEF Made, Follows
<1>8. ASSUME NEW x \in Int, x > m.fin, x \in DOMAIN s.data \/ x \in DOMAIN n.data
      PROVE  x \in DOMAIN m.data
  BY <1>3, <1>4, <1>5, <1>7, <1>8
<1>9. Ahead(m) /\ m.fin < clock
  BY <1>3, <1>5, <1>7, <1>1 DEF Made, Ahead, Sound
<1>10. m.max \in DOMAIN m.data
  BY <1>3, <1>5, <1>7, <1>8, <1>9 DEF Made, Sound, Ahead
<1>11. clock .. m.max \subseteq DOMAIN m.data
  <2> SUFFICES ASSUME NEW x \in clock .. m.max PROVE x \in DOMAIN m.data
    OBVIOUS
  <2>1. x \in DOMAIN s.data \/ x \in DOMAIN n.data
    BY <1>1, <1>3, <1>5, <1>7 DEF Made, Sound
  <2> QED BY <1>1, <1>5, <1>8, <1>9, <2>1
<1>12. DOMAIN m.data \subseteq 0 .. clock + 2 * SpareBuckets - 1
  BY <1>4 DEF Made, Sound
<1>13. Sound(m)
  BY <1>9, <1>10, <1>11, <1>12, <1>15 DEF Sound
<1>14. Follows(s, m)
  BY <1>3, <1>6, <1>8 DEF Follows
<1> QED BY <1>9, <1>13, <1>14 DEF m

-----------------------------------------------------------------------------
(* The invariant *)

LEMMA NewContainerSound ==
    ASSUME Init
    PROVE  TInv /\ BucketInv
<1>1. PICK made \in MadeAt : db = NewContainer(made)
  BY DEF Init
<1>2. /\ made \in Nat /\ made <= clock /\ clock \in Nat /\ clock = StartTime
      /\ SpareBuckets \in Nat /\ SpareBuckets >= 1
  BY ContainerAssumption DEF Init
<1> DEFINE d == [s \in made .. made + 2 * SpareBuckets - 1 |-> EmptyBucket]
<1>3. db = [data |-> d, max |-> made + 2 * SpareBuckets - 1, fin |-> -1, gc |-> -1,
            ceiling |-> 0, floor |-> 0, told |-> {}, removed |-> {}]
  BY <1>1 DEF NewContainer
<1>4. DOMAIN d = made .. made + 2 * SpareBuckets - 1
  OBVIOUS
<1>5. d \in Datas
  BY <1>2, EmptyBucketType, DatasDef
<1> HIDE DEF d
<1>6. /\ db \in Container /\ db.data = d /\ db.max = made + 2 * SpareBuckets - 1
      /\ db.fin = -1
  BY <1>2, <1>3, <1>5 DEF Container
<1>7. Sound(db) /\ Ahead(db)
  BY <1>2, <1>4, <1>6 DEF Sound, Ahead
<1>8. open = {} /\ txn \in [open -> Transactions]
  BY DEF Init, open
<1>9. TInv
  <2>1. inband \in BOOLEAN /\ spanned \in BOOLEAN
    BY Zenon DEF Init
  <2>2. clock \in StartTime .. MaxTime /\ ops \in 0 .. MaxOps
    BY <1>2, ContainerAssumption DEF Init
  <2> QED BY <1>8, <2>1, <2>2 DEF TInv
<1> QED BY <1>7, <1>8, <1>9 DEF BucketInv

\* What every operation does to the transactions.
LEMMA OperationKeeps ==
    ASSUME TInv, BucketInv, NEW t \in Threads, Operate(t),
           NEW d, Made(txn[t].base, d), txn' = [txn EXCEPT ![t].view = d]
    PROVE  TInv' /\ BucketInv'
<1>1. /\ t \in open /\ clock' = clock /\ inband' = inband /\ db' = db
      /\ spanned' = spanned /\ ops' \in 0 .. MaxOps
  BY ContainerAssumption DEF Operate, TInv
<1>2. d \in Container
  BY DEF Made, Sound
<1>3. txn' = [txn EXCEPT ![t] = [txn[t] EXCEPT !.view = d]]
  BY <1>1 DEF TInv
<1>4. [txn[t] EXCEPT !.view = d] \in Transactions
  BY <1>1, <1>2 DEF TInv, Transactions
<1>5. open' = open /\ txn' \in [open -> Transactions]
  BY <1>1, <1>3, <1>4 DEF TInv, open
<1>6. Transactions' = Transactions
  BY <1>1 DEF Transactions
<1>7. TInv'
  BY <1>1, <1>5, <1>6 DEF TInv
<1>8. ASSUME NEW u \in open
      PROVE  txn'[u].base = txn[u].base /\ txn'[u].view = IF u = t THEN d ELSE txn[u].view
  BY <1>1, <1>3 DEF TInv, Transactions
<1>9. Sound(db)' /\ Ahead(db)'
  BY <1>1 DEF BucketInv, Sound, Ahead
<1>10. ASSUME NEW u \in open'
       PROVE  /\ Made(txn[u].base, txn[u].view)'
              /\ Sound(txn[u].base)' /\ Ahead(txn[u].base)'
              /\ Follows(txn[u].base, db)'
  <2>1. u \in open /\ txn'[u].base = txn[u].base
    BY <1>5, <1>8
  <2>2. PICK v : v = txn'[u].view /\ Made(txn[u].base, v)
    <3>1. CASE u = t
      BY <1>8, <2>1, <3>1
    <3>2. CASE u # t
      BY <1>8, <2>1, <3>2 DEF BucketInv
    <3> QED BY <3>1, <3>2
  <2>3. /\ Sound(txn[u].base) /\ Ahead(txn[u].base)
        /\ Follows(txn[u].base, db)
    BY <2>1 DEF BucketInv
  <2> QED BY <1>1, <2>1, <2>2, <2>3 DEF Made, Sound, Ahead, Follows
<1> QED BY <1>5, <1>7, <1>9, <1>10 DEF BucketInv

LEMMA OperationsKeep ==
    ASSUME TInv, BucketInv, NEW t \in Threads,
           \/ Housekeep(t)
           \/ \E k \in Keys : Get(t, k) \/ NewOrExisting(t, k) \/ Delete(t, k)
    PROVE  TInv' /\ BucketInv'
<1> DEFINE b == txn[t].base
           Does(d) == Made(b, d) /\ txn' = [txn EXCEPT ![t].view = d]
<1>1. Operate(t) /\ t \in open
  BY DEF Housekeep, Get, NewOrExisting, Delete, Operate
<1>2. Sound(b) /\ Made(b, txn[t].view)
  BY <1>1 DEF BucketInv
<1> HIDE DEF b
<1>3. ASSUME NEW c \in Prepared(t, txn[t].view) PROVE Made(b, c) /\ clock \in DOMAIN c.data
  BY <1>2, PreparedMade
<1>4. ASSUME NEW c \in PreparedTwice(t) PROVE Made(b, c) /\ clock \in DOMAIN c.data
  BY <1>2, PreparedTwiceMade
<1>5. CASE Housekeep(t)
  <2>1. PICK c \in Housekept(t, txn[t].view) : txn' = [txn EXCEPT ![t].view = c]
    BY <1>5 DEF Housekeep
  <2>2. Does(c)
    BY <1>2, <2>1, HousekeptMade
  <2> QED BY <1>1, <2>2, OperationKeeps DEF b
<1>6. ASSUME NEW k \in Keys, Get(t, k) PROVE TInv' /\ BucketInv'
  <2>1. PICK c \in Prepared(t, txn[t].view) : txn' = [txn EXCEPT ![t].view = Looked(c, k, clock)]
    BY <1>6 DEF Get
  <2>2. Made(b, Looked(c, k, clock))
    BY <1>3, MovedMade DEF Looked
  <2> QED BY <1>1, <2>1, <2>2, OperationKeeps DEF b
<1>7. ASSUME NEW k \in Keys, NewOrExisting(t, k) PROVE TInv' /\ BucketInv'
  <2>1. CASE Existing(t, k)
    <3>1. PICK c \in Prepared(t, txn[t].view) :
             Holding(c, k, clock) # {} /\ txn' = [txn EXCEPT ![t].view = Moved(c, k, clock)]
      BY <2>1 DEF Existing
    <3>2. Made(b, Moved(c, k, clock))
      BY <1>3, <3>1, MovedMade
    <3> QED BY <1>1, <3>1, <3>2, OperationKeeps DEF b
  <2>2. CASE Full(t, k)
    <3>1. PICK c \in PreparedTwice(t) : txn' = [txn EXCEPT ![t].view = c]
      BY <2>2 DEF Full
    <3> QED BY <1>1, <1>4, <3>1, OperationKeeps DEF b
  <2>3. CASE New(t, k)
    <3>1. PICK c \in PreparedTwice(t), i \in Unused :
             txn' = [txn EXCEPT ![t].view = Added(c, k, i, clock)]
      BY <2>3 DEF New
    <3>2. Made(b, Added(c, k, i, clock))
      BY <1>4, AddedMade DEF Unused
    <3> QED BY <1>1, <3>1, <3>2, OperationKeeps DEF b
  <2> QED BY <1>7, <2>1, <2>2, <2>3 DEF NewOrExisting
<1>8. ASSUME NEW k \in Keys, Delete(t, k) PROVE TInv' /\ BucketInv'
  <2>1. PICK c \in PreparedTwice(t) :
           Holding(c, k, clock) # {} /\ txn' = [txn EXCEPT ![t].view = Deleted(c, k, clock)]
    BY <1>8 DEF Delete
  <2>2. Made(b, Deleted(c, k, clock))
    BY <1>4, <2>1, DeletedMade
  <2> QED BY <1>1, <2>1, <2>2, OperationKeeps DEF b
<1> QED BY <1>5, <1>6, <1>7, <1>8

\* A transaction that ends leaves the others as they are.
LEMMA EndKeeps ==
    ASSUME TInv, NEW t \in Threads, End(t)
    PROVE  TInv' /\ open' = open \ {t} /\ \A u \in open' : txn'[u] = txn[u]
<1>1. open' = open \ {t} /\ \A u \in open' : txn'[u] = txn[u]
  BY DEF End, open
<1>2. txn' \in [open' -> Transactions]
  <2>1. \A u \in open' : txn[u] \in Transactions
    BY <1>1 DEF TInv
  <2> QED BY <1>1, <2>1 DEF End, open
<1>3. Transactions' = Transactions
  BY DEF End, Transactions
<1> QED BY <1>1, <1>2, <1>3 DEF End, TInv

LEMMA CommitKeeps ==
    ASSUME TInv, BucketInv, NEW t \in Threads, Commit(t) \/ Abort(t)
    PROVE  TInv' /\ BucketInv'
<1>1. End(t) /\ t \in open /\ clock' = clock
  BY DEF Commit, Abort, End
<1>2. TInv' /\ open' = open \ {t} /\ \A u \in open' : txn'[u] = txn[u]
  BY <1>1, EndKeeps
<1>3. Sound(db) /\ Ahead(db) /\ db \in Container
  BY DEF BucketInv, Sound
<1>4. PICK d : d = db' /\ Sound(d) /\ Ahead(d) /\ Follows(db, d)
  <2>1. CASE Commit(t)
    <3>1. /\ Sound(txn[t].base) /\ Ahead(txn[t].base)
          /\ Made(txn[t].base, txn[t].view) /\ Follows(txn[t].base, db)
      BY <1>1 DEF BucketInv
    <3>2. db' = Merged(txn[t].base, db, txn[t].view)
      BY <2>1 DEF Commit
    <3> QED BY <1>3, <3>1, <3>2, MergedSound
  <2>2. CASE Abort(t)
    <3>1. db' = db
      BY <2>2 DEF Abort
    <3>2. Follows(db, db)
      BY <1>3 DEF Follows, Container
    <3> QED BY <1>3, <3>1, <3>2
  <2> QED BY <2>1, <2>2
<1>5. Sound(db)' /\ Ahead(db)'
  BY <1>1, <1>4 DEF Sound, Ahead
<1>6. ASSUME NEW u \in open'
      PROVE  /\ Made(txn[u].base, txn[u].view)'
             /\ Sound(txn[u].base)' /\ Ahead(txn[u].base)'
             /\ Follows(txn[u].base, db)'
  <2>1. u \in open /\ txn'[u] = txn[u]
    BY <1>2
  <2>2. /\ Made(txn[u].base, txn[u].view)
        /\ Sound(txn[u].base) /\ Ahead(txn[u].base)
        /\ Follows(txn[u].base, db)
    BY <2>1 DEF BucketInv
  <2>3. Follows(txn[u].base, d)
    <3> DEFINE o == txn[u].base
    <3>1. o \in Container /\ d \in Container
      BY <1>4, <2>2 DEF Sound
    <3>2. /\ o.max \in Int /\ db.max \in Int /\ d.max \in Int
          /\ o.fin \in Int /\ db.fin \in Int /\ d.fin \in Int
      BY <1>3, <3>1 DEF Container
    <3>3. DOMAIN o.data \subseteq Int
      BY <3>1, DatasDef DEF Container
    <3> HIDE DEF o
    <3>4. Follows(o, db) /\ Follows(db, d)
      BY <1>4, <2>2 DEF o
    <3>5. Follows(o, d)
      BY <3>2, <3>3, <3>4 DEF Follows
    <3> QED BY <3>5 DEF o
  <2> QED BY <1>1, <1>4, <2>1, <2>2, <2>3 DEF Made, Sound, Ahead, Follows
<1> QED BY <1>2, <1>5, <1>6 DEF BucketInv

\* What is true of a container stays true of it in the next slice.
LEMMA SoundLater ==
    ASSUME TInv, clock' \in Nat, clock' >= clock, NEW c, Sound(c)
    PROVE  Sound(c)'
<1>1. clock \in Nat /\ SpareBuckets \in Nat /\ c.max \in Int /\ c.fin \in Int
  BY ClockIsNat, ContainerAssumption DEF Sound, Container
<1>2. DOMAIN c.data \subseteq Int
  BY DatasDef DEF Sound, Container
<1> QED BY <1>1, <1>2 DEF Sound

LEMMA TickKeeps ==
    ASSUME TInv, BucketInv, Tick
    PROVE  TInv' /\ BucketInv'
<1>1. /\ clock \in Nat /\ clock' \in StartTime .. MaxTime /\ clock' \in Nat /\ clock' >= clock
      /\ db' = db /\ txn' = txn /\ ops' = ops
  BY ClockIsNat, ContainerAssumption DEF Tick, TInv
<1>2. inband' \in BOOLEAN /\ spanned' \in BOOLEAN
  BY Zenon DEF Tick, TInv
<1>3. open' = open
  BY <1>1 DEF open
<1>4. txn \in [open -> Transactions']
  <2>1. StartTime .. clock \subseteq StartTime .. clock'
    BY <1>1, ContainerAssumption
  <2>2. Transactions \subseteq Transactions'
    BY <2>1 DEF Transactions
  <2> QED BY <2>2 DEF TInv
<1>5. TInv'
  BY <1>1, <1>2, <1>3, <1>4 DEF TInv
<1>6. Sound(db)'
  <2>1. PICK d : d = db
    OBVIOUS
  <2>2. Sound(d)'
    BY <1>1, <2>1, SoundLater DEF BucketInv
  <2> QED BY <1>1, <2>1, <2>2 DEF Sound
<1>7. ASSUME NEW u \in open'
      PROVE  /\ Made(txn[u].base, txn[u].view)'
             /\ Sound(txn[u].base)' /\ Ahead(txn[u].base)'
             /\ Follows(txn[u].base, db)'
  <2>1. PICK b, v : b = txn[u].base /\ v = txn[u].view
    OBVIOUS
  <2>2. Made(b, v) /\ Sound(b) /\ Ahead(b) /\ Follows(b, db)
    BY <1>3, <2>1 DEF BucketInv
  <2>3. Sound(b)' /\ Sound(v)'
    BY <1>1, <2>2, SoundLater DEF Made
  <2> QED BY <1>1, <2>1, <2>2, <2>3 DEF Made, Sound, Ahead, Follows
<1>8. Ahead(db)'
  BY <1>1 DEF BucketInv, Ahead
<1> QED BY <1>5, <1>6, <1>7, <1>8 DEF BucketInv

LEMMA BeginKeeps ==
    ASSUME TInv, BucketInv, NEW t \in Threads, Begin(t)
    PROVE  TInv' /\ BucketInv'
<1> DEFINE new == [base |-> db, view |-> db, since |-> clock]
<1>1. /\ clock' = clock /\ inband' = inband /\ db' = db /\ ops' = ops /\ spanned' = spanned
  BY DEF Begin
<1>2. open' = open \cup {t}
  BY DEF Begin, open
<1>3. ASSUME NEW u \in open' PROVE txn'[u] = IF u = t THEN new ELSE txn[u]
  BY <1>2, <1>3 DEF Begin
<1>4. Sound(db) /\ Ahead(db) /\ db \in Container
  BY DEF BucketInv, Sound
<1>5. new \in Transactions
  BY <1>4, ClockIsNat, ContainerAssumption DEF Transactions, TInv
<1>6. txn' \in [open' -> Transactions]
  <2>1. \A u \in open' : txn'[u] \in Transactions
    BY <1>2, <1>3, <1>5 DEF TInv
  <2>2. txn' = [u \in open' |-> txn'[u]]
    BY DEF Begin, open
  <2> QED BY <2>1, <2>2
<1>7. Transactions' = Transactions
  BY <1>1 DEF Transactions
<1>8. TInv'
  BY <1>1, <1>2, <1>6, <1>7 DEF TInv
<1>9. Sound(db)' /\ Ahead(db)'
  BY <1>1, <1>4 DEF Sound, Ahead
<1>10. Follows(db, db)
  BY <1>4 DEF Follows, Container
<1>11. ASSUME NEW u \in open'
       PROVE  /\ Made(txn[u].base, txn[u].view)'
              /\ Sound(txn[u].base)' /\ Ahead(txn[u].base)'
              /\ Follows(txn[u].base, db)'
  <2>1. PICK b, v : b = txn'[u].base /\ v = txn'[u].view
    OBVIOUS
  <2>2. Made(b, v) /\ Sound(b) /\ Ahead(b) /\ Follows(b, db)
    <3>1. CASE u = t
      <4>1. b = db /\ v = db
        BY <1>3, <2>1, <3>1
      <4> QED BY <1>4, <1>10, <4>1 DEF Made
    <3>2. CASE u # t
      <4>1. u \in open /\ b = txn[u].base /\ v = txn[u].view
        BY <1>2, <1>3, <2>1, <3>2
      <4> QED BY <4>1 DEF BucketInv
    <3> QED BY <3>1, <3>2
  <2> QED BY <1>1, <2>1, <2>2 DEF Made, Sound, Ahead, Follows
<1> QED BY <1>8, <1>9, <1>11 DEF BucketInv

LEMMA StutteringKeeps ==
    ASSUME TInv, BucketInv, UNCHANGED vars
    PROVE  TInv' /\ BucketInv'
<1>1. /\ clock' = clock /\ inband' = inband /\ db' = db /\ txn' = txn /\ ops' = ops
      /\ spanned' = spanned /\ open' = open
  BY DEF vars, open
<1> QED BY <1>1 DEF TInv, BucketInv, Transactions, Made, Sound, Ahead, Follows

-----------------------------------------------------------------------------
(* Theorems *)

LEMMA InvariantHolds == Spec => [](TInv /\ BucketInv)
<1>1. Init => TInv /\ BucketInv
  BY NewContainerSound
<1>2. TInv /\ BucketInv /\ [Next]_vars => (TInv /\ BucketInv)'
  <2> SUFFICES ASSUME TInv, BucketInv, [Next]_vars PROVE (TInv /\ BucketInv)'
    OBVIOUS
  <2>1. CASE Tick
    BY <2>1, TickKeeps
  <2>2. ASSUME NEW t \in Threads, Begin(t) PROVE (TInv /\ BucketInv)'
    BY <2>2, BeginKeeps
  <2>3. ASSUME NEW t \in Threads, Commit(t) \/ Abort(t) PROVE (TInv /\ BucketInv)'
    BY <2>3, CommitKeeps
  <2>4. ASSUME NEW t \in Threads,
               \/ Housekeep(t)
               \/ \E k \in Keys : Get(t, k) \/ NewOrExisting(t, k) \/ Delete(t, k)
        PROVE  (TInv /\ BucketInv)'
    BY <2>4, OperationsKeep
  <2>5. CASE UNCHANGED vars
    BY <2>5, StutteringKeeps
  <2> QED BY <2>1, <2>2, <2>3, <2>4, <2>5 DEF Next
<1> QED BY <1>1, <1>2, PTL DEF Spec

\* Every field keeps its type, and replenishing does not feed itself: there are
\* never buckets for more than 2 * SPARE_BUCKETS slices ahead.
THEOREM TypeCorrect == Spec => []TypeOK
<1>1. TInv /\ BucketInv => TypeOK
  <2> SUFFICES ASSUME TInv, BucketInv PROVE TypeOK
    OBVIOUS
  <2>1. ASSUME NEW c \in Containers
        PROVE  /\ DOMAIN c.data \subseteq 0 .. clock + 2 * SpareBuckets - 1
               /\ \A s \in DOMAIN c.data : c.data[s] \in [Keys -> Items \cup {NoItem}]
               /\ {c.max, c.fin, c.gc, c.ceiling, c.floor} \subseteq Int
               /\ c.told \subseteq Items /\ c.removed \subseteq Items
    <3>1. Sound(c)
      BY DEF Containers, BucketInv, Made
    <3>2. c.data \in [DOMAIN c.data -> Bucket]
      BY <3>1, DatasDef DEF Sound, Container
    <3> QED BY <3>1, <3>2 DEF Sound, Container, Bucket
  <2>2. \A t \in open : txn[t].since \in StartTime .. clock
    BY DEF TInv, Transactions
  <2>3. inband \in BOOLEAN /\ spanned \in BOOLEAN
    BY Zenon DEF TInv
  <2>4. clock \in StartTime .. MaxTime /\ open \subseteq Threads /\ ops \in 0 .. MaxOps
    BY DEF TInv
  <2> QED BY <2>1, <2>2, <2>3, <2>4 DEF TypeOK
<1> QED BY <1>1, InvariantHolds, PTL

\* The documented invariant: when _move_item starts to search there is a bucket
\* for the present, however long the container was idle and whatever commits
\* were merged, and _max_timeslice is the last of an unbroken row of buckets.
THEOREM CurrentBucketExists == Spec => []CurrentBucket
<1>1. TInv /\ BucketInv => CurrentBucket
  <2> SUFFICES ASSUME TInv, BucketInv PROVE CurrentBucket
    OBVIOUS
  <2>1. ASSUME NEW t \in open, NEW c \in Prepared(t, txn[t].view) PROVE clock \in DOMAIN c.data
    BY PreparedMade DEF BucketInv
  <2>2. ASSUME NEW c \in Containers
        PROVE  clock .. c.max \subseteq DOMAIN c.data /\ c.max \in DOMAIN c.data
    BY DEF Containers, BucketInv, Made, Sound
  <2> QED BY <2>1, <2>2 DEF CurrentBucket
<1> QED BY <1>1, InvariantHolds, PTL

-----------------------------------------------------------------------------
(* The places of the sessions *)

\* The slices there may be a bucket for.
Slices == 0 .. MaxTime + 2 * SpareBuckets

\* Object i is in the bucket of slice s, under key k.
At(c, s, k, i) == s \in DOMAIN c.data /\ c.data[s][k] = i

\* No bucket of a slice after now has an object.
Filled(c, now) == \A s \in Slices, k \in Keys, i \in Items : At(c, s, k, i) => s <= now

\* The buckets are in a row that ends at max, and those that finalization has
\* passed hold objects it has passed to notifyDel.
Tidy(c) ==
    /\ \A s \in DOMAIN c.data : s <= c.max
    /\ c.fin >= 0 => c.fin <= MaxExpired(clock)
    /\ \A s \in Slices, k \in Keys, i \in Items : At(c, s, k, i) /\ s <= c.fin => i \in c.told

\* What c has and b has not, it has in the buckets of from and later.
Fresh(b, c, from) ==
    \A s \in Slices, k \in Keys, i \in Items :
        At(c, s, k, i) /\ ~At(b, s, k, i) => s >= from

\* An object of b is in c where it was, or passed to notifyDel or deleted, or in a
\* bucket of from or later where b has not got it.
Accounts(b, c, from) ==
    \A s \in Slices, k \in Keys, i \in Items :
        At(b, s, k, i) =>
            \/ At(c, s, k, i) \/ i \in c.told \cup c.removed
            \/ \E r \in Slices : r >= from /\ At(c, r, k, i) /\ ~At(b, r, k, i)

\* What a transaction that began with b in slice from may have made of it.
Grown(b, c, from) ==
    /\ Tidy(c) /\ Filled(c, clock)
    /\ Fresh(b, c, from) /\ Accounts(b, c, from)

\* Object i is what is found for key k, in slice s.
Newest(c, k, s, i) ==
    /\ s \in Slices /\ i \in Items /\ At(c, s, k, i)
    /\ clock - TimeoutSlices <= s /\ s <= clock
    /\ \A r \in Slices, j \in Items : At(c, r, k, j) /\ r <= clock => r <= s

LEMMA Numbers ==
    ASSUME TInv
    PROVE  /\ clock \in Nat /\ clock <= MaxTime /\ MaxTime \in Nat /\ SpareBuckets \in Nat
           /\ SpareBuckets >= 1 /\ TimeoutSlices \in Nat /\ TimeoutSlices >= 1
           /\ MaxSpan \in Nat /\ 2 * MaxSpan <= TimeoutSlices
           /\ MaxExpired(clock) = clock - TimeoutSlices - 1
           /\ Slices \subseteq Nat /\ clock \in Slices /\ NoItem \notin Items
<1>1. /\ MaxTime \in Nat /\ SpareBuckets \in Nat \ {0} /\ TimeoutSlices \in Nat \ {0}
      /\ MaxSpan \in Nat /\ StartTime \in Nat /\ 2 * MaxSpan <= TimeoutSlices
      /\ NoItem \notin Items
  BY ContainerAssumption
<1>2. clock \in StartTime .. MaxTime
  BY DEF TInv
<1>3. clock \in Nat /\ clock <= MaxTime
  BY <1>1, <1>2
<1> QED BY <1>1, <1>3 DEF MaxExpired, Slices

\* What a sound container is made of.
LEMMA SoundFields ==
    ASSUME TInv, NEW c, Sound(c)
    PROVE  /\ c \in Container
           /\ DOMAIN c.data \subseteq Slices /\ DOMAIN c.data \subseteq Int
           /\ \A s \in DOMAIN c.data, k \in Keys : c.data[s][k] \in Items \cup {NoItem}
           /\ c.max \in Int /\ c.fin \in Int /\ c.gc \in Int
           /\ c.ceiling \in Int /\ c.floor \in Int
           /\ c.told \subseteq Items /\ c.removed \subseteq Items
           /\ c.data \in [DOMAIN c.data -> Bucket]
           /\ c.fin < clock
<1>1. c \in Container /\ DOMAIN c.data \subseteq 0 .. clock + 2 * SpareBuckets - 1 /\ c.fin < clock
  BY DEF Sound
<1>2. DOMAIN c.data \subseteq Slices
  <2>1. 0 .. clock + 2 * SpareBuckets - 1 \subseteq 0 .. MaxTime + 2 * SpareBuckets
    BY Numbers
  <2> QED BY <1>1, <2>1 DEF Slices
<1>3. c.data \in [DOMAIN c.data -> Bucket] /\ DOMAIN c.data \subseteq Int
  BY <1>1, DatasDef DEF Container
<1>4. \A s \in DOMAIN c.data, k \in Keys : c.data[s][k] \in Items \cup {NoItem}
  BY <1>3 DEF Bucket
<1> QED BY <1>1, <1>2, <1>3, <1>4 DEF Container

\* The objects of a container are those at its places.
LEMMA ItemsAt ==
    ASSUME TInv, NEW c, Sound(c), NEW S, NEW i
    PROVE  i \in ItemsIn(c, S) <=>
               /\ i \in Items
               /\ \E s \in Slices, k \in Keys : s \in S /\ At(c, s, k, i)
<1>0. NoItem \notin Items /\ Items \cup {NoItem} = Items \cup {NoItem}
  BY Numbers
<1>1. ASSUME i \in ItemsIn(c, S)
      PROVE  i \in Items /\ \E s \in Slices, k \in Keys : s \in S /\ At(c, s, k, i)
  <2>1. PICK e \in Entries(c, S) : i = c.data[e[1]][e[2]]
    BY <1>1 DEF ItemsIn
  <2>2. e[1] \in DOMAIN c.data /\ e[1] \in S /\ e[2] \in Keys /\ i # NoItem
    BY <2>1 DEF Entries
  <2>3. e[1] \in Slices /\ i \in Items
    BY <2>1, <2>2, SoundFields
  <2> QED BY <2>1, <2>2, <2>3 DEF At
<1>2. ASSUME i \in Items, NEW s \in Slices, NEW k \in Keys, s \in S, At(c, s, k, i)
      PROVE  i \in ItemsIn(c, S)
  <2>1. s \in DOMAIN c.data /\ c.data[s][k] = i /\ i # NoItem
    BY <1>0, <1>2 DEF At
  <2>2. <<s, k>> \in Entries(c, S)
    BY <1>2, <2>1 DEF Entries
  <2> QED BY <2>1, <2>2 DEF ItemsIn
<1> QED BY <1>1, <1>2

-----------------------------------------------------------------------------
(* What the steps of the container do to the places *)

LEMMA FinalizedAt ==
    ASSUME TInv, NEW c, Sound(c)
    PROVE  LET f == Finalized(c, clock)
           IN  \/ f = c
               \/ /\ f.data = c.data /\ f.max = c.max /\ f.removed = c.removed
                  /\ f.ceiling = c.ceiling /\ f.fin = MaxExpired(clock) /\ c.fin < f.fin
                  /\ f.told = c.told \cup ItemsIn(c, c.fin + 1 .. MaxExpired(clock))
                  /\ f.floor = c.floor + Cardinality(Entries(c, c.fin + 1 .. MaxExpired(clock)))
<1> DEFINE told == c.told \cup ItemsIn(c, c.fin + 1 .. MaxExpired(clock))
           n == Cardinality(Entries(c, c.fin + 1 .. MaxExpired(clock)))
           f == [c EXCEPT !.fin = MaxExpired(clock), !.floor = @ + n, !.told = told]
<1>1. CASE c.fin + 1 >= MaxExpired(clock)
  BY <1>1 DEF Finalized
<1>2. CASE ~(c.fin + 1 >= MaxExpired(clock))
  <2>1. Finalized(c, clock) = [c EXCEPT !.fin = MaxExpired(clock),
                                        !.floor = @ + n,
                                        !.told = @ \cup ItemsIn(c, c.fin + 1 .. MaxExpired(clock))]
    BY <1>2 DEF Finalized
  <2>2. c \in Container /\ c.fin \in Int /\ MaxExpired(clock) \in Int
    BY SoundFields, Numbers
  <2> HIDE DEF n
  <2>3. Finalized(c, clock) = f
    BY <2>1, <2>2 DEF Container
  <2> HIDE DEF told
  <2>4. /\ f.data = c.data /\ f.max = c.max /\ f.removed = c.removed /\ f.ceiling = c.ceiling
        /\ f.fin = MaxExpired(clock) /\ f.told = told /\ f.floor = c.floor + n
    BY <2>2 DEF Container
  <2>5. c.fin < MaxExpired(clock)
    BY <1>2, <2>2
  <2> HIDE DEF f
  <2> QED BY <2>3, <2>4, <2>5 DEF told, n
<1> QED BY <1>1, <1>2

\* New buckets are empty, and none is where there is one.
LEMMA ReplentishedAt ==
    ASSUME TInv, NEW c, Sound(c), \A s \in DOMAIN c.data : s <= c.max
    PROVE  LET r == Replentished(c, clock)
           IN  /\ r.fin = c.fin /\ r.ceiling = c.ceiling /\ r.floor = c.floor
               /\ r.told = c.told /\ r.removed = c.removed
               /\ \A s \in DOMAIN r.data : s <= r.max
               /\ \A s \in Slices, k \in Keys, i \in Items : At(r, s, k, i) <=> At(c, s, k, i)
<1> DEFINE Good(r) == /\ r.fin = c.fin /\ r.ceiling = c.ceiling /\ r.floor = c.floor
                      /\ r.told = c.told /\ r.removed = c.removed
                      /\ \A s \in DOMAIN r.data : s <= r.max
                      /\ \A s \in Slices, k \in Keys, i \in Items :
                            At(r, s, k, i) <=> At(c, s, k, i)
<1>1. /\ c \in Container /\ c.max \in Int /\ DOMAIN c.data \subseteq Int
      /\ clock \in Nat /\ SpareBuckets \in Nat /\ SpareBuckets >= 1 /\ Slices \subseteq Nat
      /\ NoItem \notin Items
  BY SoundFields, Numbers
<1>2. ASSUME NEW a \in Int, NEW b \in Int, a <= b, c.max < a
      PROVE  Good(Extended(c, a .. b))
  <2> DEFINE d == [s \in DOMAIN c.data \cup a .. b |->
                      IF s \in a .. b THEN EmptyBucket ELSE c.data[s]]
             r == Extended(c, a .. b)
  <2>1. r = [c EXCEPT !.data = d, !.max = b]
    BY <1>2, MaxOfInterval DEF Extended
  <2>2. DOMAIN d = DOMAIN c.data \cup a .. b
    OBVIOUS
  <2>3. \A s \in DOMAIN c.data : s \notin a .. b
    BY <1>1, <1>2
  <2>4. \A s \in DOMAIN c.data : d[s] = c.data[s]
    BY <2>3
  <2>5. \A s \in a .. b : d[s] = EmptyBucket
    OBVIOUS
  <2> HIDE DEF d, r
  <2>6. /\ r.data = d /\ r.max = b /\ r.fin = c.fin /\ r.ceiling = c.ceiling
        /\ r.floor = c.floor /\ r.told = c.told /\ r.removed = c.removed
    BY <1>1, <2>1 DEF Container
  <2>7. \A s \in DOMAIN r.data : s <= r.max
    <3>1. ASSUME NEW s \in DOMAIN c.data PROVE s <= b
      <4>1. s <= c.max
        BY Zenon
      <4>2. s \in Int
        BY <1>1
      <4> QED BY <1>1, <1>2, <4>1, <4>2
    <3>2. \A s \in a .. b : s <= b
      OBVIOUS
    <3> QED BY <2>2, <2>6, <3>1, <3>2
  <2>8. ASSUME NEW s \in Slices, NEW k \in Keys, NEW i \in Items
        PROVE  At(r, s, k, i) <=> At(c, s, k, i)
    <3>1. CASE s \in DOMAIN c.data
      BY <2>2, <2>4, <2>6, <3>1 DEF At
    <3>2. CASE s \in a .. b
      <4>1. r.data[s][k] = NoItem /\ s \notin DOMAIN c.data
        BY <2>3, <2>5, <2>6, <3>2 DEF EmptyBucket
      <4> QED BY <1>1, <4>1 DEF At
    <3>3. CASE s \notin DOMAIN c.data /\ s \notin a .. b
      BY <2>2, <2>6, <3>3 DEF At
    <3> QED BY <3>1, <3>2, <3>3
  <2>9. Good(r)
    BY <2>6, <2>7, <2>8
  <2> QED BY <2>9 DEF r
<1>3. Good(c)
  OBVIOUS
<1> HIDE DEF Good
<1>4. Good(Replentished(c, clock))
  <2>1. CASE c.max - clock >= SpareBuckets
    BY <1>3, <2>1 DEF Replentished
  <2>2. CASE ~(c.max - clock >= SpareBuckets) /\ c.max < clock
    <3>1. Good(Extended(c, clock .. clock + SpareBuckets - 1))
      BY <1>1, <1>2, <2>2
    <3> QED BY <2>2, <3>1 DEF Replentished
  <2>3. CASE ~(c.max - clock >= SpareBuckets) /\ ~(c.max < clock)
    <3>1. Good(Extended(c, c.max + 1 .. c.max + SpareBuckets))
      BY <1>1, <1>2
    <3> QED BY <2>3, <3>1 DEF Replentished
  <2> QED BY <2>1, <2>2, <2>3
<1> QED BY <1>4 DEF Good

LEMMA CollectedAt ==
    ASSUME TInv, NEW c, Sound(c)
    PROVE  LET g == Collected(c, clock)
           IN  /\ g.fin = c.fin /\ g.max = c.max /\ g.ceiling = c.ceiling /\ g.floor = c.floor
               /\ g.told = c.told /\ g.removed = c.removed
               /\ DOMAIN g.data = {s \in DOMAIN c.data : s > c.fin}
               /\ \A s \in Slices, k \in Keys, i \in Items :
                     At(g, s, k, i) <=> At(c, s, k, i) /\ s > c.fin
<1> DEFINE d == [s \in {x \in DOMAIN c.data : x > c.fin} |-> c.data[s]]
           g == Collected(c, clock)
<1>1. c \in Container
  BY SoundFields
<1>2. g = [c EXCEPT !.data = d, !.gc = clock]
  BY DEF Collected
<1>3. DOMAIN d = {s \in DOMAIN c.data : s > c.fin} /\ \A s \in DOMAIN d : d[s] = c.data[s]
  OBVIOUS
<1> HIDE DEF d, g
<1>4. /\ g.data = d /\ g.fin = c.fin /\ g.max = c.max /\ g.ceiling = c.ceiling
      /\ g.floor = c.floor /\ g.told = c.told /\ g.removed = c.removed
  BY <1>1, <1>2 DEF Container
<1>5. \A s \in Slices, k \in Keys, i \in Items :
         At(g, s, k, i) <=> At(c, s, k, i) /\ s > c.fin
  BY <1>3, <1>4 DEF At
<1> QED BY <1>3, <1>4, <1>5 DEF g

\* A change of one entry.
LEMMA PutAt ==
    ASSUME TInv, NEW c, c \in Container, NEW s \in DOMAIN c.data, NEW k \in Keys, NEW i
    PROVE  LET p == Put(c, s, k, i)
           IN  /\ p = [c EXCEPT !.data = [c.data EXCEPT ![s][k] = i]]
               /\ p.fin = c.fin /\ p.max = c.max /\ p.ceiling = c.ceiling /\ p.floor = c.floor
               /\ p.told = c.told /\ p.removed = c.removed
               /\ DOMAIN p.data = DOMAIN c.data
               /\ \A x \in DOMAIN c.data, l \in Keys :
                     p.data[x][l] = IF x = s /\ l = k THEN i ELSE c.data[x][l]
               /\ \A x \in Slices, l \in Keys, j \in Items :
                     At(p, x, l, j) <=> IF x = s /\ l = k THEN i = j ELSE At(c, x, l, j)
<1> DEFINE d == [c.data EXCEPT ![s][k] = i]
           p == Put(c, s, k, i)
<1>1. c.data \in [DOMAIN c.data -> Bucket]
  BY DatasDef DEF Container
<1>2. /\ DOMAIN d = DOMAIN c.data
      /\ \A x \in DOMAIN c.data, l \in Keys :
            d[x][l] = IF x = s /\ l = k THEN i ELSE c.data[x][l]
  BY <1>1 DEF Bucket
<1>3. p = [c EXCEPT !.data = d]
  BY DEF Put
<1> HIDE DEF d, p
<1>4. /\ p.data = d /\ p.fin = c.fin /\ p.max = c.max /\ p.ceiling = c.ceiling
      /\ p.floor = c.floor /\ p.told = c.told /\ p.removed = c.removed
  BY <1>3 DEF Container
<1>5. ASSUME NEW x \in Slices, NEW l \in Keys, NEW j \in Items
      PROVE  At(p, x, l, j) <=> IF x = s /\ l = k THEN i = j ELSE At(c, x, l, j)
  BY <1>2, <1>4 DEF At
<1> QED BY <1>2, <1>3, <1>4, <1>5 DEF d, p

\* What is found for a key is the newest of its objects.
LEMMA HoldingAt ==
    ASSUME TInv, NEW c, Sound(c), NEW k \in Keys
    PROVE  /\ Holding(c, k, clock) # {} =>
                Newest(c, k, Max(Holding(c, k, clock)), c.data[Max(Holding(c, k, clock))][k])
           /\ Holding(c, k, clock) = {} =>
                \A s \in Slices, i \in Items :
                    At(c, s, k, i) => s < clock - TimeoutSlices \/ s > clock
<1> DEFINE H == Holding(c, k, clock)
<1>1. /\ clock \in Int /\ TimeoutSlices \in Int /\ NoItem \notin Items
      /\ Slices \subseteq Nat /\ c \in Container
      /\ DOMAIN c.data \subseteq Slices /\ DOMAIN c.data \subseteq Int
      /\ \A s \in DOMAIN c.data : c.data[s][k] \in Items \cup {NoItem}
  BY Numbers, SoundFields
<1>2. H = {s \in (clock - TimeoutSlices .. clock) \cap DOMAIN c.data : c.data[s][k] # NoItem}
  BY DEF Holding, CurrentSlices
<1>3. ASSUME NEW s \in Slices, NEW i \in Items, At(c, s, k, i),
             clock - TimeoutSlices <= s, s <= clock
      PROVE  s \in H
  <2>1. s \in DOMAIN c.data /\ c.data[s][k] = i /\ s \in Int
    BY <1>1, <1>3 DEF At
  <2> QED BY <1>1, <1>2, <1>3, <2>1
<1>4. ASSUME H # {}
      PROVE  Newest(c, k, Max(H), c.data[Max(H)][k])
  <2> DEFINE m == Max(H)
  <2>1. m \in H /\ \A y \in H : m >= y
    <3>1. m \in DOMAIN c.data /\ c.data[m][k] \in Items
      BY <1>1, <1>4, NewestHolds
    <3>2. \E n \in H : \A y \in H : n >= y
      <4>1. IsFiniteSet(clock - TimeoutSlices .. clock)
        BY <1>1, FS_Interval
      <4>2. H \in SUBSET (clock - TimeoutSlices .. clock)
        BY <1>2
      <4> DEFINE N == {clock - h : h \in H}
      <4>3. N \subseteq Nat /\ N # {}
        BY <1>1, <1>4, <4>2
      <4> HIDE DEF N
      <4>4. PICK x \in N : \A y \in N : <<y, x>> \notin OpToRel(<, Nat)
        BY <4>3, WFMin, NatLessThanWellFounded, Zenon
      <4>5. \A y \in N : ~(y < x)
        BY <4>3, <4>4, Zenon DEF OpToRel
      <4> USE DEF N
      <4>6. PICK n \in H : x = clock - n
        BY <4>4
      <4>7. \A y \in H : n >= y
        BY <1>1, <4>2, <4>5, <4>6
      <4> QED BY <4>7
    <3> QED BY <3>2 DEF Max
  <2> HIDE DEF m
  <2>2. /\ m \in DOMAIN c.data /\ clock - TimeoutSlices <= m /\ m <= clock
        /\ c.data[m][k] \in Items /\ m \in Slices /\ m \in Int
    BY <1>1, <1>2, <2>1
  <2>3. At(c, m, k, c.data[m][k])
    BY <2>2 DEF At
  <2>4. ASSUME NEW r \in Slices, NEW j \in Items, At(c, r, k, j), r <= clock
        PROVE  r <= m
    <3>1. r \in Int
      BY <1>1, <2>4 DEF At
    <3>2. CASE clock - TimeoutSlices <= r
      BY <1>3, <2>1, <2>2, <2>4, <3>1, <3>2
    <3>3. CASE ~(clock - TimeoutSlices <= r)
      BY <1>1, <2>2, <3>1, <3>3
    <3> QED BY <3>2, <3>3
  <2>5. Newest(c, k, m, c.data[m][k])
    BY <2>2, <2>3, <2>4 DEF Newest
  <2> QED BY <2>5 DEF m
<1>5. ASSUME H = {}, NEW s \in Slices, NEW i \in Items, At(c, s, k, i)
      PROVE  s < clock - TimeoutSlices \/ s > clock
  <2>1. s \in Int
    BY <1>1, <1>5 DEF At
  <2> QED BY <1>1, <1>3, <1>5, <2>1
<1> QED BY <1>4, <1>5

\* A key that is found moves from the newest of its places to the present.
LEMMA MovedAt ==
    ASSUME TInv, NEW c, Sound(c), clock \in DOMAIN c.data,
           NEW k \in Keys, Holding(c, k, clock) # {}
    PROVE  \E s \in Slices, i \in Items :
             /\ Newest(c, k, s, i)
             /\ s # clock => \A j \in Items : ~At(c, clock, k, j)
             /\ LET m == Moved(c, k, clock)
                IN  /\ m.fin = c.fin /\ m.max = c.max /\ m.ceiling = c.ceiling
                    /\ m.floor = c.floor /\ m.told = c.told /\ m.removed = c.removed
                    /\ DOMAIN m.data = DOMAIN c.data /\ m \in Container /\ m.data[clock][k] = i
                    /\ \A x \in Slices, l \in Keys, j \in Items :
                          At(m, x, l, j) <=> \/ At(c, x, l, j) /\ ~(x = s /\ l = k)
                                             \/ x = clock /\ l = k /\ j = i
<1> DEFINE s == Max(Holding(c, k, clock))
           i == c.data[s][k]
           x1 == Put(c, s, k, NoItem)
           m == Put(x1, clock, k, i)
<1>1. Newest(c, k, s, i)
  BY HoldingAt
<1>2. Moved(c, k, clock) = m
  BY DEF Moved
<1> HIDE DEF s, i
<1>3. /\ s \in Slices /\ i \in Items /\ s \in DOMAIN c.data /\ c \in Container
      /\ NoItem \notin Items /\ clock \in Slices /\ clock \in Nat
  BY <1>1, SoundFields, Numbers DEF Newest, At
<1>4. s # clock => \A j \in Items : ~At(c, clock, k, j)
  <2> SUFFICES ASSUME s # clock, NEW j \in Items, At(c, clock, k, j) PROVE FALSE
    OBVIOUS
  <2>1. clock <= s /\ s <= clock /\ s \in Int
    <3>1. s <= clock
      BY <1>1 DEF Newest
    <3>2. \A r \in Slices, jj \in Items : At(c, r, k, jj) /\ r <= clock => r <= s
      BY <1>1 DEF Newest
    <3>3. DOMAIN c.data \subseteq Int
      BY SoundFields
    <3> QED BY <1>3, <3>1, <3>2, <3>3
  <2> QED BY <1>3, <2>1
<1>5. /\ x1 = [c EXCEPT !.data = [c.data EXCEPT ![s][k] = NoItem]]
      /\ x1.fin = c.fin /\ x1.max = c.max /\ x1.ceiling = c.ceiling /\ x1.floor = c.floor
      /\ x1.told = c.told /\ x1.removed = c.removed /\ DOMAIN x1.data = DOMAIN c.data
      /\ \A x \in Slices, l \in Keys, j \in Items :
            At(x1, x, l, j) <=> IF x = s /\ l = k THEN NoItem = j ELSE At(c, x, l, j)
  BY <1>3, PutAt
<1>6. x1 \in Container
  <2>1. c.data \in [DOMAIN c.data -> Bucket] /\ c.data \in Datas
    BY <1>3, DatasDef DEF Container
  <2> DEFINE d == [c.data EXCEPT ![s][k] = NoItem]
  <2>2. d \in [DOMAIN c.data -> Bucket] /\ DOMAIN d = DOMAIN c.data
    BY <1>3, <2>1 DEF Bucket
  <2> HIDE DEF d
  <2>3. d \in Datas
    BY <2>1, <2>2, DatasDef
  <2>4. [c EXCEPT !.data = d] \in Container
    BY <1>3, <2>3 DEF Container
  <2> QED BY <1>5, <2>4 DEF d
<1> HIDE DEF x1
<1>7. /\ m = [x1 EXCEPT !.data = [x1.data EXCEPT ![clock][k] = i]]
      /\ m.fin = x1.fin /\ m.max = x1.max /\ m.ceiling = x1.ceiling /\ m.floor = x1.floor
      /\ m.told = x1.told /\ m.removed = x1.removed /\ DOMAIN m.data = DOMAIN x1.data
      /\ m.data[clock][k] = i
      /\ \A x \in Slices, l \in Keys, j \in Items :
            At(m, x, l, j) <=> IF x = clock /\ l = k THEN i = j ELSE At(x1, x, l, j)
  <2>1. clock \in DOMAIN x1.data
    BY <1>5
  <2>2. \A x \in DOMAIN x1.data, l \in Keys :
           m.data[x][l] = IF x = clock /\ l = k THEN i ELSE x1.data[x][l]
    BY <1>6, <2>1, PutAt
  <2>3. m.data[clock][k] = i
    BY <2>1, <2>2
  <2> QED BY <1>6, <2>1, <2>3, PutAt
<1>8. m \in Container
  <2>1. x1.data \in [DOMAIN x1.data -> Bucket] /\ x1.data \in Datas
    BY <1>6, DatasDef DEF Container
  <2> DEFINE d == [x1.data EXCEPT ![clock][k] = i]
  <2>2. d \in [DOMAIN x1.data -> Bucket] /\ DOMAIN d = DOMAIN x1.data
    BY <1>3, <1>5, <2>1 DEF Bucket
  <2> HIDE DEF d
  <2>3. d \in Datas
    BY <2>1, <2>2, DatasDef
  <2>4. [x1 EXCEPT !.data = d] \in Container
    BY <1>6, <2>3 DEF Container
  <2> QED BY <1>7, <2>4 DEF d
<1> HIDE DEF m
<1>9. ASSUME NEW x \in Slices, NEW l \in Keys, NEW j \in Items
      PROVE  At(m, x, l, j) <=> \/ At(c, x, l, j) /\ ~(x = s /\ l = k)
                                \/ x = clock /\ l = k /\ j = i
  <2>1. CASE x = clock /\ l = k
    <3>1. At(m, x, l, j) <=> i = j
      BY <1>7, <2>1
    <3>2. At(c, x, l, j) /\ ~(x = s /\ l = k) => FALSE
      BY <1>4, <2>1
    <3> QED BY <2>1, <3>1, <3>2
  <2>2. CASE ~(x = clock /\ l = k)
    <3>1. At(m, x, l, j) <=> At(x1, x, l, j)
      BY <1>7, <2>2
    <3>2. At(x1, x, l, j) <=> IF x = s /\ l = k THEN NoItem = j ELSE At(c, x, l, j)
      BY <1>5
    <3> QED BY <1>3, <2>2, <3>1, <3>2
  <2> QED BY <2>1, <2>2
<1> QED BY <1>1, <1>2, <1>3, <1>4, <1>5, <1>7, <1>8, <1>9

\* A key that is deleted leaves the newest of its places.
LEMMA DeletedAt ==
    ASSUME TInv, NEW c, Sound(c), clock \in DOMAIN c.data,
           NEW k \in Keys, Holding(c, k, clock) # {}
    PROVE  \E s \in Slices, i \in Items :
             /\ Newest(c, k, s, i)
             /\ LET d == Deleted(c, k, clock)
                IN  /\ d.fin = c.fin /\ d.max = c.max /\ d.ceiling = c.ceiling - 1
                    /\ d.floor = c.floor /\ d.told = c.told /\ d.removed = c.removed \cup {i}
                    /\ DOMAIN d.data = DOMAIN c.data
                    /\ \A x \in Slices, l \in Keys, j \in Items :
                          At(d, x, l, j) <=> At(c, x, l, j) /\ ~(x = s /\ l = k)
<1> DEFINE m == Moved(c, k, clock)
           x1 == Put(m, clock, k, NoItem)
           d == [x1 EXCEPT !.ceiling = @ - 1, !.removed = @ \cup {m.data[clock][k]}]
<1>1. PICK s \in Slices, i \in Items :
        /\ Newest(c, k, s, i)
        /\ s # clock => \A j \in Items : ~At(c, clock, k, j)
        /\ m.fin = c.fin /\ m.max = c.max /\ m.ceiling = c.ceiling
        /\ m.floor = c.floor /\ m.told = c.told /\ m.removed = c.removed
        /\ DOMAIN m.data = DOMAIN c.data /\ m \in Container /\ m.data[clock][k] = i
        /\ \A x \in Slices, l \in Keys, j \in Items :
              At(m, x, l, j) <=> \/ At(c, x, l, j) /\ ~(x = s /\ l = k)
                                 \/ x = clock /\ l = k /\ j = i
  BY MovedAt
<1>2. Deleted(c, k, clock) = d
  BY DEF Deleted
<1>3. clock \in Slices /\ NoItem \notin Items
  BY Numbers
<1> HIDE DEF m
<1>4. /\ x1 = [m EXCEPT !.data = [m.data EXCEPT ![clock][k] = NoItem]]
      /\ x1.fin = m.fin /\ x1.max = m.max /\ x1.ceiling = m.ceiling /\ x1.floor = m.floor
      /\ x1.told = m.told /\ x1.removed = m.removed /\ DOMAIN x1.data = DOMAIN m.data
      /\ \A x \in Slices, l \in Keys, j \in Items :
            At(x1, x, l, j) <=> IF x = clock /\ l = k THEN NoItem = j ELSE At(m, x, l, j)
  BY <1>1, PutAt
<1> HIDE DEF x1
<1>5. /\ d.data = x1.data /\ d.fin = x1.fin /\ d.max = x1.max /\ d.ceiling = x1.ceiling - 1
      /\ d.floor = x1.floor /\ d.told = x1.told /\ d.removed = x1.removed \cup {i}
  <2> DEFINE y == [m.data EXCEPT ![clock][k] = NoItem]
  <2>1. x1 = [m EXCEPT !.data = y] /\ m \in Container /\ m.data[clock][k] = i
    BY <1>1, <1>4
  <2> HIDE DEF y
  <2> QED BY <2>1 DEF Container
<1> HIDE DEF d
<1>6. ASSUME NEW x \in Slices, NEW l \in Keys, NEW j \in Items
      PROVE  At(d, x, l, j) <=> At(c, x, l, j) /\ ~(x = s /\ l = k)
  <2>1. At(d, x, l, j) <=> At(x1, x, l, j)
    BY <1>5 DEF At
  <2>2. At(x1, x, l, j) <=> IF x = clock /\ l = k THEN NoItem = j ELSE At(m, x, l, j)
    BY <1>4
  <2>3. At(m, x, l, j) <=> \/ At(c, x, l, j) /\ ~(x = s /\ l = k)
                           \/ x = clock /\ l = k /\ j = i
    BY <1>1
  <2>4. CASE x = clock /\ l = k
    <3>1. At(c, x, l, j) /\ ~(x = s /\ l = k) => FALSE
      BY <1>1, <2>4
    <3> QED BY <1>3, <2>1, <2>2, <2>4, <3>1
  <2>5. CASE ~(x = clock /\ l = k)
    BY <2>1, <2>2, <2>3, <2>5
  <2> QED BY <2>4, <2>5
<1> QED BY <1>1, <1>2, <1>4, <1>5, <1>6

LEMMA AddedAt ==
    ASSUME TInv, NEW c, Sound(c), clock \in DOMAIN c.data, NEW k \in Keys, NEW i \in Items,
           Holding(c, k, clock) = {}
    PROVE  LET a == Added(c, k, i, clock)
           IN  /\ a.fin = c.fin /\ a.max = c.max /\ a.ceiling = c.ceiling + 1
               /\ a.floor = c.floor /\ a.told = c.told /\ a.removed = c.removed
               /\ DOMAIN a.data = DOMAIN c.data
               /\ \A j \in Items : ~At(c, clock, k, j)
               /\ \A x \in Slices, l \in Keys, j \in Items :
                     At(a, x, l, j) <=> At(c, x, l, j) \/ (x = clock /\ l = k /\ j = i)
<1> DEFINE x1 == Put(c, clock, k, i)
           a == [x1 EXCEPT !.ceiling = @ + 1]
<1>1. /\ c \in Container /\ clock \in Slices /\ clock \in Nat /\ TimeoutSlices \in Nat
      /\ TimeoutSlices >= 1
  BY SoundFields, Numbers
<1>2. \A j \in Items : ~At(c, clock, k, j)
  <2> SUFFICES ASSUME NEW j \in Items, At(c, clock, k, j) PROVE FALSE
    OBVIOUS
  <2>1. clock < clock - TimeoutSlices \/ clock > clock
    BY <1>1, HoldingAt
  <2> QED BY <1>1, <2>1
<1>3. Added(c, k, i, clock) = a
  BY DEF Added
<1>4. /\ x1 = [c EXCEPT !.data = [c.data EXCEPT ![clock][k] = i]]
      /\ x1.fin = c.fin /\ x1.max = c.max /\ x1.ceiling = c.ceiling /\ x1.floor = c.floor
      /\ x1.told = c.told /\ x1.removed = c.removed /\ DOMAIN x1.data = DOMAIN c.data
      /\ \A x \in Slices, l \in Keys, j \in Items :
            At(x1, x, l, j) <=> IF x = clock /\ l = k THEN i = j ELSE At(c, x, l, j)
  BY <1>1, PutAt
<1> HIDE DEF x1
<1>5. /\ a.data = x1.data /\ a.fin = x1.fin /\ a.max = x1.max /\ a.ceiling = x1.ceiling + 1
      /\ a.floor = x1.floor /\ a.told = x1.told /\ a.removed = x1.removed
  <2> DEFINE y == [c.data EXCEPT ![clock][k] = i]
  <2>1. x1 = [c EXCEPT !.data = y] /\ c \in Container
    BY <1>1, <1>4
  <2> HIDE DEF y
  <2> QED BY <2>1 DEF Container
<1> HIDE DEF a
<1>6. ASSUME NEW x \in Slices, NEW l \in Keys, NEW j \in Items
      PROVE  At(a, x, l, j) <=> At(c, x, l, j) \/ (x = clock /\ l = k /\ j = i)
  <2>1. At(a, x, l, j) <=> At(x1, x, l, j)
    BY <1>5 DEF At
  <2>2. At(x1, x, l, j) <=> IF x = clock /\ l = k THEN i = j ELSE At(c, x, l, j)
    BY <1>4
  <2> QED BY <1>2, <2>1, <2>2
<1> QED BY <1>2, <1>3, <1>4, <1>5, <1>6

-----------------------------------------------------------------------------
(* What a transaction makes of its container *)

\* The steps of housekeeping.
LEMMA FinalizedGrown ==
    ASSUME TInv, NEW b, NEW c, NEW from, Sound(c), Grown(b, c, from)
    PROVE  Grown(b, Finalized(c, clock), from)
<1> DEFINE f == Finalized(c, clock)
<1>1. \/ f = c
      \/ /\ f.data = c.data /\ f.max = c.max /\ f.removed = c.removed
         /\ f.fin = MaxExpired(clock) /\ c.fin < f.fin
         /\ f.told = c.told \cup ItemsIn(c, c.fin + 1 .. MaxExpired(clock))
  BY FinalizedAt
<1> HIDE DEF f
<1>2. CASE f = c
  BY <1>2 DEF f
<1>3. CASE /\ f.data = c.data /\ f.max = c.max /\ f.removed = c.removed
           /\ f.fin = MaxExpired(clock) /\ c.fin < f.fin
           /\ f.told = c.told \cup ItemsIn(c, c.fin + 1 .. MaxExpired(clock))
  <2>1. \A s \in Slices, k \in Keys, i \in Items : At(f, s, k, i) <=> At(c, s, k, i)
    BY <1>3 DEF At
  <2>2. /\ c.told \subseteq f.told /\ c.fin \in Int /\ MaxExpired(clock) \in Int
        /\ Slices \subseteq Nat
    BY <1>3, SoundFields, Numbers
  <2>3. ASSUME NEW s \in Slices, NEW k \in Keys, NEW i \in Items, At(f, s, k, i), s <= f.fin
        PROVE  i \in f.told
    <3>1. At(c, s, k, i) /\ s \in Int
      BY <2>1, <2>2, <2>3
    <3>2. CASE s <= c.fin
      BY <2>2, <3>1, <3>2 DEF Grown, Tidy
    <3>3. CASE ~(s <= c.fin)
      <4>1. s \in c.fin + 1 .. MaxExpired(clock)
        BY <1>3, <2>2, <2>3, <3>1, <3>3
      <4>2. i \in ItemsIn(c, c.fin + 1 .. MaxExpired(clock))
        BY <3>1, <4>1, ItemsAt
      <4> QED BY <1>3, <4>2
    <3> QED BY <3>2, <3>3
  <2>4. Tidy(f)
    BY <1>3, <2>2, <2>3 DEF Grown, Tidy
  <2>5. Filled(f, clock) /\ Fresh(b, f, from)
    BY <2>1 DEF Grown, Filled, Fresh
  <2>6. Accounts(b, f, from)
    BY <1>3, <2>1, <2>2 DEF Grown, Accounts
  <2> QED BY <2>4, <2>5, <2>6 DEF Grown, f
<1> QED BY <1>1, <1>2, <1>3

LEMMA ReplentishedGrown ==
    ASSUME TInv, NEW b, NEW c, NEW from, Sound(c), Grown(b, c, from)
    PROVE  Grown(b, Replentished(c, clock), from)
<1> DEFINE r == Replentished(c, clock)
<1>1. /\ r.fin = c.fin /\ r.told = c.told /\ r.removed = c.removed
      /\ \A s \in DOMAIN r.data : s <= r.max
      /\ \A s \in Slices, k \in Keys, i \in Items : At(r, s, k, i) <=> At(c, s, k, i)
  BY ReplentishedAt DEF Grown, Tidy
<1> HIDE DEF r
<1>2. Tidy(r)
  BY <1>1 DEF Grown, Tidy
<1>3. Filled(r, clock) /\ Fresh(b, r, from)
  BY <1>1 DEF Grown, Filled, Fresh
<1>4. Accounts(b, r, from)
  BY <1>1 DEF Grown, Accounts
<1> QED BY <1>2, <1>3, <1>4 DEF Grown, r

\* What collection takes away was passed to notifyDel.
LEMMA CollectedGrown ==
    ASSUME TInv, NEW b, NEW c, NEW from, Sound(c), Grown(b, c, from)
    PROVE  Grown(b, Collected(c, clock), from)
<1> DEFINE g == Collected(c, clock)
<1>1. /\ g.fin = c.fin /\ g.max = c.max /\ g.told = c.told /\ g.removed = c.removed
      /\ DOMAIN g.data = {s \in DOMAIN c.data : s > c.fin}
      /\ \A s \in Slices, k \in Keys, i \in Items : At(g, s, k, i) <=> At(c, s, k, i) /\ s > c.fin
  BY CollectedAt
<1>2. c.fin \in Int /\ Slices \subseteq Nat
  BY SoundFields, Numbers
<1> HIDE DEF g
<1>3. Tidy(g)
  BY <1>1 DEF Grown, Tidy
<1>4. Filled(g, clock) /\ Fresh(b, g, from)
  BY <1>1 DEF Grown, Filled, Fresh
<1>5. ASSUME NEW s \in Slices, NEW k \in Keys, NEW i \in Items, At(c, s, k, i)
      PROVE  At(g, s, k, i) \/ i \in g.told
  <2>1. CASE s > c.fin
    BY <1>1, <1>5, <2>1
  <2>2. CASE ~(s > c.fin)
    <3>1. s <= c.fin
      BY <1>2, <2>2
    <3> QED BY <1>1, <1>5, <3>1 DEF Grown, Tidy
  <2> QED BY <2>1, <2>2
<1>6. Accounts(b, g, from)
  <2> SUFFICES ASSUME NEW s \in Slices, NEW k \in Keys, NEW i \in Items, At(b, s, k, i),
                      ~At(g, s, k, i), i \notin g.told \cup g.removed
               PROVE  \E r \in Slices : r >= from /\ At(g, r, k, i) /\ ~At(b, r, k, i)
    BY DEF Accounts
  <2>1. ~At(c, s, k, i) /\ i \notin c.told \cup c.removed
    BY <1>1, <1>5
  <2>2. PICK r \in Slices : r >= from /\ At(c, r, k, i) /\ ~At(b, r, k, i)
    BY <2>1 DEF Grown, Accounts
  <2>3. At(g, r, k, i)
    BY <1>5, <2>2
  <2> QED BY <2>2, <2>3
<1> QED BY <1>3, <1>4, <1>6 DEF Grown, g

LEMMA HousekeptGrown ==
    ASSUME TInv, NEW t, NEW b, NEW c, NEW from, Sound(b), Made(b, c), Grown(b, c, from),
           NEW d \in Housekept(t, c)
    PROVE  Grown(b, d, from)
<1>1. PICK f \in Finalizes(t, c) : \E r \in Replentishes(t, f) : d \in Collects(r)
  BY DEF Housekept
<1>. PICK r \in Replentishes(t, f) : d \in Collects(r)
  BY <1>1
<1>2. Sound(f) /\ Follows(b, f) /\ Grown(b, f, from)
  <2>1. CASE f = c
    BY <2>1 DEF Made
  <2>2. CASE f = Finalized(c, clock)
    BY <2>2, FinalizedSound, FinalizedGrown DEF Made
  <2> QED BY <1>1, <2>1, <2>2 DEF Finalizes
<1>3. Sound(r) /\ Grown(b, r, from)
  <2>1. CASE r = f
    BY <1>2, <2>1
  <2>2. CASE r = Replentished(f, clock)
    BY <1>2, <2>2, ReplentishedSound, ReplentishedGrown
  <2> QED BY <1>1, <2>1, <2>2 DEF Replentishes
<1>4. CASE d = r
  BY <1>3, <1>4
<1>5. CASE d = Collected(r, clock)
  BY <1>3, <1>5, CollectedGrown
<1> QED BY <1>1, <1>4, <1>5 DEF Collects

LEMMA PreparedGrown ==
    ASSUME TInv, NEW t, NEW b, NEW c, NEW from, Sound(b), Made(b, c), Grown(b, c, from),
           NEW d \in Prepared(t, c)
    PROVE  Grown(b, d, from)
<1>1. CASE inband
  BY <1>1, HousekeptGrown DEF Prepared
<1>2. CASE ~inband /\ d = c
  BY <1>2
<1>3. CASE ~inband /\ d = Replentished(c, clock)
  BY <1>3, ReplentishedGrown DEF Made
<1> QED BY <1>1, <1>2, <1>3 DEF Prepared

LEMMA PreparedTwiceGrown ==
    ASSUME TInv, NEW t, NEW b, NEW from, Sound(b), Made(b, txn[t].view),
           Grown(b, txn[t].view, from), NEW d \in PreparedTwice(t)
    PROVE  Grown(b, d, from)
<1>1. PICK c \in Prepared(t, txn[t].view) : d \in Prepared(t, c)
  BY DEF PreparedTwice
<1>2. Made(b, c) /\ Grown(b, c, from)
  BY <1>1, PreparedMade, PreparedGrown
<1> QED BY <1>1, <1>2, PreparedGrown

\* Nothing is said of where else the object may be; but if the transaction found
\* it in the bucket of the present too, it has deleted it.
LEMMA MovedGrown ==
    ASSUME TInv, NEW b, NEW c, NEW from \in Int, from <= clock, Filled(b, from),
           Sound(c), Grown(b, c, from), clock \in DOMAIN c.data,
           NEW k \in Keys, Holding(c, k, clock) # {}
    PROVE  Grown(b, Moved(c, k, clock), from)
<1> DEFINE m == Moved(c, k, clock)
<1>1. PICK s \in Slices, i \in Items :
        /\ Newest(c, k, s, i)
        /\ s # clock => \A j \in Items : ~At(c, clock, k, j)
        /\ m.fin = c.fin /\ m.max = c.max /\ m.told = c.told /\ m.removed = c.removed
        /\ DOMAIN m.data = DOMAIN c.data
        /\ \A x \in Slices, l \in Keys, j \in Items :
              At(m, x, l, j) <=> \/ At(c, x, l, j) /\ ~(x = s /\ l = k)
                                 \/ x = clock /\ l = k /\ j = i
  BY MovedAt
<1>2. clock \in Nat /\ clock \in Slices /\ c.fin \in Int /\ c.fin < clock /\ Slices \subseteq Nat
  BY Numbers, SoundFields
<1> HIDE DEF m
<1>3. ASSUME NEW x \in Slices, NEW l \in Keys, NEW j \in Items, At(m, x, l, j)
      PROVE  At(c, x, l, j) \/ (x = clock /\ l = k /\ j = i)
  BY <1>1, <1>3
<1>4. Tidy(m)
  <2>1. ASSUME NEW x \in Slices, NEW l \in Keys, NEW j \in Items, At(m, x, l, j), x <= m.fin
        PROVE  j \in m.told
    <3>1. x # clock
      BY <1>1, <1>2, <2>1
    <3> QED BY <1>1, <1>3, <2>1, <3>1 DEF Grown, Tidy
  <2> QED BY <1>1, <2>1 DEF Grown, Tidy
<1>5. Filled(m, clock)
  BY <1>2, <1>3 DEF Grown, Filled
<1>6. Fresh(b, m, from)
  BY <1>2, <1>3 DEF Grown, Fresh
<1>7. \/ i \in m.told \cup m.removed \/ s = clock
      \/ At(m, clock, k, i) /\ ~At(b, clock, k, i)
  <2> SUFFICES ASSUME s # clock, At(b, clock, k, i), i \notin m.told \cup m.removed
               PROVE  FALSE
    BY <1>1, <1>2
  <2>1. clock = from
    BY <1>2 DEF Filled
  <2>2. ~At(c, clock, k, i)
    BY <1>1
  <2>3. PICK r \in Slices : r >= from /\ At(c, r, k, i) /\ ~At(b, r, k, i)
    BY <1>1, <1>2, <2>2 DEF Grown, Accounts
  <2>4. r <= clock /\ r \in Nat
    BY <1>2, <2>3 DEF Grown, Filled
  <2>5. r = clock
    BY <1>2, <2>1, <2>3, <2>4
  <2> QED BY <2>2, <2>3, <2>5
<1>8. Accounts(b, m, from)
  <2> SUFFICES ASSUME NEW x \in Slices, NEW l \in Keys, NEW j \in Items, At(b, x, l, j),
                      ~At(m, x, l, j), j \notin m.told \cup m.removed
               PROVE  \E r \in Slices : r >= from /\ At(m, r, l, j) /\ ~At(b, r, l, j)
    BY DEF Accounts
  <2>1. CASE l = k /\ j = i /\ s # clock /\ At(m, clock, k, i) /\ ~At(b, clock, k, i)
    BY <1>2, <2>1
  <2>2. CASE At(c, x, l, j)
    <3>1. x = s /\ l = k /\ ~(x = clock /\ l = k /\ j = i)
      BY <1>1, <2>2
    <3>2. j = i
      BY <1>1, <2>2, <3>1 DEF Newest, At
    <3> QED BY <1>7, <2>1, <3>1, <3>2
  <2>3. CASE ~At(c, x, l, j)
    <3>1. j \notin c.told \cup c.removed
      BY <1>1
    <3>2. PICK r \in Slices : r >= from /\ At(c, r, l, j) /\ ~At(b, r, l, j)
      BY <2>3, <3>1 DEF Grown, Accounts
    <3>3. CASE At(m, r, l, j)
      BY <3>2, <3>3
    <3>4. CASE ~At(m, r, l, j)
      <4>1. r = s /\ l = k /\ ~(r = clock /\ l = k /\ j = i)
        BY <1>1, <3>2, <3>4
      <4>2. j = i
        BY <1>1, <3>2, <4>1 DEF Newest, At
      <4> QED BY <1>7, <2>1, <4>1, <4>2
    <3> QED BY <3>3, <3>4
  <2> QED BY <2>2, <2>3
<1> QED BY <1>4, <1>5, <1>6, <1>8 DEF Grown, m

LEMMA DeletedGrown ==
    ASSUME TInv, NEW b, NEW c, NEW from, Sound(c), Grown(b, c, from), clock \in DOMAIN c.data,
           NEW k \in Keys, Holding(c, k, clock) # {}
    PROVE  Grown(b, Deleted(c, k, clock), from)
<1> DEFINE d == Deleted(c, k, clock)
<1>1. PICK s \in Slices, i \in Items :
        /\ Newest(c, k, s, i)
        /\ d.fin = c.fin /\ d.max = c.max /\ d.told = c.told /\ d.removed = c.removed \cup {i}
        /\ DOMAIN d.data = DOMAIN c.data
        /\ \A x \in Slices, l \in Keys, j \in Items :
              At(d, x, l, j) <=> At(c, x, l, j) /\ ~(x = s /\ l = k)
  BY DeletedAt
<1> HIDE DEF d
<1>2. Tidy(d)
  BY <1>1 DEF Grown, Tidy
<1>3. Filled(d, clock) /\ Fresh(b, d, from)
  BY <1>1 DEF Grown, Filled, Fresh
<1>4. ASSUME NEW x \in Slices, NEW l \in Keys, NEW j \in Items, At(c, x, l, j)
      PROVE  At(d, x, l, j) \/ j \in d.removed
  <2>1. CASE x = s /\ l = k
    <3>1. j = i
      BY <1>1, <1>4, <2>1 DEF Newest, At
    <3> QED BY <1>1, <3>1
  <2>2. CASE ~(x = s /\ l = k)
    BY <1>1, <1>4, <2>2
  <2> QED BY <2>1, <2>2
<1>5. Accounts(b, d, from)
  <2> SUFFICES ASSUME NEW x \in Slices, NEW l \in Keys, NEW j \in Items, At(b, x, l, j),
                      ~At(d, x, l, j), j \notin d.told \cup d.removed
               PROVE  \E r \in Slices : r >= from /\ At(d, r, l, j) /\ ~At(b, r, l, j)
    BY DEF Accounts
  <2>1. ~At(c, x, l, j) /\ j \notin c.told \cup c.removed
    BY <1>1, <1>4
  <2>2. PICK r \in Slices : r >= from /\ At(c, r, l, j) /\ ~At(b, r, l, j)
    BY <2>1 DEF Grown, Accounts
  <2>3. At(d, r, l, j)
    BY <1>4, <2>2
  <2> QED BY <2>2, <2>3
<1> QED BY <1>2, <1>3, <1>5 DEF Grown, d

LEMMA AddedGrown ==
    ASSUME TInv, NEW b, NEW c, NEW from \in Int, from <= clock,
           Sound(c), Grown(b, c, from), clock \in DOMAIN c.data,
           NEW k \in Keys, NEW i \in Items, Holding(c, k, clock) = {}
    PROVE  Grown(b, Added(c, k, i, clock), from)
<1> DEFINE a == Added(c, k, i, clock)
<1>1. /\ a.fin = c.fin /\ a.max = c.max /\ a.told = c.told /\ a.removed = c.removed
      /\ DOMAIN a.data = DOMAIN c.data
      /\ \A x \in Slices, l \in Keys, j \in Items :
            At(a, x, l, j) <=> At(c, x, l, j) \/ (x = clock /\ l = k /\ j = i)
  BY AddedAt
<1>2. clock \in Nat /\ clock \in Slices /\ c.fin \in Int /\ c.fin < clock /\ Slices \subseteq Nat
  BY Numbers, SoundFields
<1> HIDE DEF a
<1>3. Tidy(a)
  <2>1. ASSUME NEW x \in Slices, NEW l \in Keys, NEW j \in Items, At(a, x, l, j), x <= a.fin
        PROVE  j \in a.told
    <3>1. x # clock
      BY <1>1, <1>2, <2>1
    <3> QED BY <1>1, <2>1, <3>1 DEF Grown, Tidy
  <2> QED BY <1>1, <2>1 DEF Grown, Tidy
<1>4. Filled(a, clock)
  BY <1>1, <1>2 DEF Grown, Filled
<1>5. Fresh(b, a, from)
  BY <1>1, <1>2 DEF Grown, Fresh
<1>6. Accounts(b, a, from)
  BY <1>1 DEF Grown, Accounts
<1> QED BY <1>3, <1>4, <1>5, <1>6 DEF Grown, a

-----------------------------------------------------------------------------
(* What commits make of the places *)

NoConflict(o, v, n) ==
    /\ SlicesChanged(o, v) \cap SlicesChanged(o, n) = {}
    /\ EntriesChanged(o, v) \cap EntriesChanged(o, n) = {}

\* What the transaction found, what was committed since and what it has made of
\* it, where the changes of each are in buckets the other keeps.
Mergeable(o, v, n, from) ==
    /\ Sound(o) /\ Sound(v) /\ Made(o, n) /\ Follows(o, v)
    /\ Fresh(o, v, from - MaxSpan) /\ Grown(o, n, from)
    /\ Tidy(v) /\ Filled(v, clock)
    /\ from \in Nat /\ from <= clock /\ clock - from <= MaxSpan
    /\ NoConflict(o, v, n)

LEMMA MergeableIsTimely ==
    ASSUME TInv, NEW o, NEW v, NEW n, NEW from, Mergeable(o, v, n, from), NEW s \in Slices
    PROVE  /\ s >= from - MaxSpan => s > n.fin
           /\ s >= from => s > v.fin
<1>1. /\ clock \in Nat /\ TimeoutSlices \in Nat /\ MaxSpan \in Nat /\ 2 * MaxSpan <= TimeoutSlices
      /\ MaxExpired(clock) = clock - TimeoutSlices - 1 /\ Slices \subseteq Nat
  BY Numbers
<1>2. Sound(n) /\ Sound(v) /\ from \in Nat /\ clock - from <= MaxSpan
  BY DEF Mergeable, Made
<1>3. n.fin \in Int /\ v.fin \in Int /\ s \in Nat
  BY <1>1, <1>2, SoundFields
<1>4. (n.fin >= 0 => n.fin <= MaxExpired(clock)) /\ (v.fin >= 0 => v.fin <= MaxExpired(clock))
  BY DEF Mergeable, Grown, Tidy
<1>5. s >= from - MaxSpan => s > n.fin
  BY <1>1, <1>2, <1>3, <1>4
<1>6. s >= from => s > v.fin
  BY <1>1, <1>2, <1>3, <1>4
<1> QED BY <1>5, <1>6

\* The merged container has at a place what both have kept there, or what either
\* has put there.
LEMMA MergedAt ==
    ASSUME TInv, NEW o, NEW v, NEW n, NEW from, Mergeable(o, v, n, from),
           NEW s \in Slices, NEW k \in Keys, NEW i \in Items
    PROVE  At(Merged(o, v, n), s, k, i) <=>
               \/ At(o, s, k, i) /\ At(v, s, k, i) /\ At(n, s, k, i)
               \/ At(v, s, k, i) /\ ~At(o, s, k, i)
               \/ At(n, s, k, i) /\ ~At(o, s, k, i)
<1> DEFINE d == MergedData(o, v, n)
           Dm == (DOMAIN v.data \ (DOMAIN o.data \ DOMAIN n.data))
                     \cup (DOMAIN n.data \ DOMAIN o.data)
<1>1. Sound(o) /\ Sound(v) /\ Sound(n) /\ Follows(o, v) /\ Follows(o, n)
  BY DEF Mergeable, Made
<1>2. o \in Container /\ v \in Container /\ n \in Container
  BY <1>1, SoundFields
<1>3. DOMAIN d = Dm
  BY <1>2, MergedDataType
<1>4. s \in DOMAIN d =>
         d[s] = IF s \notin DOMAIN v.data THEN n.data[s]
                ELSE [l \in Keys |->
                        IF <<s, l>> \in EntriesChanged(o, n) THEN n.data[s][l] ELSE v.data[s][l]]
  BY DEF MergedData
<1>5. At(Merged(o, v, n), s, k, i) <=> s \in DOMAIN d /\ d[s][k] = i
  BY DEF At, Merged
<1>6. /\ At(o, s, k, i) <=> s \in DOMAIN o.data /\ o.data[s][k] = i
      /\ At(v, s, k, i) <=> s \in DOMAIN v.data /\ v.data[s][k] = i
      /\ At(n, s, k, i) <=> s \in DOMAIN n.data /\ n.data[s][k] = i
  BY DEF At
<1> HIDE DEF d
<1>7. CASE s \in Dm /\ s \notin DOMAIN v.data
  <2>1. s \in DOMAIN n.data /\ s \notin DOMAIN o.data
    BY <1>7
  <2>2. d[s] = n.data[s]
    BY <1>3, <1>4, <1>7
  <2> QED BY <1>3, <1>5, <1>6, <1>7, <2>1, <2>2
<1>8. CASE s \in Dm /\ s \in DOMAIN v.data
  <2>1. d[s][k] = IF <<s, k>> \in EntriesChanged(o, n) THEN n.data[s][k] ELSE v.data[s][k]
    BY <1>3, <1>4, <1>8
  <2>2. CASE s \in DOMAIN o.data
    <3>1. s \in DOMAIN n.data
      BY <1>8, <2>2
    <3>2. /\ <<s, k>> \in EntriesChanged(o, n) <=> o.data[s][k] # n.data[s][k]
          /\ <<s, k>> \in EntriesChanged(o, v) <=> o.data[s][k] # v.data[s][k]
      BY <1>8, <2>2, <3>1 DEF EntriesChanged
    <3>3. CASE o.data[s][k] # n.data[s][k]
      <4>1. o.data[s][k] = v.data[s][k]
        BY <3>2, <3>3 DEF Mergeable, NoConflict
      <4>2. d[s][k] = n.data[s][k]
        BY <2>1, <3>2, <3>3
      <4> QED BY <1>3, <1>5, <1>6, <1>8, <2>2, <3>1, <3>3, <4>1, <4>2
    <3>4. CASE o.data[s][k] = n.data[s][k]
      <4>1. d[s][k] = v.data[s][k]
        BY <2>1, <3>2, <3>4
      <4> QED BY <1>3, <1>5, <1>6, <1>8, <2>2, <3>1, <3>4, <4>1
    <3> QED BY <3>3, <3>4
  <2>3. CASE s \notin DOMAIN o.data
    <3>1. s \notin DOMAIN n.data
      BY <1>8, <2>3 DEF Mergeable, NoConflict, SlicesChanged
    <3>2. <<s, k>> \notin EntriesChanged(o, n)
      BY <2>3 DEF EntriesChanged
    <3> QED BY <1>3, <1>5, <1>6, <1>8, <2>1, <2>3, <3>1, <3>2
  <2> QED BY <2>2, <2>3
<1>9. CASE s \notin Dm
  <2>1. ~(At(o, s, k, i) /\ At(v, s, k, i) /\ At(n, s, k, i))
    BY <1>6, <1>9
  <2>2. ~(At(v, s, k, i) /\ ~At(o, s, k, i))
    <3> SUFFICES ASSUME At(v, s, k, i), ~At(o, s, k, i) PROVE FALSE
      OBVIOUS
    <3>1. s \in DOMAIN o.data /\ s \notin DOMAIN n.data
      BY <1>6, <1>9
    <3>2. s >= from - MaxSpan
      BY DEF Mergeable, Fresh
    <3>3. s > n.fin
      BY <3>2, MergeableIsTimely
    <3> QED BY <1>1, <3>1, <3>3 DEF Follows
  <2>3. ~(At(n, s, k, i) /\ ~At(o, s, k, i))
    <3> SUFFICES ASSUME At(n, s, k, i), ~At(o, s, k, i) PROVE FALSE
      OBVIOUS
    <3>1. s \in DOMAIN o.data /\ s \notin DOMAIN v.data
      BY <1>6, <1>9
    <3>2. s >= from
      BY DEF Mergeable, Grown, Fresh
    <3>3. s > v.fin
      BY <3>2, MergeableIsTimely
    <3> QED BY <1>1, <3>1, <3>3 DEF Follows
  <2> QED BY <1>3, <1>5, <1>9, <2>1, <2>2, <2>3
<1> QED BY <1>7, <1>8, <1>9

\* The other fields of a merged container.
LEMMA MergedFields ==
    ASSUME TInv, NEW o, NEW v, NEW n, NEW from, Mergeable(o, v, n, from)
    PROVE  LET m == Merged(o, v, n)
           IN  /\ m.told = v.told \cup n.told /\ m.removed = v.removed \cup n.removed
               /\ m.ceiling = v.ceiling + n.ceiling - o.ceiling
               /\ m.floor = Floor(o.floor, v.floor, n.floor)
               /\ v.max <= m.max /\ n.max <= m.max /\ m.max \in Int
               /\ v.fin <= m.fin /\ n.fin <= m.fin /\ m.fin \in {v.fin, n.fin} /\ m.fin \in Int
               /\ DOMAIN m.data \subseteq DOMAIN v.data \cup DOMAIN n.data
<1>1. Sound(o) /\ Sound(v) /\ Sound(n) /\ Follows(o, v)
  BY DEF Mergeable, Made
<1>2. /\ o \in Container /\ v \in Container /\ n \in Container
      /\ o.max \in Int /\ v.max \in Int /\ n.max \in Int
      /\ o.fin \in Int /\ v.fin \in Int /\ n.fin \in Int
  BY <1>1, SoundFields
<1> DEFINE x == Greatest(o.max, v.max, n.max)
           f == Greatest(o.fin, v.fin, n.fin)
           m == Merged(o, v, n)
<1>3. x \in Int /\ v.max <= x /\ n.max <= x
  BY <1>2, GreatestOfThree, Zenon
<1>4. f \in {o.fin, v.fin, n.fin} /\ f \in Int /\ v.fin <= f /\ n.fin <= f
  BY <1>2, GreatestOfThree, Zenon
<1> HIDE DEF x, f
<1>5. f \in {v.fin, n.fin}
  <2>1. o.fin <= v.fin
    BY <1>1 DEF Follows
  <2> QED BY <1>2, <1>4, <2>1
<1>6. DOMAIN MergedData(o, v, n) \subseteq DOMAIN v.data \cup DOMAIN n.data
  <2>1. DOMAIN MergedData(o, v, n) = (DOMAIN v.data \ (DOMAIN o.data \ DOMAIN n.data))
                                         \cup (DOMAIN n.data \ DOMAIN o.data)
    BY <1>2, MergedDataType, Zenon
  <2> QED BY <2>1, Zenon
<1>7. /\ m.told = v.told \cup n.told /\ m.removed = v.removed \cup n.removed
      /\ m.max = x /\ m.fin = f /\ m.data = MergedData(o, v, n)
      /\ m.ceiling = Ceiling(o.ceiling, v.ceiling, n.ceiling)
      /\ m.floor = Floor(o.floor, v.floor, n.floor)
  BY DEF Merged, x, f
<1> HIDE DEF m
<1>8. m.ceiling = v.ceiling + n.ceiling - o.ceiling
  BY <1>7 DEF Ceiling
<1> QED BY <1>3, <1>4, <1>5, <1>6, <1>7, <1>8 DEF m

LEMMA MergedTidy ==
    ASSUME TInv, NEW o, NEW v, NEW n, NEW from, Mergeable(o, v, n, from)
    PROVE  Tidy(Merged(o, v, n)) /\ Filled(Merged(o, v, n), clock)
<1> DEFINE m == Merged(o, v, n)
<1>1. /\ m.told = v.told \cup n.told
      /\ v.max <= m.max /\ n.max <= m.max /\ m.max \in Int
      /\ m.fin \in {v.fin, n.fin} /\ m.fin \in Int
      /\ DOMAIN m.data \subseteq DOMAIN v.data \cup DOMAIN n.data
  BY MergedFields
<1>2. \A s \in Slices, k \in Keys, i \in Items :
         At(m, s, k, i) <=>
               \/ At(o, s, k, i) /\ At(v, s, k, i) /\ At(n, s, k, i)
               \/ At(v, s, k, i) /\ ~At(o, s, k, i)
               \/ At(n, s, k, i) /\ ~At(o, s, k, i)
  BY MergedAt
<1>3. Sound(v) /\ Sound(n) /\ Tidy(v) /\ Tidy(n) /\ Filled(v, clock) /\ Filled(n, clock)
  BY DEF Mergeable, Made, Grown
<1>4. /\ v.max \in Int /\ n.max \in Int /\ v.fin \in Int /\ n.fin \in Int
      /\ DOMAIN v.data \subseteq Int /\ DOMAIN n.data \subseteq Int /\ Slices \subseteq Nat
  BY <1>3, SoundFields, Numbers
<1> HIDE DEF m
<1>5. ASSUME NEW s \in DOMAIN m.data PROVE s <= m.max
  <2>1. CASE s \in DOMAIN v.data
    <3>1. s <= v.max /\ s \in Int
      BY <1>3, <1>4, <2>1 DEF Tidy
    <3> QED BY <1>1, <1>4, <3>1
  <2>2. CASE s \in DOMAIN n.data
    <3>1. s <= n.max /\ s \in Int
      BY <1>3, <1>4, <2>2 DEF Tidy
    <3> QED BY <1>1, <1>4, <3>1
  <2> QED BY <1>1, <2>1, <2>2
<1>6. m.fin >= 0 => m.fin <= MaxExpired(clock)
  BY <1>1, <1>3 DEF Tidy
<1>7. ASSUME NEW s \in Slices, NEW k \in Keys, NEW i \in Items, At(m, s, k, i), s <= m.fin
      PROVE  i \in m.told
  <2>1. s \in Int /\ (s <= v.fin \/ s <= n.fin)
    BY <1>1, <1>4, <1>7
  <2>2. CASE At(v, s, k, i) /\ At(n, s, k, i)
    BY <1>1, <1>3, <2>1, <2>2 DEF Tidy
  <2>3. CASE At(v, s, k, i) /\ ~At(o, s, k, i)
    <3>1. s > n.fin
      BY <2>3, MergeableIsTimely DEF Mergeable, Fresh
    <3>2. s <= v.fin
      BY <1>4, <2>1, <3>1
    <3> QED BY <1>1, <1>3, <2>3, <3>2 DEF Tidy
  <2>4. CASE At(n, s, k, i) /\ ~At(o, s, k, i)
    <3>1. s > v.fin
      BY <2>4, MergeableIsTimely DEF Mergeable, Grown, Fresh
    <3>2. s <= n.fin
      BY <1>4, <2>1, <3>1
    <3> QED BY <1>1, <1>3, <2>4, <3>2 DEF Tidy
  <2> QED BY <1>2, <1>7, <2>2, <2>3, <2>4
<1>8. Tidy(m)
  BY <1>5, <1>6, <1>7 DEF Tidy
<1>9. Filled(m, clock)
  BY <1>2, <1>3 DEF Filled
<1> QED BY <1>8, <1>9 DEF m

\* An object that a commit takes from the places where it was is at another, or
\* accounted for.
LEMMA MergedKeeps ==
    ASSUME TInv, NEW o, NEW v, NEW n, NEW from, Mergeable(o, v, n, from),
           NEW s \in Slices, NEW k \in Keys, NEW i \in Items, At(v, s, k, i)
    PROVE  \/ i \in Merged(o, v, n).told \cup Merged(o, v, n).removed
           \/ \E r \in Slices : At(Merged(o, v, n), r, k, i)
<1> DEFINE m == Merged(o, v, n)
<1>1. m.told = v.told \cup n.told /\ m.removed = v.removed \cup n.removed
  BY MergedFields
<1>2. \A r \in Slices : At(m, r, k, i) <=>
               \/ At(o, r, k, i) /\ At(v, r, k, i) /\ At(n, r, k, i)
               \/ At(v, r, k, i) /\ ~At(o, r, k, i)
               \/ At(n, r, k, i) /\ ~At(o, r, k, i)
  BY MergedAt
<1> HIDE DEF m
<1>3. CASE ~At(o, s, k, i) \/ At(n, s, k, i)
  <2>1. At(m, s, k, i)
    BY <1>2, <1>3
  <2> QED BY <2>1 DEF m
<1>4. CASE At(o, s, k, i) /\ ~At(n, s, k, i)
  <2>1. \/ i \in n.told \cup n.removed
        \/ \E r \in Slices : r >= from /\ At(n, r, k, i) /\ ~At(o, r, k, i)
    BY <1>4 DEF Mergeable, Grown, Accounts
  <2> QED BY <1>1, <1>2, <2>1 DEF m
<1> QED BY <1>3, <1>4

-----------------------------------------------------------------------------
(* The invariant of the sessions *)

SessionInv ==
    /\ Tidy(db) /\ Filled(db, clock)
    /\ \A t \in open : /\ clock - txn[t].since <= MaxSpan
                       /\ Filled(txn[t].base, txn[t].since)
                       /\ Grown(txn[t].base, txn[t].view, txn[t].since)
                       /\ Fresh(txn[t].base, db, txn[t].since - MaxSpan)

\* When a transaction may commit, it can be merged.
LEMMA CommitIsMergeable ==
    ASSUME TInv, BucketInv, SessionInv, NEW t \in open, ~Conflict(t)
    PROVE  Mergeable(txn[t].base, db, txn[t].view, txn[t].since)
<1>1. txn[t].since \in StartTime .. clock /\ clock \in Nat /\ StartTime \in Nat
  BY Numbers, ContainerAssumption DEF TInv, Transactions
<1>2. txn[t].since \in Nat /\ txn[t].since <= clock
  BY <1>1
<1>3. NoConflict(txn[t].base, db, txn[t].view)
  BY DEF Conflict, NoConflict
<1> QED BY <1>2, <1>3 DEF BucketInv, SessionInv, Mergeable

LEMMA InitSession ==
    ASSUME Init, TInv, BucketInv
    PROVE  SessionInv
<1>1. PICK made \in MadeAt : db = NewContainer(made)
  BY DEF Init
<1>2. made \in Nat /\ SpareBuckets \in Nat /\ Sound(db) /\ open = {} /\ NoItem \notin Items
  BY ContainerAssumption DEF Init, open, BucketInv
<1> DEFINE d == [s \in made .. made + 2 * SpareBuckets - 1 |-> EmptyBucket]
<1>3. db.data = d /\ db.max = made + 2 * SpareBuckets - 1 /\ db.fin = -1
  BY <1>1 DEF NewContainer
<1>4. \A s \in DOMAIN d, k \in Keys : d[s][k] = NoItem
  BY DEF EmptyBucket
<1>5. DOMAIN d = made .. made + 2 * SpareBuckets - 1
  OBVIOUS
<1> HIDE DEF d
<1>6. \A s \in Slices, k \in Keys, i \in Items : ~At(db, s, k, i)
  BY <1>2, <1>3, <1>4 DEF At
<1>7. \A s \in DOMAIN db.data : s <= db.max
  BY <1>2, <1>3, <1>5
<1>8. Tidy(db)
  BY <1>3, <1>6, <1>7 DEF Tidy
<1>9. Filled(db, clock)
  BY <1>6 DEF Filled
<1> QED BY <1>2, <1>8, <1>9 DEF SessionInv

\* What every operation does to the transactions.
LEMMA OperationSession ==
    ASSUME TInv, BucketInv, SessionInv, NEW t \in Threads, Operate(t),
           NEW d, Grown(txn[t].base, d, txn[t].since), txn' = [txn EXCEPT ![t].view = d]
    PROVE  SessionInv'
<1>1. t \in open /\ clock' = clock /\ db' = db
  BY DEF Operate
<1>2. txn' = [txn EXCEPT ![t] = [txn[t] EXCEPT !.view = d]]
  BY <1>1 DEF TInv
<1>3. open' = open
  BY <1>1, <1>2 DEF TInv, open
<1>4. ASSUME NEW u \in open
      PROVE  /\ txn'[u].base = txn[u].base /\ txn'[u].since = txn[u].since
             /\ txn'[u].view = IF u = t THEN d ELSE txn[u].view
  BY <1>1, <1>2 DEF TInv, Transactions
<1>5. (Tidy(db) /\ Filled(db, clock))'
  BY <1>1 DEF SessionInv, Tidy, Filled
<1>6. ASSUME NEW u \in open'
      PROVE  (/\ clock - txn[u].since <= MaxSpan
              /\ Filled(txn[u].base, txn[u].since)
              /\ Grown(txn[u].base, txn[u].view, txn[u].since)
              /\ Fresh(txn[u].base, db, txn[u].since - MaxSpan))'
  <2>1. PICK b, v, z : b = txn'[u].base /\ v = txn'[u].view /\ z = txn'[u].since
    OBVIOUS
  <2>2. u \in open /\ b = txn[u].base /\ z = txn[u].since
    BY <1>3, <1>4, <2>1
  <2>3. Grown(b, v, z)
    <3>1. CASE u = t
      BY <1>4, <2>1, <2>2, <3>1
    <3>2. CASE u # t
      BY <1>4, <2>1, <2>2, <3>2 DEF SessionInv
    <3> QED BY <3>1, <3>2
  <2>4. clock - z <= MaxSpan /\ Filled(b, z) /\ Fresh(b, db, z - MaxSpan)
    BY <2>2 DEF SessionInv
  <2> QED BY <1>1, <2>1, <2>3, <2>4 DEF Grown, Tidy, Filled, Fresh, Accounts
<1> QED BY <1>5, <1>6 DEF SessionInv

LEMMA OperationsSession ==
    ASSUME TInv, BucketInv, SessionInv, NEW t \in Threads,
           \/ Housekeep(t)
           \/ \E k \in Keys : Get(t, k) \/ NewOrExisting(t, k) \/ Delete(t, k)
    PROVE  SessionInv'
<1>1. Operate(t) /\ t \in open
  BY DEF Housekeep, Get, NewOrExisting, Delete, Operate
<1>2. PICK b, z : b = txn[t].base /\ z = txn[t].since
  OBVIOUS
<1>3. /\ Sound(b) /\ Made(b, txn[t].view) /\ Grown(b, txn[t].view, z) /\ Filled(b, z)
      /\ z \in Int /\ z <= clock
  <2>1. z \in StartTime .. clock /\ clock \in Nat /\ StartTime \in Nat
    BY <1>1, <1>2, Numbers, ContainerAssumption DEF TInv, Transactions
  <2> QED BY <1>1, <1>2, <2>1 DEF BucketInv, SessionInv
<1>4. ASSUME NEW c \in Prepared(t, txn[t].view)
      PROVE  Sound(c) /\ clock \in DOMAIN c.data /\ Grown(b, c, z)
  BY <1>3, PreparedMade, PreparedGrown DEF Made
<1>5. ASSUME NEW c \in PreparedTwice(t)
      PROVE  Sound(c) /\ clock \in DOMAIN c.data /\ Grown(b, c, z)
  BY <1>3, PreparedTwiceMade, PreparedTwiceGrown DEF Made
<1>6. CASE Housekeep(t)
  <2>1. PICK c \in Housekept(t, txn[t].view) : txn' = [txn EXCEPT ![t].view = c]
    BY <1>6 DEF Housekeep
  <2>2. Grown(b, c, z)
    BY <1>3, <2>1, HousekeptGrown
  <2> QED BY <1>1, <1>2, <2>1, <2>2, OperationSession
<1>7. ASSUME NEW k \in Keys, Get(t, k) PROVE SessionInv'
  <2>1. PICK c \in Prepared(t, txn[t].view) : txn' = [txn EXCEPT ![t].view = Looked(c, k, clock)]
    BY <1>7 DEF Get
  <2>2. Grown(b, Looked(c, k, clock), z)
    <3>1. CASE Holding(c, k, clock) = {}
      BY <1>4, <2>1, <3>1 DEF Looked
    <3>2. CASE Holding(c, k, clock) # {}
      BY <1>3, <1>4, <2>1, <3>2, MovedGrown DEF Looked
    <3> QED BY <3>1, <3>2
  <2> QED BY <1>1, <1>2, <2>1, <2>2, OperationSession
<1>8. ASSUME NEW k \in Keys, NewOrExisting(t, k) PROVE SessionInv'
  <2>1. CASE Existing(t, k)
    <3>1. PICK c \in Prepared(t, txn[t].view) :
             Holding(c, k, clock) # {} /\ txn' = [txn EXCEPT ![t].view = Moved(c, k, clock)]
      BY <2>1 DEF Existing
    <3>2. Grown(b, Moved(c, k, clock), z)
      BY <1>3, <1>4, <3>1, MovedGrown
    <3> QED BY <1>1, <1>2, <3>1, <3>2, OperationSession
  <2>2. CASE Full(t, k)
    <3>1. PICK c \in PreparedTwice(t) : txn' = [txn EXCEPT ![t].view = c]
      BY <2>2 DEF Full
    <3>2. Grown(b, c, z)
      BY <1>5, <3>1
    <3> QED BY <1>1, <1>2, <3>1, <3>2, OperationSession
  <2>3. CASE New(t, k)
    <3>1. PICK c \in PreparedTwice(t), i \in Unused :
             /\ Holding(c, k, clock) = {}
             /\ txn' = [txn EXCEPT ![t].view = Added(c, k, i, clock)]
      BY <2>3 DEF New
    <3>2. i \in Items
      BY DEF Unused
    <3>3. Grown(b, Added(c, k, i, clock), z)
      BY <1>3, <1>5, <3>1, <3>2, AddedGrown
    <3> QED BY <1>1, <1>2, <3>1, <3>3, OperationSession
  <2> QED BY <1>8, <2>1, <2>2, <2>3 DEF NewOrExisting
<1>9. ASSUME NEW k \in Keys, Delete(t, k) PROVE SessionInv'
  <2>1. PICK c \in PreparedTwice(t) :
           Holding(c, k, clock) # {} /\ txn' = [txn EXCEPT ![t].view = Deleted(c, k, clock)]
    BY <1>9 DEF Delete
  <2>2. Grown(b, Deleted(c, k, clock), z)
    BY <1>5, <2>1, DeletedGrown
  <2> QED BY <1>1, <1>2, <2>1, <2>2, OperationSession
<1> QED BY <1>6, <1>7, <1>8, <1>9

LEMMA EndSession ==
    ASSUME TInv, BucketInv, SessionInv, NEW t \in Threads, Commit(t) \/ Abort(t)
    PROVE  SessionInv'
<1>1. End(t) /\ t \in open /\ clock' = clock
  BY DEF Commit, Abort, End
<1>2. open' = open \ {t} /\ \A u \in open' : txn'[u] = txn[u]
  BY <1>1, EndKeeps
<1>3. PICK d : /\ d = db' /\ Tidy(d) /\ Filled(d, clock)
               /\ \A u \in open : Fresh(txn[u].base, d, txn[u].since - MaxSpan)
  <2>1. CASE Abort(t)
    <3>1. db' = db
      BY <2>1 DEF Abort
    <3> QED BY <3>1 DEF SessionInv
  <2>2. CASE Commit(t)
    <3> DEFINE o == txn[t].base
               n == txn[t].view
               z == txn[t].since
               m == Merged(o, db, n)
    <3>1. db' = m /\ ~Conflict(t)
      BY <2>2 DEF Commit
    <3>2. Mergeable(o, db, n, z)
      BY <1>1, <3>1, CommitIsMergeable
    <3> HIDE DEF o, n, z
    <3>3. Tidy(m) /\ Filled(m, clock)
      BY <3>2, MergedTidy
    <3>4. \A s \in Slices, k \in Keys, i \in Items :
             At(m, s, k, i) => At(db, s, k, i) \/ (At(n, s, k, i) /\ ~At(o, s, k, i))
      BY <3>2, MergedAt
    <3> HIDE DEF m
    <3>5. z \in Nat /\ clock - z <= MaxSpan /\ Fresh(o, n, z) /\ clock \in Nat /\ MaxSpan \in Nat
      BY <3>2, Numbers DEF Mergeable, Grown
    <3>6. ASSUME NEW u \in open
          PROVE  Fresh(txn[u].base, m, txn[u].since - MaxSpan)
      <4>1. PICK b, y : b = txn[u].base /\ y = txn[u].since
        OBVIOUS
      <4>2. y \in Int /\ y <= clock /\ Fresh(b, db, y - MaxSpan)
        <5>1. y \in StartTime .. clock /\ StartTime \in Nat
          BY <4>1, ContainerAssumption DEF TInv, Transactions
        <5> QED BY <3>5, <4>1, <5>1 DEF SessionInv
      <4>3. ASSUME NEW s \in Slices, NEW k \in Keys, NEW i \in Items,
                   At(m, s, k, i), ~At(b, s, k, i)
            PROVE  s >= y - MaxSpan
        <5>1. CASE At(db, s, k, i)
          BY <4>2, <4>3, <5>1 DEF Fresh
        <5>2. CASE At(n, s, k, i) /\ ~At(o, s, k, i)
          <6>1. s >= z /\ s \in Nat
            BY <3>5, <5>2, Numbers DEF Fresh
          <6> QED BY <3>5, <4>2, <6>1
        <5> QED BY <3>4, <4>3, <5>1, <5>2
      <4>4. Fresh(b, m, y - MaxSpan)
        BY <4>3 DEF Fresh
      <4> QED BY <4>1, <4>4
    <3> QED BY <3>1, <3>3, <3>6
  <2> QED BY <2>1, <2>2
<1>4. (Tidy(db) /\ Filled(db, clock))'
  BY <1>1, <1>3 DEF Tidy, Filled
<1>5. ASSUME NEW u \in open'
      PROVE  (/\ clock - txn[u].since <= MaxSpan
              /\ Filled(txn[u].base, txn[u].since)
              /\ Grown(txn[u].base, txn[u].view, txn[u].since)
              /\ Fresh(txn[u].base, db, txn[u].since - MaxSpan))'
  <2>1. PICK b, v, z : b = txn[u].base /\ v = txn[u].view /\ z = txn[u].since
    OBVIOUS
  <2>2. u \in open /\ b = txn'[u].base /\ v = txn'[u].view /\ z = txn'[u].since
    BY <1>2, <2>1
  <2>3. /\ clock - z <= MaxSpan /\ Filled(b, z) /\ Grown(b, v, z)
        /\ Fresh(b, d, z - MaxSpan)
    BY <1>3, <2>1, <2>2 DEF SessionInv
  <2> QED BY <1>1, <1>3, <2>2, <2>3 DEF Grown, Tidy, Filled, Fresh, Accounts
<1> QED BY <1>4, <1>5 DEF SessionInv

LEMMA BeginSession ==
    ASSUME TInv, BucketInv, SessionInv, NEW t \in Threads, Begin(t)
    PROVE  SessionInv'
<1> DEFINE new == [base |-> db, view |-> db, since |-> clock]
<1>1. clock' = clock /\ db' = db /\ open' = open \cup {t}
  BY DEF Begin, open
<1>2. ASSUME NEW u \in open' PROVE txn'[u] = IF u = t THEN new ELSE txn[u]
  BY <1>1, <1>2 DEF Begin
<1>3. (Tidy(db) /\ Filled(db, clock))'
  BY <1>1 DEF SessionInv, Tidy, Filled
<1>4. ASSUME NEW u \in open'
      PROVE  (/\ clock - txn[u].since <= MaxSpan
              /\ Filled(txn[u].base, txn[u].since)
              /\ Grown(txn[u].base, txn[u].view, txn[u].since)
              /\ Fresh(txn[u].base, db, txn[u].since - MaxSpan))'
  <2>1. PICK b, v, z : b = txn'[u].base /\ v = txn'[u].view /\ z = txn'[u].since
    OBVIOUS
  <2>2. clock - z <= MaxSpan /\ Filled(b, z) /\ Grown(b, v, z) /\ Fresh(b, db, z - MaxSpan)
    <3>1. CASE u = t
      <4>1. b = db /\ v = db /\ z = clock
        BY <1>2, <2>1, <3>1
      <4>2. clock - z <= MaxSpan
        BY <4>1, Numbers
      <4>3. Fresh(b, v, z) /\ Accounts(b, v, z) /\ Fresh(b, db, z - MaxSpan)
        BY <4>1 DEF Fresh, Accounts
      <4> QED BY <4>1, <4>2, <4>3 DEF SessionInv, Grown
    <3>2. CASE u # t
      <4>1. u \in open /\ b = txn[u].base /\ v = txn[u].view /\ z = txn[u].since
        BY <1>1, <1>2, <2>1, <3>2
      <4> QED BY <4>1 DEF SessionInv
    <3> QED BY <3>1, <3>2
  <2> QED BY <1>1, <2>1, <2>2 DEF Grown, Tidy, Filled, Fresh, Accounts
<1> QED BY <1>3, <1>4 DEF SessionInv

\* A slice later there is no more in the buckets, and finalization is no nearer.
LEMMA TidyLater ==
    ASSUME TInv, clock' = clock + 1, NEW c, Tidy(c), Filled(c, clock), c.fin \in Int
    PROVE  (Tidy(c) /\ Filled(c, clock))'
<1>1. clock \in Nat /\ TimeoutSlices \in Nat /\ Slices \subseteq Nat
  BY Numbers
<1>2. (c.fin >= 0 => c.fin <= MaxExpired(clock))'
  BY <1>1 DEF Tidy, MaxExpired
<1>3. Filled(c, clock)'
  BY <1>1 DEF Filled
<1> QED BY <1>2, <1>3 DEF Tidy

LEMMA TickSession ==
    ASSUME TInv, BucketInv, SessionInv, Tick
    PROVE  SessionInv'
<1>1. /\ clock' = clock + 1 /\ db' = db /\ txn' = txn /\ open' = open
      /\ \A t \in open : clock + 1 - txn[t].since <= MaxSpan
  BY DEF Tick, open
<1>2. (Tidy(db) /\ Filled(db, clock))'
  <2>1. PICK d : d = db
    OBVIOUS
  <2>2. (Tidy(d) /\ Filled(d, clock))'
    BY <1>1, <2>1, SoundFields, TidyLater DEF SessionInv, BucketInv
  <2> QED BY <1>1, <2>1, <2>2 DEF Tidy, Filled
<1>3. ASSUME NEW u \in open'
      PROVE  (/\ clock - txn[u].since <= MaxSpan
              /\ Filled(txn[u].base, txn[u].since)
              /\ Grown(txn[u].base, txn[u].view, txn[u].since)
              /\ Fresh(txn[u].base, db, txn[u].since - MaxSpan))'
  <2>1. PICK b, v, z : b = txn[u].base /\ v = txn[u].view /\ z = txn[u].since
    OBVIOUS
  <2>2. /\ u \in open /\ Sound(v) /\ Grown(b, v, z) /\ Filled(b, z)
        /\ Fresh(b, db, z - MaxSpan) /\ clock + 1 - z <= MaxSpan
    BY <1>1, <2>1 DEF BucketInv, SessionInv, Made
  <2>3. (Tidy(v) /\ Filled(v, clock))'
    BY <1>1, <2>2, SoundFields, TidyLater DEF Grown
  <2>4. Fresh(b, v, z)' /\ Accounts(b, v, z)' /\ Filled(b, z)'
    BY <2>2 DEF Grown, Fresh, Accounts, Filled
  <2>5. Grown(b, v, z)'
    BY <2>3, <2>4 DEF Grown
  <2>6. Fresh(b, db, z - MaxSpan)'
    BY <1>1, <2>2 DEF Fresh
  <2>7. (clock - z <= MaxSpan)'
    <3>1. z \in StartTime .. clock /\ StartTime \in Nat /\ clock \in Nat /\ MaxSpan \in Nat
      BY <1>1, <2>1, <2>2, Numbers, ContainerAssumption DEF TInv, Transactions
    <3>2. z \in Int
      BY <3>1
    <3> QED BY <1>1, <2>2, <3>1, <3>2
  <2> QED BY <1>1, <2>1, <2>4, <2>5, <2>6, <2>7
<1> QED BY <1>2, <1>3 DEF SessionInv

LEMMA StutteringSession ==
    ASSUME SessionInv, UNCHANGED vars
    PROVE  SessionInv'
<1>1. clock' = clock /\ db' = db /\ txn' = txn /\ open' = open
  BY DEF vars, open
<1> QED BY <1>1 DEF SessionInv, Grown, Tidy, Filled, Fresh, Accounts

SInv == TInv /\ BucketInv /\ SessionInv

LEMMA SessionsHold == Spec => []SInv
<1>1. Init /\ TInv /\ BucketInv => SessionInv
  BY InitSession
<1>2. SInv /\ [Next]_vars => SessionInv'
  <2> SUFFICES ASSUME TInv, BucketInv, SessionInv, [Next]_vars PROVE SessionInv'
    BY DEF SInv
  <2>1. CASE Tick
    BY <2>1, TickSession
  <2>2. ASSUME NEW t \in Threads, Begin(t) PROVE SessionInv'
    BY <2>2, BeginSession
  <2>3. ASSUME NEW t \in Threads, Commit(t) \/ Abort(t) PROVE SessionInv'
    BY <2>3, EndSession
  <2>4. ASSUME NEW t \in Threads,
               \/ Housekeep(t)
               \/ \E k \in Keys : Get(t, k) \/ NewOrExisting(t, k) \/ Delete(t, k)
        PROVE  SessionInv'
    BY <2>4, OperationsSession
  <2>5. CASE UNCHANGED vars
    BY <2>5, StutteringSession
  <2> QED BY <2>1, <2>2, <2>3, <2>4, <2>5 DEF Next
<1>3. SInv <=> TInv /\ BucketInv /\ SessionInv
  BY DEF SInv
<1> QED BY <1>1, <1>2, <1>3, InvariantHolds, PTL DEF Spec

\* No session is lost silently, whatever transactions are open at the same time,
\* however their commits are merged, and whenever which of them finalizes and
\* collects buckets: what leaves the container was passed to notifyDel or deleted.
THEOREM NothingIsLost == Spec => NothingVanishes
<1> DEFINE Stays == ItemsIn(db, DOMAIN db.data)
                       \subseteq ItemsIn(db', DOMAIN db'.data) \cup db'.told \cup db'.removed
<1>1. SInv /\ SInv' /\ [Next]_vars => [Stays]_vars
  <2> SUFFICES ASSUME SInv, SInv', Next PROVE Stays
    OBVIOUS
  <2>1. TInv /\ BucketInv /\ SessionInv /\ TInv' /\ BucketInv'
    BY DEF SInv
  <2>2. CASE db' = db
    BY <2>2
  <2>3. ASSUME NEW t \in Threads, Commit(t) PROVE Stays
    <3> DEFINE m == Merged(txn[t].base, db, txn[t].view)
    <3>1. t \in open /\ ~Conflict(t) /\ db' = m /\ clock' = clock
      BY <2>3 DEF Commit, End
    <3>2. Mergeable(txn[t].base, db, txn[t].view, txn[t].since)
      BY <2>1, <3>1, CommitIsMergeable
    <3>3. Sound(db) /\ Sound(m)
      <4>1. Sound(db)'
        BY <2>1 DEF BucketInv
      <4> HIDE DEF m
      <4> QED BY <2>1, <3>1, <4>1 DEF BucketInv, Sound
    <3>4. ASSUME NEW i \in ItemsIn(db, DOMAIN db.data)
          PROVE  i \in ItemsIn(m, DOMAIN m.data) \cup m.told \cup m.removed
      <4>1. PICK s \in Slices, k \in Keys : At(db, s, k, i)
        BY <2>1, <3>3, ItemsAt
      <4>2. i \in Items
        BY <2>1, <3>3, ItemsAt
      <4>3. \/ i \in m.told \cup m.removed
            \/ \E r \in Slices : At(m, r, k, i)
        BY <2>1, <3>2, <4>1, <4>2, MergedKeeps
      <4> HIDE DEF m
      <4>4. CASE \E r \in Slices : At(m, r, k, i)
        <5>1. PICK r \in Slices : At(m, r, k, i)
          BY <4>4
        <5>2. r \in DOMAIN m.data
          BY <5>1 DEF At
        <5>3. i \in ItemsIn(m, DOMAIN m.data)
          BY <2>1, <3>3, <4>2, <5>1, <5>2, ItemsAt
        <5> QED BY <5>3
      <4> QED BY <4>3, <4>4
    <3> HIDE DEF m
    <3> QED BY <3>1, <3>4
  <2>4. db' = db \/ \E t \in Threads : Commit(t)
    <3>1. CASE Tick
      BY <3>1 DEF Tick
    <3>2. ASSUME NEW t \in Threads,
                 \/ Begin(t) \/ Abort(t) \/ Housekeep(t)
                 \/ \E k \in Keys : Get(t, k) \/ NewOrExisting(t, k) \/ Delete(t, k)
          PROVE  db' = db
      BY <3>2 DEF Begin, Abort, Housekeep, Get, NewOrExisting, Delete, Operate
    <3> QED BY <3>1, <3>2 DEF Next
  <2> QED BY <2>2, <2>3, <2>4
<1> QED BY <1>1, SessionsHold, PTL DEF Spec, NothingVanishes

-----------------------------------------------------------------------------
(* While no transaction lasts longer than its slice *)

\* The buckets of slice s are still searched.
Searched(s) == s >= clock - TimeoutSlices

InUse(c, i) ==
    \/ i \in c.told \cup c.removed
    \/ \E s \in Slices, k \in Keys : At(c, s, k, i)

\* A key has one object at most that can be found.
OneFound(c) ==
    \A r, s \in Slices, k \in Keys, i, j \in Items :
        At(c, r, k, i) /\ At(c, s, k, j) /\ Searched(r) /\ Searched(s) => r = s

\* An object has one place at most.
OnePlace(c) ==
    \A r, s \in Slices, k, l \in Keys, i \in Items :
        At(c, r, k, i) /\ At(c, s, l, i) => r = s /\ k = l

\* What was passed to notifyDel cannot be found.
Gone(c) ==
    \A s \in Slices, k \in Keys, i \in Items : At(c, s, k, i) /\ Searched(s) => i \notin c.told

\* The entries that are searched, those that finalization has yet to count, and both.
Recent(c) == Entries(c, clock - TimeoutSlices .. clock)
Expired(c) == Entries(c, c.fin + 1 .. MaxExpired(clock))
Live(c) == Entries(c, c.fin + 1 .. clock)

Exact(c) == Length(c) = Cardinality(Live(c))

Quiet(c) == OneFound(c) /\ OnePlace(c) /\ Gone(c) /\ Exact(c)

\* What c may be when it was made from b in the present slice: buckets that are
\* no longer searched are as they were, or passed by finalization; an object that
\* has a new place is new, or was found; one that was passed to notifyDel was in a
\* bucket that is no longer searched.
Steady(b, c) ==
    \A s \in Slices, k \in Keys, i \in Items :
        ~Searched(s) /\ At(b, s, k, i) => At(c, s, k, i) \/ (s <= c.fin /\ i \in c.told)

Found(b, i) == \E r \in Slices, l \in Keys : Searched(r) /\ At(b, r, l, i)

Moves(b, c) ==
    \A s \in Slices, k \in Keys, i \in Items :
        At(c, s, k, i) /\ ~At(b, s, k, i) => ~InUse(b, i) \/ Found(b, i)

Tells(b, c) ==
    \A i \in c.told : i \in b.told \/ \E s \in Slices, k \in Keys : ~Searched(s) /\ At(b, s, k, i)

Counts(b, c) ==
    \/ c.fin = b.fin /\ c.floor = b.floor
    \/ c.fin = MaxExpired(clock) /\ c.floor = b.floor + Cardinality(Expired(b))

Uses(b, c) == b.told \subseteq c.told /\ \A i \in Items : InUse(b, i) => InUse(c, i)

Heir(b, c) ==
    /\ Fresh(b, c, clock) /\ Steady(b, c) /\ Moves(b, c)
    /\ Tells(b, c) /\ Counts(b, c) /\ Uses(b, c)

Still(b, c) == Grown(b, c, clock) /\ Quiet(c) /\ Heir(b, c)

\* The objects that a transaction has made are its own.
Apart(b, v, c) == \A i \in Items : InUse(v, i) /\ ~InUse(b, i) => ~InUse(c, i)

QuietInv ==
    ~spanned =>
        /\ Quiet(db)
        /\ \A t \in open :
             /\ txn[t].since = clock
             /\ Tidy(txn[t].base) /\ Quiet(txn[t].base) /\ Quiet(txn[t].view)
             /\ Heir(txn[t].base, txn[t].view) /\ Heir(txn[t].base, db)
             /\ Apart(txn[t].base, txn[t].view, db)
             /\ \A u \in open \ {t} : Apart(txn[t].base, txn[t].view, txn[u].view)

-----------------------------------------------------------------------------
(* The entries *)

LEMMA EntriesAt ==
    ASSUME TInv, NEW c, Sound(c), NEW S, NEW e
    PROVE  e \in Entries(c, S) <=>
               /\ e \in Slices \X Keys /\ e[1] \in S
               /\ \E i \in Items : At(c, e[1], e[2], i)
<1>1. /\ NoItem \notin Items /\ DOMAIN c.data \subseteq Slices
      /\ \A s \in DOMAIN c.data, k \in Keys : c.data[s][k] \in Items \cup {NoItem}
  BY Numbers, SoundFields
<1>2. ASSUME e \in Entries(c, S)
      PROVE  /\ e \in Slices \X Keys /\ e[1] \in S
             /\ \E i \in Items : At(c, e[1], e[2], i)
  <2>1. e \in (DOMAIN c.data \cap S) \X Keys /\ c.data[e[1]][e[2]] # NoItem
    BY <1>2 DEF Entries
  <2>2. e[1] \in DOMAIN c.data /\ e[1] \in S /\ e[2] \in Keys /\ e = <<e[1], e[2]>>
    BY <2>1
  <2>3. c.data[e[1]][e[2]] \in Items
    BY <1>1, <2>1, <2>2
  <2>4. At(c, e[1], e[2], c.data[e[1]][e[2]])
    BY <2>2 DEF At
  <2>5. e \in Slices \X Keys
    BY <1>1, <2>2
  <2> QED BY <2>2, <2>3, <2>4, <2>5
<1>3. ASSUME e \in Slices \X Keys, e[1] \in S, NEW i \in Items, At(c, e[1], e[2], i)
      PROVE  e \in Entries(c, S)
  <2>1. e = <<e[1], e[2]>> /\ e[2] \in Keys
    BY <1>3
  <2>2. e[1] \in DOMAIN c.data /\ c.data[e[1]][e[2]] # NoItem
    BY <1>1, <1>3 DEF At
  <2>3. e \in (DOMAIN c.data \cap S) \X Keys
    BY <1>3, <2>1, <2>2
  <2> QED BY <2>2, <2>3 DEF Entries
<1> QED BY <1>2, <1>3

\* Containers with the same places in S have the same entries there.
LEMMA SameEntries ==
    ASSUME TInv, NEW b, NEW c, Sound(b), Sound(c), NEW S, NEW R,
           \A s \in Slices, k \in Keys, i \in Items :
              s \in S /\ At(b, s, k, i) <=> s \in R /\ At(c, s, k, i)
    PROVE  Entries(b, S) = Entries(c, R)
<1>1. ASSUME NEW e PROVE e \in Entries(b, S) <=> e \in Entries(c, R)
  <2>1. e \in Slices \X Keys => e[1] \in Slices /\ e[2] \in Keys
    OBVIOUS
  <2>2. /\ e \in Entries(b, S) <=> /\ e \in Slices \X Keys /\ e[1] \in S
                                   /\ \E i \in Items : At(b, e[1], e[2], i)
        /\ e \in Entries(c, R) <=> /\ e \in Slices \X Keys /\ e[1] \in R
                                   /\ \E i \in Items : At(c, e[1], e[2], i)
    BY EntriesAt
  <2> QED BY <2>1, <2>2
<1> QED BY <1>1

\* Finalization is behind all that is searched.
LEMMA SearchedIsAhead ==
    ASSUME TInv, NEW c, Sound(c), Tidy(c), NEW s \in Slices
    PROVE  /\ Searched(s) => s > c.fin /\ s > MaxExpired(clock)
           /\ ~Searched(s) <=> s <= MaxExpired(clock)
<1>1. /\ clock \in Nat /\ TimeoutSlices \in Nat /\ MaxExpired(clock) = clock - TimeoutSlices - 1
      /\ Slices \subseteq Nat /\ c.fin \in Int
  BY Numbers, SoundFields
<1>2. s \in Nat /\ (c.fin >= 0 => c.fin <= MaxExpired(clock))
  BY <1>1 DEF Tidy
<1> QED BY <1>1, <1>2 DEF Searched

\* The live entries are those that are searched, and those to be finalized.
LEMMA LiveCount ==
    ASSUME TInv, NEW c, Sound(c), Tidy(c)
    PROVE  /\ Cardinality(Live(c)) = Cardinality(Recent(c)) + Cardinality(Expired(c))
           /\ Cardinality(Live(c)) \in Nat
           /\ Cardinality(Recent(c)) \in Nat /\ Cardinality(Expired(c)) \in Nat
           /\ IsFiniteSet(Recent(c))
<1>1. /\ IsFiniteSet(Recent(c)) /\ IsFiniteSet(Expired(c)) /\ IsFiniteSet(Live(c))
      /\ Cardinality(Recent(c)) \in Nat /\ Cardinality(Expired(c)) \in Nat
      /\ Cardinality(Live(c)) \in Nat
  BY EntriesAreFinite DEF Recent, Expired, Live
<1>2. /\ clock \in Nat /\ TimeoutSlices \in Nat /\ MaxExpired(clock) = clock - TimeoutSlices - 1
      /\ Slices \subseteq Nat /\ c.fin \in Int
  BY Numbers, SoundFields
<1>3. Live(c) = Recent(c) \cup Expired(c)
  <2>1. ASSUME NEW e \in Slices \X Keys
        PROVE  e[1] \in c.fin + 1 .. clock <=>
                  \/ e[1] \in clock - TimeoutSlices .. clock
                  \/ e[1] \in c.fin + 1 .. MaxExpired(clock)
    <3>1. e[1] \in Slices /\ e[1] \in Nat
      BY <1>2
    <3>2. c.fin >= 0 => c.fin <= MaxExpired(clock)
      BY DEF Tidy
    <3> QED BY <1>2, <3>1, <3>2
  <2>2. ASSUME NEW e PROVE e \in Live(c) <=> e \in Recent(c) \cup Expired(c)
    BY <2>1, EntriesAt DEF Live, Recent, Expired
  <2> QED BY <2>2
<1>4. Recent(c) \cap Expired(c) = {}
  <2>1. ASSUME NEW e \in Recent(c), e \in Expired(c) PROVE FALSE
    <3>1. e[1] \in clock - TimeoutSlices .. clock /\ e[1] \in c.fin + 1 .. MaxExpired(clock)
      BY <2>1, EntriesAt DEF Recent, Expired
    <3> QED BY <1>2, <3>1
  <2> QED BY <2>1
<1>5. Cardinality(Recent(c) \cup Expired(c)) = Cardinality(Recent(c)) + Cardinality(Expired(c))
  <2>1. Cardinality(Recent(c) \cap Expired(c)) = 0
    BY <1>4, FS_EmptySet
  <2>2. Cardinality(Recent(c) \cup Expired(c)) =
           Cardinality(Recent(c)) + Cardinality(Expired(c)) - Cardinality(Recent(c) \cap Expired(c))
    BY <1>1, FS_Union
  <2> QED BY <1>1, <2>1, <2>2
<1> QED BY <1>1, <1>3, <1>5

\* Until finalization goes on, what it has to count stays the same.
LEMMA ExpiredSame ==
    ASSUME TInv, NEW b, NEW c, Sound(b), Sound(c), Tidy(c), Heir(b, c), b.fin = c.fin
    PROVE  Expired(b) = Expired(c)
<1>1. /\ clock \in Nat /\ TimeoutSlices \in Nat /\ TimeoutSlices >= 1
      /\ MaxExpired(clock) = clock - TimeoutSlices - 1
      /\ Slices \subseteq Nat /\ c.fin \in Int
  BY Numbers, SoundFields
<1> DEFINE S == c.fin + 1 .. MaxExpired(clock)
<1>2. ASSUME NEW s \in Slices, NEW k \in Keys, NEW i \in Items, s \in S
      PROVE  At(b, s, k, i) <=> At(c, s, k, i)
  <2>1. s \in Nat /\ ~(s <= c.fin) /\ ~(s >= clock) /\ ~Searched(s)
    BY <1>1, <1>2 DEF Searched
  <2>2. At(b, s, k, i) => At(c, s, k, i)
    BY <2>1 DEF Heir, Steady
  <2>3. At(c, s, k, i) => At(b, s, k, i)
    BY <2>1 DEF Heir, Fresh
  <2> QED BY <2>2, <2>3
<1> HIDE DEF S
<1>3. Entries(b, S) = Entries(c, S)
  BY <1>2, SameEntries
<1> QED BY <1>3 DEF Expired, S

\* Nothing is to be counted when finalization has gone as far as it may.
LEMMA NoneExpired ==
    ASSUME TInv, NEW c, Sound(c), c.fin = MaxExpired(clock)
    PROVE  Expired(c) = {} /\ Cardinality(Expired(c)) = 0
<1>1. ASSUME NEW e \in Expired(c) PROVE FALSE
  <2>1. e[1] \in c.fin + 1 .. MaxExpired(clock) /\ c.fin \in Int
    BY EntriesAt, SoundFields DEF Expired
  <2> QED BY <2>1
<1>2. Expired(c) = {}
  BY <1>1
<1> QED BY <1>2, FS_EmptySet

-----------------------------------------------------------------------------
(* The steps, in the slice in which the transaction began *)

LEMMA FinalizedStill ==
    ASSUME TInv, NEW b, NEW c, Sound(b), Sound(c), Follows(b, c), Still(b, c)
    PROVE  /\ Still(b, Finalized(c, clock))
           /\ \A i \in Items : InUse(Finalized(c, clock), i) => InUse(c, i)
<1> DEFINE f == Finalized(c, clock)
           S == c.fin + 1 .. MaxExpired(clock)
<1>1. \/ f = c
      \/ /\ f.data = c.data /\ f.max = c.max /\ f.removed = c.removed
         /\ f.ceiling = c.ceiling /\ f.fin = MaxExpired(clock) /\ c.fin < f.fin
         /\ f.told = c.told \cup ItemsIn(c, S)
         /\ f.floor = c.floor + Cardinality(Entries(c, S))
  BY FinalizedAt
<1>2. Sound(f) /\ Grown(b, f, clock)
  BY FinalizedSound, FinalizedGrown DEF Still
<1>3. CASE f = c
  BY <1>3
<1> HIDE DEF f
<1>4. CASE /\ f.data = c.data /\ f.max = c.max /\ f.removed = c.removed
           /\ f.ceiling = c.ceiling /\ f.fin = MaxExpired(clock) /\ c.fin < f.fin
           /\ f.told = c.told \cup ItemsIn(c, S)
           /\ f.floor = c.floor + Cardinality(Entries(c, S))
  <2>1. \A s \in Slices, k \in Keys, i \in Items : At(f, s, k, i) <=> At(c, s, k, i)
    BY <1>4 DEF At
  <2>2. /\ c.told \subseteq f.told /\ c.fin \in Int /\ c.floor \in Int /\ c.ceiling \in Int
        /\ Slices \subseteq Nat /\ clock \in Nat /\ TimeoutSlices \in Nat /\ TimeoutSlices >= 1
        /\ MaxExpired(clock) = clock - TimeoutSlices - 1 /\ f.told \subseteq Items
    BY <1>2, <1>4, SoundFields, Numbers
  <2>3. ASSUME NEW i \in f.told, i \notin c.told
        PROVE  /\ i \in Items
               /\ \E s \in Slices, k \in Keys : ~Searched(s) /\ At(c, s, k, i)
    <3>1. i \in ItemsIn(c, S)
      BY <1>4, <2>3
    <3>2. PICK s \in Slices, k \in Keys : s \in S /\ At(c, s, k, i)
      BY <3>1, ItemsAt
    <3>3. ~Searched(s)
      BY <2>2, <3>2 DEF Searched
    <3> QED BY <2>2, <3>2, <3>3
  <2>4. OneFound(f) /\ OnePlace(f)
    BY <2>1 DEF Still, Quiet, OneFound, OnePlace
  <2>5. Gone(f)
    <3> SUFFICES ASSUME NEW s \in Slices, NEW k \in Keys, NEW i \in Items,
                        At(f, s, k, i), Searched(s), i \in f.told
                 PROVE  FALSE
      BY DEF Gone
    <3>1. At(c, s, k, i)
      BY <2>1
    <3>2. i \notin c.told
      BY <3>1 DEF Still, Quiet, Gone
    <3>3. PICK x \in Slices, l \in Keys : ~Searched(x) /\ At(c, x, l, i)
      BY <2>3, <3>2
    <3>4. x = s
      BY <3>1, <3>3 DEF Still, Quiet, OnePlace
    <3> QED BY <3>3, <3>4
  <2>6. Exact(f)
    <3>1. Recent(f) = Recent(c)
      BY <1>2, <2>1, SameEntries DEF Recent
    <3>2. Cardinality(Expired(f)) = 0
      BY <1>2, <1>4, NoneExpired
    <3>3. Tidy(f) /\ Tidy(c)
      BY <1>2 DEF Grown, Still
    <3>4. /\ Cardinality(Live(f)) = Cardinality(Recent(f)) + Cardinality(Expired(f))
          /\ Cardinality(Live(c)) = Cardinality(Recent(c)) + Cardinality(Expired(c))
          /\ Cardinality(Recent(c)) \in Nat /\ Cardinality(Expired(c)) \in Nat
      BY <1>2, <3>3, LiveCount
    <3>5. c.ceiling - c.floor = Cardinality(Live(c))
      BY DEF Still, Quiet, Exact, Length
    <3>6. f.floor = c.floor + Cardinality(Expired(c)) /\ f.ceiling = c.ceiling
      BY <1>4 DEF Expired
    <3>7. f.ceiling - f.floor = Cardinality(Live(f))
      BY <2>2, <3>1, <3>2, <3>4, <3>5, <3>6
    <3> QED BY <3>7 DEF Exact, Length
  <2>7. Fresh(b, f, clock) /\ Moves(b, f)
    BY <2>1 DEF Still, Heir, Fresh, Moves
  <2>8. Steady(b, f)
    <3> SUFFICES ASSUME NEW s \in Slices, NEW k \in Keys, NEW i \in Items,
                        ~Searched(s), At(b, s, k, i)
                 PROVE  At(f, s, k, i) \/ (s <= f.fin /\ i \in f.told)
      BY DEF Steady
    <3>1. At(c, s, k, i) \/ (s <= c.fin /\ i \in c.told)
      BY DEF Still, Heir, Steady
    <3>2. s <= c.fin => s <= f.fin
      BY <1>4, <2>2
    <3> QED BY <2>1, <2>2, <3>1, <3>2
  <2>9. Tells(b, f)
    <3> SUFFICES ASSUME NEW i \in f.told, i \notin b.told
                 PROVE  \E s \in Slices, k \in Keys : ~Searched(s) /\ At(b, s, k, i)
      BY DEF Tells
    <3>1. CASE i \in c.told
      BY <3>1 DEF Still, Heir, Tells
    <3>2. CASE i \notin c.told
      <4>1. PICK s \in Slices, k \in Keys : ~Searched(s) /\ At(c, s, k, i) /\ i \in Items
        BY <2>3, <3>2
      <4>2. ~(s >= clock)
        BY <2>2, <4>1 DEF Searched
      <4>3. At(b, s, k, i)
        BY <4>1, <4>2 DEF Still, Heir, Fresh
      <4> QED BY <4>1, <4>3
    <3> QED BY <3>1, <3>2
  <2>10. Counts(b, f)
    <3>1. CASE c.fin = b.fin /\ c.floor = b.floor
      <4>1. Expired(b) = Expired(c)
        BY <3>1, ExpiredSame DEF Still, Grown
      <4> QED BY <1>4, <3>1, <4>1 DEF Counts, Expired
    <3>2. CASE c.fin = MaxExpired(clock)
      BY <1>4, <2>2, <3>2
    <3> QED BY <3>1, <3>2 DEF Still, Heir, Counts
  <2>11. \A i \in Items : InUse(f, i) <=> InUse(c, i)
    <3> SUFFICES ASSUME NEW i \in Items PROVE InUse(f, i) <=> InUse(c, i)
      OBVIOUS
    <3>1. i \in f.told => i \in c.told \/ \E s \in Slices, k \in Keys : At(c, s, k, i)
      BY <2>3
    <3> QED BY <1>4, <2>1, <2>2, <3>1 DEF InUse
  <2>12. Uses(b, f)
    BY <2>2, <2>11 DEF Still, Heir, Uses
  <2> QED BY <1>2, <2>4, <2>5, <2>6, <2>7, <2>8, <2>9, <2>10, <2>11, <2>12
          DEF Still, Quiet, Heir, f
<1> QED BY <1>1, <1>3, <1>4

\* A container with the same fields, and the same places but where finalization
\* has passed.
LEMMA SameStill ==
    ASSUME TInv, NEW b, NEW c, NEW d, Sound(c), Sound(d), Still(b, c), Grown(b, d, clock),
           d.fin = c.fin, d.ceiling = c.ceiling, d.floor = c.floor,
           d.told = c.told, d.removed = c.removed,
           \A s \in Slices, k \in Keys, i \in Items :
              /\ At(d, s, k, i) => At(c, s, k, i)
              /\ At(c, s, k, i) /\ s > c.fin => At(d, s, k, i)
    PROVE  /\ Still(b, d)
           /\ \A i \in Items : InUse(d, i) => InUse(c, i)
<1>1. /\ Slices \subseteq Nat /\ c.fin \in Int /\ Tidy(c) /\ clock \in Nat
  BY Numbers, SoundFields DEF Still, Grown
<1>2. \A s \in Slices, k \in Keys, i \in Items : At(d, s, k, i) => At(c, s, k, i)
  OBVIOUS
<1>3. OneFound(d) /\ OnePlace(d)
  BY <1>2 DEF Still, Quiet, OneFound, OnePlace
<1>4. Gone(d)
  BY <1>2 DEF Still, Quiet, Gone
<1>5. Exact(d)
  <2> DEFINE S == c.fin + 1 .. clock
  <2>1. ASSUME NEW s \in Slices, NEW k \in Keys, NEW i \in Items
        PROVE  s \in S /\ At(c, s, k, i) <=> s \in S /\ At(d, s, k, i)
    <3>1. s \in S => s > c.fin
      BY <1>1
    <3> QED BY <1>2, <3>1
  <2> HIDE DEF S
  <2>2. Entries(c, S) = Entries(d, S)
    BY <2>1, SameEntries
  <2>3. Live(c) = Live(d)
    BY <2>2 DEF Live, S
  <2> QED BY <2>3 DEF Still, Quiet, Exact, Length
<1>6. Fresh(b, d, clock) /\ Moves(b, d)
  BY <1>2 DEF Still, Heir, Fresh, Moves
<1>7. ASSUME NEW s \in Slices, NEW k \in Keys, NEW i \in Items, At(c, s, k, i)
      PROVE  At(d, s, k, i) \/ (s <= d.fin /\ i \in d.told)
  <2>1. CASE s > c.fin
    BY <1>7, <2>1
  <2>2. CASE ~(s > c.fin)
    <3>1. s <= c.fin
      BY <1>1, <2>2
    <3> QED BY <1>1, <1>7, <3>1 DEF Tidy
  <2> QED BY <2>1, <2>2
<1>8. Steady(b, d)
  <2> SUFFICES ASSUME NEW s \in Slices, NEW k \in Keys, NEW i \in Items,
                      ~Searched(s), At(b, s, k, i)
               PROVE  At(d, s, k, i) \/ (s <= d.fin /\ i \in d.told)
    BY DEF Steady
  <2>1. At(c, s, k, i) \/ (s <= c.fin /\ i \in c.told)
    BY DEF Still, Heir, Steady
  <2> QED BY <1>7, <2>1
<1>9. Tells(b, d) /\ Counts(b, d)
  BY DEF Still, Heir, Tells, Counts
<1>10. \A i \in Items : InUse(d, i) <=> InUse(c, i)
  BY <1>2, <1>7 DEF InUse
<1>11. Uses(b, d)
  BY <1>10 DEF Still, Heir, Uses
<1> QED BY <1>3, <1>4, <1>5, <1>6, <1>8, <1>9, <1>10, <1>11 DEF Still, Quiet, Heir

LEMMA HousekeptStill ==
    ASSUME TInv, NEW t, NEW b, NEW c, Sound(b), Made(b, c), Still(b, c),
           NEW d \in Housekept(t, c)
    PROVE  /\ Still(b, d)
           /\ \A i \in Items : InUse(d, i) => InUse(c, i)
<1>1. PICK f \in Finalizes(t, c) : \E r \in Replentishes(t, f) : d \in Collects(r)
  BY DEF Housekept
<1>. PICK r \in Replentishes(t, f) : d \in Collects(r)
  BY <1>1
<1>2. /\ Sound(f) /\ Follows(b, f) /\ Still(b, f)
      /\ \A i \in Items : InUse(f, i) => InUse(c, i)
  <2>1. CASE f = c
    BY <2>1 DEF Made
  <2>2. CASE f = Finalized(c, clock)
    BY <2>2, FinalizedSound, FinalizedStill DEF Made
  <2> QED BY <1>1, <2>1, <2>2 DEF Finalizes
<1>3. /\ Sound(r) /\ Still(b, r)
      /\ \A i \in Items : InUse(r, i) => InUse(f, i)
  <2>1. CASE r = f
    BY <1>2, <2>1
  <2>2. CASE r = Replentished(f, clock)
    <3>1. Sound(r) /\ Grown(b, r, clock)
      BY <1>2, <2>2, ReplentishedSound, ReplentishedGrown DEF Still
    <3>2. /\ r.fin = f.fin /\ r.ceiling = f.ceiling /\ r.floor = f.floor
          /\ r.told = f.told /\ r.removed = f.removed
          /\ \A s \in Slices, k \in Keys, i \in Items : At(r, s, k, i) <=> At(f, s, k, i)
      BY <1>2, <2>2, ReplentishedAt DEF Still, Grown, Tidy
    <3> QED BY <1>2, <3>1, <3>2, SameStill
  <2> QED BY <1>1, <2>1, <2>2 DEF Replentishes
<1>4. CASE d = r
  BY <1>2, <1>3, <1>4
<1>5. CASE d = Collected(r, clock)
  <2>1. /\ d.fin = r.fin /\ d.max = r.max /\ d.ceiling = r.ceiling /\ d.floor = r.floor
        /\ d.told = r.told /\ d.removed = r.removed
        /\ \A s \in Slices, k \in Keys, i \in Items : At(d, s, k, i) <=> At(r, s, k, i) /\ s > r.fin
    BY <1>3, <1>5, CollectedAt
  <2>2. Grown(b, d, clock)
    BY <1>3, <1>5, CollectedGrown DEF Still
  <2>3. Sound(d)
    BY HousekeptMade DEF Made
  <2>4. Still(b, d) /\ \A i \in Items : InUse(d, i) => InUse(r, i)
    BY <1>3, <2>1, <2>2, <2>3, SameStill
  <2> QED BY <1>2, <1>3, <2>4
<1> QED BY <1>1, <1>4, <1>5 DEF Collects

LEMMA PreparedStill ==
    ASSUME TInv, NEW t, NEW b, NEW c, Sound(b), Made(b, c), Still(b, c),
           NEW d \in Prepared(t, c)
    PROVE  /\ Still(b, d)
           /\ \A i \in Items : InUse(d, i) => InUse(c, i)
<1>1. CASE inband
  BY <1>1, HousekeptStill DEF Prepared
<1>2. CASE ~inband /\ d = c
  BY <1>2
<1>3. CASE ~inband /\ d = Replentished(c, clock)
  <2>1. Sound(c) /\ Sound(d) /\ Grown(b, d, clock)
    BY <1>3, ReplentishedSound, ReplentishedGrown DEF Made, Still
  <2>2. /\ d.fin = c.fin /\ d.ceiling = c.ceiling /\ d.floor = c.floor
        /\ d.told = c.told /\ d.removed = c.removed
        /\ \A s \in Slices, k \in Keys, i \in Items : At(d, s, k, i) <=> At(c, s, k, i)
    BY <1>3, <2>1, ReplentishedAt DEF Still, Grown, Tidy
  <2> QED BY <2>1, <2>2, SameStill
<1> QED BY <1>1, <1>2, <1>3 DEF Prepared

LEMMA PreparedTwiceStill ==
    ASSUME TInv, NEW t, NEW b, Sound(b), Made(b, txn[t].view), Still(b, txn[t].view),
           NEW d \in PreparedTwice(t)
    PROVE  /\ Still(b, d)
           /\ \A i \in Items : InUse(d, i) => InUse(txn[t].view, i)
<1>1. PICK c \in Prepared(t, txn[t].view) : d \in Prepared(t, c)
  BY DEF PreparedTwice
<1>2. Made(b, c) /\ Still(b, c) /\ \A i \in Items : InUse(c, i) => InUse(txn[t].view, i)
  BY <1>1, PreparedMade, PreparedStill
<1>3. Still(b, d) /\ \A i \in Items : InUse(d, i) => InUse(c, i)
  BY <1>1, <1>2, PreparedStill
<1> QED BY <1>2, <1>3

\* From c to d an entry goes, or one comes in the bucket of the present.
Lacks(c, d, s, k) ==
    \A x \in Slices, l \in Keys, j \in Items :
        At(d, x, l, j) <=> At(c, x, l, j) /\ ~(x = s /\ l = k)

Gains(c, d, k, i) ==
    \A x \in Slices, l \in Keys, j \in Items :
        At(d, x, l, j) <=> At(c, x, l, j) \/ (x = clock /\ l = k /\ j = i)

LEMMA RecentWithout ==
    ASSUME TInv, NEW c, NEW d, Sound(c), Sound(d), NEW s \in Slices, NEW k \in Keys,
           NEW i \in Items, At(c, s, k, i), s \in clock - TimeoutSlices .. clock,
           Lacks(c, d, s, k)
    PROVE  Recent(d) = Recent(c) \ {<<s, k>>} /\ <<s, k>> \in Recent(c)
<1> DEFINE S == clock - TimeoutSlices .. clock
<1>1. ASSUME NEW e PROVE e \in Recent(d) <=> e \in Recent(c) /\ e # <<s, k>>
  <2>1. e \in Slices \X Keys => e[1] \in Slices /\ e[2] \in Keys /\ e = <<e[1], e[2]>>
    OBVIOUS
  <2>2. /\ e \in Entries(d, S) <=> /\ e \in Slices \X Keys /\ e[1] \in S
                                   /\ \E j \in Items : At(d, e[1], e[2], j)
        /\ e \in Entries(c, S) <=> /\ e \in Slices \X Keys /\ e[1] \in S
                                   /\ \E j \in Items : At(c, e[1], e[2], j)
    BY EntriesAt
  <2>3. e \in Slices \X Keys => (e = <<s, k>> <=> e[1] = s /\ e[2] = k)
    BY <2>1
  <2> HIDE DEF S
  <2>4. e \in Slices \X Keys =>
           ((\E j \in Items : At(d, e[1], e[2], j))
              <=> (\E j \in Items : At(c, e[1], e[2], j)) /\ e # <<s, k>>)
    BY <2>1, <2>3 DEF Lacks
  <2>5. e \in Entries(d, S) <=> e \in Entries(c, S) /\ e # <<s, k>>
    BY <2>2, <2>4
  <2> QED BY <2>5 DEF Recent, S
<1>2. <<s, k>> \in Recent(c)
  <2>1. <<s, k>> \in Slices \X Keys /\ <<s, k>>[1] = s /\ <<s, k>>[2] = k
    OBVIOUS
  <2> QED BY <2>1, EntriesAt DEF Recent
<1> QED BY <1>1, <1>2

LEMMA RecentWith ==
    ASSUME TInv, NEW c, NEW d, Sound(c), Sound(d), NEW k \in Keys, NEW i \in Items,
           \A j \in Items : ~At(c, clock, k, j), Gains(c, d, k, i)
    PROVE  Recent(d) = Recent(c) \cup {<<clock, k>>} /\ <<clock, k>> \notin Recent(c)
<1> DEFINE S == clock - TimeoutSlices .. clock
<1>0. clock \in Slices /\ clock \in S
  BY Numbers
<1>1. ASSUME NEW e PROVE e \in Recent(d) <=> e \in Recent(c) \/ e = <<clock, k>>
  <2>1. e \in Slices \X Keys => e[1] \in Slices /\ e[2] \in Keys /\ e = <<e[1], e[2]>>
    OBVIOUS
  <2>2. /\ e \in Entries(d, S) <=> /\ e \in Slices \X Keys /\ e[1] \in S
                                   /\ \E j \in Items : At(d, e[1], e[2], j)
        /\ e \in Entries(c, S) <=> /\ e \in Slices \X Keys /\ e[1] \in S
                                   /\ \E j \in Items : At(c, e[1], e[2], j)
    BY EntriesAt
  <2>3. e \in Slices \X Keys => (e = <<clock, k>> <=> e[1] = clock /\ e[2] = k)
    BY <2>1
  <2>6. e = <<clock, k>> => e \in Slices \X Keys /\ e[1] \in S
    BY <1>0
  <2> HIDE DEF S
  <2>4. e \in Slices \X Keys =>
           ((\E j \in Items : At(d, e[1], e[2], j))
              <=> (\E j \in Items : At(c, e[1], e[2], j)) \/ e = <<clock, k>>)
    BY <2>1, <2>3 DEF Gains
  <2>5. e \in Entries(d, S) <=> e \in Entries(c, S) \/ e = <<clock, k>>
    BY <2>2, <2>4, <2>6
  <2> QED BY <2>5 DEF Recent, S
<1>2. <<clock, k>> \notin Recent(c)
  <2>1. <<clock, k>>[1] = clock /\ <<clock, k>>[2] = k
    OBVIOUS
  <2> QED BY <2>1, EntriesAt DEF Recent
<1> QED BY <1>1, <1>2

\* From c to d, the entry at slice s and key k goes to the bucket of the present.
Shifted(c, d, s, k, i) ==
    \A x \in Slices, l \in Keys, j \in Items :
        At(d, x, l, j) <=> \/ At(c, x, l, j) /\ ~(x = s /\ l = k)
                           \/ x = clock /\ l = k /\ j = i

LEMMA RecentMoved ==
    ASSUME TInv, NEW c, NEW d, Sound(c), Sound(d), NEW s \in Slices, NEW k \in Keys,
           NEW i \in Items, Shifted(c, d, s, k, i)
    PROVE  Recent(d) = (Recent(c) \ {<<s, k>>}) \cup {<<clock, k>>}
<1> DEFINE S == clock - TimeoutSlices .. clock
<1>0. clock \in Slices /\ clock \in S
  BY Numbers
<1>1. ASSUME NEW e
      PROVE  e \in Recent(d) <=> (e \in Recent(c) /\ e # <<s, k>>) \/ e = <<clock, k>>
  <2>1. e \in Slices \X Keys => e[1] \in Slices /\ e[2] \in Keys /\ e = <<e[1], e[2]>>
    OBVIOUS
  <2>2. /\ e \in Entries(d, S) <=> /\ e \in Slices \X Keys /\ e[1] \in S
                                   /\ \E j \in Items : At(d, e[1], e[2], j)
        /\ e \in Entries(c, S) <=> /\ e \in Slices \X Keys /\ e[1] \in S
                                   /\ \E j \in Items : At(c, e[1], e[2], j)
    BY EntriesAt
  <2>3. e \in Slices \X Keys => /\ (e = <<clock, k>> <=> e[1] = clock /\ e[2] = k)
                                /\ (e = <<s, k>> <=> e[1] = s /\ e[2] = k)
    BY <2>1
  <2>6. e = <<clock, k>> => e \in Slices \X Keys /\ e[1] \in S
    BY <1>0
  <2> HIDE DEF S
  <2>4. e \in Slices \X Keys =>
           ((\E j \in Items : At(d, e[1], e[2], j))
              <=> \/ (\E j \in Items : At(c, e[1], e[2], j)) /\ e # <<s, k>>
                  \/ e = <<clock, k>>)
    BY <2>1, <2>3 DEF Shifted
  <2>5. e \in Entries(d, S) <=> (e \in Entries(c, S) /\ e # <<s, k>>) \/ e = <<clock, k>>
    BY <2>2, <2>4, <2>6
  <2> QED BY <2>5 DEF Recent, S
<1> QED BY <1>1

\* One entry comes, goes or moves; finalization does not count it.
LEMMA ChangedExact ==
    ASSUME TInv, NEW b, NEW c, NEW d, Sound(c), Sound(d), Still(b, c), Tidy(d),
           d.fin = c.fin, d.floor = c.floor, NEW n \in Int, d.ceiling = c.ceiling + n,
           Cardinality(Recent(d)) = Cardinality(Recent(c)) + n,
           \A x \in Slices, l \in Keys, j \in Items :
              ~Searched(x) => (At(d, x, l, j) <=> At(c, x, l, j))
    PROVE  Exact(d)
<1>1. /\ clock \in Nat /\ TimeoutSlices \in Nat /\ MaxExpired(clock) = clock - TimeoutSlices - 1
      /\ Slices \subseteq Nat /\ c.fin \in Int /\ c.ceiling \in Int /\ c.floor \in Int /\ Tidy(c)
  BY Numbers, SoundFields DEF Still, Grown
<1> DEFINE S == c.fin + 1 .. MaxExpired(clock)
<1>2. ASSUME NEW s \in Slices, NEW k \in Keys, NEW i \in Items
      PROVE  s \in S /\ At(c, s, k, i) <=> s \in S /\ At(d, s, k, i)
  <2>1. s \in S => ~Searched(s)
    BY <1>1 DEF Searched
  <2> QED BY <2>1
<1> HIDE DEF S
<1>3. Entries(c, S) = Entries(d, S)
  BY <1>2, SameEntries
<1>4. Expired(c) = Expired(d)
  BY <1>3 DEF Expired, S
<1>5. /\ Cardinality(Live(d)) = Cardinality(Recent(d)) + Cardinality(Expired(d))
      /\ Cardinality(Live(c)) = Cardinality(Recent(c)) + Cardinality(Expired(c))
      /\ Cardinality(Recent(c)) \in Nat /\ Cardinality(Expired(c)) \in Nat
  BY <1>1, LiveCount
<1>6. c.ceiling - c.floor = Cardinality(Live(c))
  BY DEF Still, Quiet, Exact, Length
<1>7. d.ceiling - d.floor = Cardinality(Live(d))
  BY <1>1, <1>4, <1>5, <1>6
<1> QED BY <1>7 DEF Exact, Length

LEMMA ChangedHeir ==
    ASSUME TInv, NEW b, NEW c, NEW d, Still(b, c), NEW k \in Keys, NEW i \in Items,
           d.fin = c.fin, d.floor = c.floor, d.told = c.told,
           \A x \in Slices, l \in Keys, j \in Items :
              At(d, x, l, j) => At(c, x, l, j) \/ (x = clock /\ l = k /\ j = i),
           \A x \in Slices, l \in Keys, j \in Items :
              ~Searched(x) /\ At(c, x, l, j) => At(d, x, l, j),
           ~InUse(b, i) \/ Found(b, i),
           \A j \in Items : InUse(c, j) => InUse(d, j)
    PROVE  Heir(b, d)
<1>1. Fresh(b, d, clock)
  <2>1. clock \in Nat
    BY Numbers
  <2> QED BY <2>1 DEF Still, Heir, Fresh
<1>2. Steady(b, d)
  BY DEF Still, Heir, Steady
<1>3. Moves(b, d)
  BY DEF Still, Heir, Moves
<1>4. Tells(b, d) /\ Counts(b, d)
  BY DEF Still, Heir, Tells, Counts
<1>5. Uses(b, d)
  BY DEF Still, Heir, Uses
<1> QED BY <1>1, <1>2, <1>3, <1>4, <1>5 DEF Heir

\* What was found was found already by those who began with it, or is new.
LEMMA NewestIsFound ==
    ASSUME TInv, NEW b, NEW c, Still(b, c), NEW k \in Keys, NEW s \in Slices, NEW i \in Items,
           Newest(c, k, s, i)
    PROVE  /\ ~InUse(b, i) \/ Found(b, i)
           /\ Searched(s) /\ s \in clock - TimeoutSlices .. clock
           /\ i \notin c.told
           /\ \A r \in Slices, j \in Items : At(c, r, k, j) /\ Searched(r) => r = s
<1>1. /\ At(c, s, k, i) /\ clock - TimeoutSlices <= s /\ s <= clock
  BY DEF Newest
<1>2. clock \in Nat /\ TimeoutSlices \in Nat /\ s \in Nat
  BY Numbers
<1>3. Searched(s) /\ s \in clock - TimeoutSlices .. clock
  BY <1>1, <1>2 DEF Searched
<1>4. i \notin c.told
  BY <1>1, <1>3 DEF Still, Quiet, Gone
<1>5. ~InUse(b, i) \/ Found(b, i)
  <2>1. CASE At(b, s, k, i)
    BY <1>3, <2>1 DEF Found
  <2>2. CASE ~At(b, s, k, i)
    BY <1>1, <2>2 DEF Still, Heir, Moves
  <2> QED BY <2>1, <2>2
<1>6. \A r \in Slices, j \in Items : At(c, r, k, j) /\ Searched(r) => r = s
  BY <1>1, <1>3 DEF Still, Quiet, OneFound
<1> QED BY <1>3, <1>4, <1>5, <1>6

LEMMA MovedStill ==
    ASSUME TInv, NEW b, NEW c, Sound(c), Filled(b, clock), Still(b, c), clock \in DOMAIN c.data,
           NEW k \in Keys, Holding(c, k, clock) # {}, Sound(Moved(c, k, clock))
    PROVE  /\ Still(b, Moved(c, k, clock))
           /\ \A i \in Items : InUse(Moved(c, k, clock), i) => InUse(c, i)
<1> DEFINE m == Moved(c, k, clock)
<1>1. PICK s \in Slices, i \in Items :
        /\ Newest(c, k, s, i)
        /\ s # clock => \A j \in Items : ~At(c, clock, k, j)
        /\ m.fin = c.fin /\ m.max = c.max /\ m.ceiling = c.ceiling
        /\ m.floor = c.floor /\ m.told = c.told /\ m.removed = c.removed
        /\ \A x \in Slices, l \in Keys, j \in Items :
              At(m, x, l, j) <=> \/ At(c, x, l, j) /\ ~(x = s /\ l = k)
                                 \/ x = clock /\ l = k /\ j = i
  BY MovedAt
<1>2. /\ clock \in Nat /\ clock \in Slices /\ Slices \subseteq Nat
      /\ TimeoutSlices \in Nat /\ TimeoutSlices >= 1
  BY Numbers
<1>3. Grown(b, m, clock)
  BY <1>2, MovedGrown DEF Still
<1>4. /\ ~InUse(b, i) \/ Found(b, i)
      /\ Searched(s) /\ s \in clock - TimeoutSlices .. clock
      /\ i \notin c.told
      /\ \A r \in Slices, j \in Items : At(c, r, k, j) /\ Searched(r) => r = s
  BY <1>1, NewestIsFound
<1>5. Searched(clock)
  BY <1>2 DEF Searched
<1>6. At(c, s, k, i)
  BY <1>1 DEF Newest
<1>7. Sound(m)
  OBVIOUS
<1> HIDE DEF m
<1>8. ASSUME NEW x \in Slices, NEW l \in Keys, NEW j \in Items, At(m, x, l, j)
      PROVE  (At(c, x, l, j) /\ ~(x = s /\ l = k)) \/ (x = clock /\ l = k /\ j = i)
  BY <1>1, <1>8
<1>9. OneFound(m)
  <2> SUFFICES ASSUME NEW r \in Slices, NEW q \in Slices, NEW l \in Keys,
                      NEW j \in Items, NEW g \in Items,
                      At(m, r, l, j), At(m, q, l, g), Searched(r), Searched(q)
               PROVE  r = q
    BY DEF OneFound
  <2>1. CASE l = k
    BY <1>4, <1>8, <2>1
  <2>2. CASE l # k
    <3>1. At(c, r, l, j) /\ At(c, q, l, g)
      BY <1>8, <2>2
    <3> QED BY <3>1 DEF Still, Quiet, OneFound
  <2> QED BY <2>1, <2>2
<1>10. OnePlace(m)
  <2> SUFFICES ASSUME NEW r \in Slices, NEW q \in Slices, NEW l \in Keys, NEW h \in Keys,
                      NEW j \in Items, At(m, r, l, j), At(m, q, h, j)
               PROVE  r = q /\ l = h
    BY DEF OnePlace
  <2>1. ASSUME NEW x \in Slices, NEW y \in Keys, At(m, x, y, i)
        PROVE  x = clock /\ y = k
    <3>1. ~(At(c, x, y, i) /\ ~(x = s /\ y = k))
      BY <1>6 DEF Still, Quiet, OnePlace
    <3> QED BY <1>8, <2>1, <3>1
  <2>2. CASE j = i
    BY <2>1, <2>2
  <2>3. CASE j # i
    <3>1. At(c, r, l, j) /\ At(c, q, h, j)
      BY <1>8, <2>3
    <3> QED BY <3>1 DEF Still, Quiet, OnePlace
  <2> QED BY <2>2, <2>3
<1>11. Gone(m)
  <2> SUFFICES ASSUME NEW x \in Slices, NEW l \in Keys, NEW j \in Items,
                      At(m, x, l, j), Searched(x)
               PROVE  j \notin m.told
    BY DEF Gone
  <2>1. CASE At(c, x, l, j)
    BY <1>1, <2>1 DEF Still, Quiet, Gone
  <2>2. CASE j = i
    BY <1>1, <1>4, <2>2
  <2> QED BY <1>8, <2>1, <2>2
<1>12. Exact(m)
  <2>1. Recent(m) = (Recent(c) \ {<<s, k>>}) \cup {<<clock, k>>}
    <3>1. Shifted(c, m, s, k, i)
      BY <1>1 DEF Shifted
    <3> QED BY <1>7, <3>1, RecentMoved
  <2>2. <<s, k>> \in Recent(c)
    <3>1. <<s, k>> \in Slices \X Keys /\ <<s, k>>[1] = s /\ <<s, k>>[2] = k
      OBVIOUS
    <3> QED BY <1>4, <1>6, <3>1, EntriesAt DEF Recent
  <2>3. s # clock => <<clock, k>> \notin Recent(c)
    <3>1. <<clock, k>>[1] = clock /\ <<clock, k>>[2] = k
      OBVIOUS
    <3> QED BY <1>1, <3>1, EntriesAt DEF Recent
  <2>4. IsFiniteSet(Recent(c)) /\ Cardinality(Recent(c)) \in Nat
    BY LiveCount DEF Still, Grown
  <2>5. Cardinality(Recent(m)) = Cardinality(Recent(c)) + 0
    <3>1. CASE s = clock
      <4>1. Recent(m) = Recent(c)
        BY <2>1, <2>2, <3>1
      <4> QED BY <2>4, <4>1
    <3>2. CASE s # clock
      <4> DEFINE R == Recent(c) \ {<<s, k>>}
      <4>1. IsFiniteSet(R) /\ Cardinality(R) = Cardinality(Recent(c)) - 1
        BY <2>2, <2>4, FS_RemoveElement
      <4>2. <<clock, k>> \notin R
        BY <2>3, <3>2
      <4> HIDE DEF R
      <4>3. Cardinality(R \cup {<<clock, k>>}) = Cardinality(R) + 1
        BY <4>1, <4>2, FS_AddElement
      <4>4. Recent(m) = R \cup {<<clock, k>>}
        BY <2>1 DEF R
      <4> QED BY <2>4, <4>1, <4>3, <4>4
    <3> QED BY <3>1, <3>2
  <2>6. \A x \in Slices, l \in Keys, j \in Items :
           ~Searched(x) => (At(m, x, l, j) <=> At(c, x, l, j))
    BY <1>1, <1>4, <1>5
  <2>7. Tidy(m) /\ m.ceiling = c.ceiling + 0
    <3>1. c.ceiling \in Int
      BY SoundFields
    <3> QED BY <1>1, <1>3, <3>1 DEF Grown
  <2> QED BY <1>1, <1>7, <2>5, <2>6, <2>7, ChangedExact
<1>13. \A j \in Items : InUse(m, j) <=> InUse(c, j)
  <2> SUFFICES ASSUME NEW j \in Items PROVE InUse(m, j) <=> InUse(c, j)
    OBVIOUS
  <2>1. ASSUME NEW x \in Slices, NEW l \in Keys, At(m, x, l, j) PROVE InUse(c, j)
    <3>1. CASE At(c, x, l, j)
      BY <3>1 DEF InUse
    <3>2. CASE j = i
      BY <1>6, <3>2 DEF InUse
    <3> QED BY <1>8, <2>1, <3>1, <3>2
  <2>2. ASSUME NEW x \in Slices, NEW l \in Keys, At(c, x, l, j) PROVE InUse(m, j)
    <3>1. CASE x = s /\ l = k
      <4>1. j = i
        BY <1>6, <2>2, <3>1 DEF At
      <4>2. At(m, clock, k, j)
        BY <1>1, <1>2, <4>1
      <4> QED BY <1>2, <4>2 DEF InUse
    <3>2. CASE ~(x = s /\ l = k)
      <4>1. At(m, x, l, j)
        BY <1>1, <2>2, <3>2
      <4> QED BY <4>1 DEF InUse
    <3> QED BY <3>1, <3>2
  <2> QED BY <1>1, <2>1, <2>2 DEF InUse
<1>14. Heir(b, m)
  <2>1. \A x \in Slices, l \in Keys, j \in Items :
           ~Searched(x) /\ At(c, x, l, j) => At(m, x, l, j)
    BY <1>1, <1>4
  <2>2. \A x \in Slices, l \in Keys, j \in Items :
           At(m, x, l, j) => At(c, x, l, j) \/ (x = clock /\ l = k /\ j = i)
    BY <1>8
  <2> QED BY <1>1, <1>4, <1>13, <2>1, <2>2, ChangedHeir
<1> QED BY <1>3, <1>9, <1>10, <1>11, <1>12, <1>13, <1>14 DEF Still, Quiet, m

LEMMA DeletedStill ==
    ASSUME TInv, NEW b, NEW c, Sound(c), Still(b, c), clock \in DOMAIN c.data,
           NEW k \in Keys, Holding(c, k, clock) # {}, Sound(Deleted(c, k, clock))
    PROVE  /\ Still(b, Deleted(c, k, clock))
           /\ \A i \in Items : InUse(Deleted(c, k, clock), i) => InUse(c, i)
<1> DEFINE d == Deleted(c, k, clock)
<1>1. PICK s \in Slices, i \in Items :
        /\ Newest(c, k, s, i)
        /\ d.fin = c.fin /\ d.max = c.max /\ d.ceiling = c.ceiling - 1
        /\ d.floor = c.floor /\ d.told = c.told /\ d.removed = c.removed \cup {i}
        /\ \A x \in Slices, l \in Keys, j \in Items :
              At(d, x, l, j) <=> At(c, x, l, j) /\ ~(x = s /\ l = k)
  BY DeletedAt
<1>2. Grown(b, d, clock)
  BY DeletedGrown DEF Still
<1>3. /\ ~InUse(b, i) \/ Found(b, i)
      /\ Searched(s) /\ s \in clock - TimeoutSlices .. clock
  BY <1>1, NewestIsFound
<1>4. At(c, s, k, i)
  BY <1>1 DEF Newest
<1>5. Sound(d)
  OBVIOUS
<1> HIDE DEF d
<1>6. \A x \in Slices, l \in Keys, j \in Items : At(d, x, l, j) => At(c, x, l, j)
  BY <1>1
<1>7. OneFound(d)
  BY <1>6 DEF Still, Quiet, OneFound
<1>8. OnePlace(d)
  BY <1>6 DEF Still, Quiet, OnePlace
<1>9. Gone(d)
  BY <1>1, <1>6 DEF Still, Quiet, Gone
<1>10. Exact(d)
  <2>0. Lacks(c, d, s, k)
    BY <1>1 DEF Lacks
  <2>1. Recent(d) = Recent(c) \ {<<s, k>>} /\ <<s, k>> \in Recent(c)
    BY <1>3, <1>4, <1>5, <2>0, RecentWithout
  <2>2. IsFiniteSet(Recent(c)) /\ Cardinality(Recent(c)) \in Nat /\ c.ceiling \in Int
    BY LiveCount, SoundFields DEF Still, Grown
  <2>3. Cardinality(Recent(d)) = Cardinality(Recent(c)) + (-1)
    <3>1. Cardinality(Recent(c) \ {<<s, k>>}) = Cardinality(Recent(c)) - 1
      BY <2>1, <2>2, FS_RemoveElement
    <3> QED BY <2>1, <2>2, <3>1
  <2>4. Tidy(d) /\ d.ceiling = c.ceiling + (-1)
    BY <1>1, <1>2, <2>2 DEF Grown
  <2>5. \A x \in Slices, l \in Keys, j \in Items :
           ~Searched(x) => (At(d, x, l, j) <=> At(c, x, l, j))
    BY <1>1, <1>3
  <2> QED BY <1>1, <1>5, <2>3, <2>4, <2>5, ChangedExact
<1>11. \A j \in Items : InUse(d, j) <=> InUse(c, j)
  <2> SUFFICES ASSUME NEW j \in Items PROVE InUse(d, j) <=> InUse(c, j)
    OBVIOUS
  <2>1. InUse(d, j) => InUse(c, j)
    BY <1>1, <1>4, <1>6 DEF InUse
  <2>2. ASSUME NEW x \in Slices, NEW l \in Keys, At(c, x, l, j) PROVE InUse(d, j)
    <3>1. CASE x = s /\ l = k
      <4>1. j = i
        BY <1>4, <2>2, <3>1 DEF At
      <4> QED BY <1>1, <4>1 DEF InUse
    <3>2. CASE ~(x = s /\ l = k)
      <4>1. At(d, x, l, j)
        BY <1>1, <2>2, <3>2
      <4> QED BY <4>1 DEF InUse
    <3> QED BY <3>1, <3>2
  <2> QED BY <1>1, <2>1, <2>2 DEF InUse
<1>12. Heir(b, d)
  <2>1. \A x \in Slices, l \in Keys, j \in Items :
           ~Searched(x) /\ At(c, x, l, j) => At(d, x, l, j)
    BY <1>1, <1>3
  <2>2. \A x \in Slices, l \in Keys, j \in Items :
           At(d, x, l, j) => At(c, x, l, j) \/ (x = clock /\ l = k /\ j = i)
    BY <1>6
  <2> QED BY <1>1, <1>3, <1>11, <2>1, <2>2, ChangedHeir
<1> QED BY <1>2, <1>7, <1>8, <1>9, <1>10, <1>11, <1>12 DEF Still, Quiet, d

LEMMA AddedStill ==
    ASSUME TInv, NEW b, NEW c, Sound(c), Still(b, c), clock \in DOMAIN c.data,
           NEW k \in Keys, NEW i \in Items, Holding(c, k, clock) = {}, ~InUse(c, i),
           Sound(Added(c, k, i, clock))
    PROVE  /\ Still(b, Added(c, k, i, clock))
           /\ \A j \in Items : InUse(Added(c, k, i, clock), j) => InUse(c, j) \/ j = i
<1> DEFINE a == Added(c, k, i, clock)
<1>1. /\ a.fin = c.fin /\ a.max = c.max /\ a.ceiling = c.ceiling + 1
      /\ a.floor = c.floor /\ a.told = c.told /\ a.removed = c.removed
      /\ \A j \in Items : ~At(c, clock, k, j)
      /\ \A x \in Slices, l \in Keys, j \in Items :
            At(a, x, l, j) <=> At(c, x, l, j) \/ (x = clock /\ l = k /\ j = i)
  BY AddedAt
<1>2. /\ clock \in Nat /\ clock \in Slices /\ Slices \subseteq Nat
      /\ TimeoutSlices \in Nat /\ TimeoutSlices >= 1
  BY Numbers
<1>3. Grown(b, a, clock)
  BY <1>2, AddedGrown DEF Still
<1>4. Sound(a)
  OBVIOUS
<1> HIDE DEF a
<1>5. ~InUse(b, i) /\ i \notin c.told /\ \A x \in Slices, l \in Keys : ~At(c, x, l, i)
  BY DEF InUse, Still, Heir, Uses
<1>6. ASSUME NEW x \in Slices, NEW j \in Items, At(c, x, k, j), Searched(x) PROVE FALSE
  <2>1. x < clock - TimeoutSlices \/ x > clock
    BY <1>6, HoldingAt
  <2>2. x <= clock /\ x \in Nat
    BY <1>2, <1>6 DEF Still, Grown, Filled
  <2> QED BY <1>2, <1>6, <2>1, <2>2 DEF Searched
<1>7. OneFound(a)
  <2> SUFFICES ASSUME NEW r \in Slices, NEW q \in Slices, NEW l \in Keys,
                      NEW j \in Items, NEW g \in Items,
                      At(a, r, l, j), At(a, q, l, g), Searched(r), Searched(q)
               PROVE  r = q
    BY DEF OneFound
  <2>1. CASE l = k
    BY <1>1, <1>6, <2>1
  <2>2. CASE l # k
    <3>1. At(c, r, l, j) /\ At(c, q, l, g)
      BY <1>1, <2>2
    <3> QED BY <3>1 DEF Still, Quiet, OneFound
  <2> QED BY <2>1, <2>2
<1>8. OnePlace(a)
  <2> SUFFICES ASSUME NEW r \in Slices, NEW q \in Slices, NEW l \in Keys, NEW h \in Keys,
                      NEW j \in Items, At(a, r, l, j), At(a, q, h, j)
               PROVE  r = q /\ l = h
    BY DEF OnePlace
  <2>1. CASE j = i
    BY <1>1, <1>5, <2>1
  <2>2. CASE j # i
    <3>1. At(c, r, l, j) /\ At(c, q, h, j)
      BY <1>1, <2>2
    <3> QED BY <3>1 DEF Still, Quiet, OnePlace
  <2> QED BY <2>1, <2>2
<1>9. Gone(a)
  <2> SUFFICES ASSUME NEW x \in Slices, NEW l \in Keys, NEW j \in Items,
                      At(a, x, l, j), Searched(x)
               PROVE  j \notin a.told
    BY DEF Gone
  <2>1. CASE At(c, x, l, j)
    BY <1>1, <2>1 DEF Still, Quiet, Gone
  <2>2. CASE j = i
    BY <1>1, <1>5, <2>2
  <2> QED BY <1>1, <2>1, <2>2
<1>10. Exact(a)
  <2>0. Gains(c, a, k, i)
    BY <1>1 DEF Gains
  <2>1. Recent(a) = Recent(c) \cup {<<clock, k>>} /\ <<clock, k>> \notin Recent(c)
    BY <1>1, <1>4, <2>0, RecentWith
  <2>2. IsFiniteSet(Recent(c)) /\ Cardinality(Recent(c)) \in Nat
    BY LiveCount DEF Still, Grown
  <2>3. Cardinality(Recent(a)) = Cardinality(Recent(c)) + 1
    BY <2>1, <2>2, FS_AddElement
  <2>4. Tidy(a)
    BY <1>3 DEF Grown
  <2>5. \A x \in Slices, l \in Keys, j \in Items :
           ~Searched(x) => (At(a, x, l, j) <=> At(c, x, l, j))
    <3>1. Searched(clock)
      BY <1>2 DEF Searched
    <3> QED BY <1>1, <3>1
  <2> QED BY <1>1, <1>4, <2>3, <2>4, <2>5, ChangedExact
<1>11. \A j \in Items : InUse(a, j) <=> InUse(c, j) \/ j = i
  <2> SUFFICES ASSUME NEW j \in Items PROVE InUse(a, j) <=> InUse(c, j) \/ j = i
    OBVIOUS
  <2>1. CASE j = i
    BY <1>1, <1>2, <2>1 DEF InUse
  <2>2. CASE j # i
    BY <1>1, <2>2 DEF InUse
  <2> QED BY <2>1, <2>2
<1>12. Heir(b, a)
  <2>1. \A x \in Slices, l \in Keys, j \in Items :
           ~Searched(x) /\ At(c, x, l, j) => At(a, x, l, j)
    BY <1>1
  <2>2. \A x \in Slices, l \in Keys, j \in Items :
           At(a, x, l, j) => At(c, x, l, j) \/ (x = clock /\ l = k /\ j = i)
    BY <1>1
  <2> QED BY <1>1, <1>5, <1>11, <2>1, <2>2, ChangedHeir
<1> QED BY <1>3, <1>7, <1>8, <1>9, <1>10, <1>11, <1>12 DEF Still, Quiet, a

-----------------------------------------------------------------------------
(* Merging, in one slice *)

\* Sets that are disjoint.
LEMMA DisjointCount ==
    ASSUME NEW S, NEW T, IsFiniteSet(S), IsFiniteSet(T), S \cap T = {}
    PROVE  /\ IsFiniteSet(S \cup T)
           /\ Cardinality(S \cup T) = Cardinality(S) + Cardinality(T)
           /\ Cardinality(S) \in Nat /\ Cardinality(T) \in Nat
<1>1. Cardinality(S \cap T) = 0
  BY FS_EmptySet
<1>2. Cardinality(S) \in Nat /\ Cardinality(T) \in Nat
  BY FS_CardinalityType
<1>3. /\ IsFiniteSet(S \cup T)
      /\ Cardinality(S \cup T) = Cardinality(S) + Cardinality(T) - Cardinality(S \cap T)
  BY FS_Union
<1> QED BY <1>1, <1>2, <1>3

\* Two changed versions of a set that took out, and put in, different elements.
LEMMA ThreeWayCount ==
    ASSUME NEW O, NEW V, NEW N, IsFiniteSet(O), IsFiniteSet(V), IsFiniteSet(N),
           (V \ O) \cap (N \ O) = {}, (O \ V) \cap (O \ N) = {}
    PROVE  Cardinality((O \cap V \cap N) \cup (V \ O) \cup (N \ O))
             = Cardinality(V) + Cardinality(N) - Cardinality(O)
<1> DEFINE K == O \cap V \cap N
           A == V \ O
           B == N \ O
           C == O \ V
           D == O \ N
<1>1. /\ IsFiniteSet(K) /\ IsFiniteSet(A) /\ IsFiniteSet(B) /\ IsFiniteSet(C) /\ IsFiniteSet(D)
  <2>1. K \in SUBSET O /\ C \in SUBSET O /\ D \in SUBSET O /\ A \in SUBSET V /\ B \in SUBSET N
    OBVIOUS
  <2> HIDE DEF K, A, B, C, D
  <2> QED BY <2>1, FS_Subset
<1>2. /\ A \cap B = {} /\ C \cap D = {} /\ K \cap A = {} /\ (K \cup A) \cap B = {}
      /\ K \cap C = {} /\ (K \cup C) \cap D = {} /\ (K \cup D) \cap A = {} /\ K \cap D = {}
      /\ (K \cup C) \cap B = {}
  OBVIOUS
<1>3. /\ O = (K \cup C) \cup D /\ V = (K \cup D) \cup A /\ N = (K \cup C) \cup B
  OBVIOUS
<1>4. (O \cap V \cap N) \cup (V \ O) \cup (N \ O) = (K \cup A) \cup B
  OBVIOUS
<1> HIDE DEF K, A, B, C, D
<1>5. /\ IsFiniteSet(K \cup C) /\ Cardinality(K \cup C) = Cardinality(K) + Cardinality(C)
      /\ IsFiniteSet(K \cup D) /\ Cardinality(K \cup D) = Cardinality(K) + Cardinality(D)
      /\ IsFiniteSet(K \cup A) /\ Cardinality(K \cup A) = Cardinality(K) + Cardinality(A)
  BY <1>1, <1>2, DisjointCount
<1>6. /\ Cardinality((K \cup C) \cup D) = Cardinality(K \cup C) + Cardinality(D)
      /\ Cardinality((K \cup D) \cup A) = Cardinality(K \cup D) + Cardinality(A)
      /\ Cardinality((K \cup C) \cup B) = Cardinality(K \cup C) + Cardinality(B)
      /\ Cardinality((K \cup A) \cup B) = Cardinality(K \cup A) + Cardinality(B)
  BY <1>1, <1>2, <1>5, DisjointCount
<1>7. /\ Cardinality(K) \in Nat /\ Cardinality(A) \in Nat /\ Cardinality(B) \in Nat
      /\ Cardinality(C) \in Nat /\ Cardinality(D) \in Nat
  BY <1>1, FS_CardinalityType
<1>8. /\ Cardinality(O) = Cardinality(K) + Cardinality(C) + Cardinality(D)
      /\ Cardinality(V) = Cardinality(K) + Cardinality(D) + Cardinality(A)
      /\ Cardinality(N) = Cardinality(K) + Cardinality(C) + Cardinality(B)
      /\ Cardinality((O \cap V \cap N) \cup (V \ O) \cup (N \ O))
           = Cardinality(K) + Cardinality(A) + Cardinality(B)
  <2>1. Cardinality(O) = Cardinality((K \cup C) \cup D)
    BY <1>3
  <2>2. Cardinality(V) = Cardinality((K \cup D) \cup A)
    BY <1>3
  <2>3. Cardinality(N) = Cardinality((K \cup C) \cup B)
    BY <1>3
  <2>4. Cardinality((O \cap V \cap N) \cup (V \ O) \cup (N \ O)) = Cardinality((K \cup A) \cup B)
    BY <1>4
  <2> QED BY <1>5, <1>6, <2>1, <2>2, <2>3, <2>4
<1> QED BY <1>7, <1>8

\* What the two have changed differs.
LEMMA ConflictAt ==
    ASSUME TInv, NEW o, NEW v, NEW n, Mergeable(o, v, n, clock),
           NEW s \in Slices, NEW k \in Keys
    PROVE  /\ \A i \in Items : Searched(s) /\ At(o, s, k, i) /\ ~At(n, s, k, i) => At(v, s, k, i)
           /\ \A i, j \in Items : ~(/\ At(v, s, k, i) /\ ~At(o, s, k, i)
                                    /\ At(n, s, k, j) /\ ~At(o, s, k, j))
<1>1. /\ SlicesChanged(o, v) \cap SlicesChanged(o, n) = {}
      /\ EntriesChanged(o, v) \cap EntriesChanged(o, n) = {}
      /\ Sound(v) /\ Sound(n) /\ Tidy(v) /\ Tidy(n) /\ Follows(o, v) /\ Follows(o, n)
  BY DEF Mergeable, NoConflict, Made, Grown
<1>2. ASSUME NEW i \in Items, Searched(s), At(o, s, k, i), ~At(n, s, k, i)
      PROVE  At(v, s, k, i)
  <2>1. s > v.fin /\ s > n.fin
    BY <1>1, <1>2, SearchedIsAhead
  <2>2. s \in DOMAIN o.data /\ o.data[s][k] = i
    BY <1>2 DEF At
  <2>3. s \in DOMAIN v.data /\ s \in DOMAIN n.data
    BY <1>1, <2>1, <2>2 DEF Follows
  <2>4. /\ <<s, k>> \in EntriesChanged(o, n) <=> o.data[s][k] # n.data[s][k]
        /\ <<s, k>> \in EntriesChanged(o, v) <=> o.data[s][k] # v.data[s][k]
    BY <2>2, <2>3 DEF EntriesChanged
  <2>5. o.data[s][k] # n.data[s][k]
    BY <1>2, <2>2, <2>3 DEF At
  <2>6. o.data[s][k] = v.data[s][k]
    BY <1>1, <2>4, <2>5
  <2> QED BY <2>2, <2>3, <2>6 DEF At
<1>3. ASSUME NEW i \in Items, NEW j \in Items,
             At(v, s, k, i), ~At(o, s, k, i), At(n, s, k, j), ~At(o, s, k, j)
      PROVE  FALSE
  <2>1. /\ s \in DOMAIN v.data /\ v.data[s][k] = i
        /\ s \in DOMAIN n.data /\ n.data[s][k] = j
    BY <1>3 DEF At
  <2>2. CASE s \in DOMAIN o.data
    <3>1. o.data[s][k] # v.data[s][k] /\ o.data[s][k] # n.data[s][k]
      BY <1>3, <2>1, <2>2 DEF At
    <3>2. <<s, k>> \in EntriesChanged(o, n) /\ <<s, k>> \in EntriesChanged(o, v)
      BY <2>1, <2>2, <3>1 DEF EntriesChanged
    <3> QED BY <1>1, <3>2
  <2>3. CASE s \notin DOMAIN o.data
    <3>1. s \in SlicesChanged(o, v) /\ s \in SlicesChanged(o, n)
      BY <2>1, <2>3 DEF SlicesChanged
    <3> QED BY <1>1, <3>1
  <2> QED BY <2>2, <2>3
<1> QED BY <1>2, <1>3

MergedPlaces(o, v, n, m) ==
    \A s \in Slices, k \in Keys, i \in Items :
        At(m, s, k, i) <=> \/ At(o, s, k, i) /\ At(v, s, k, i) /\ At(n, s, k, i)
                           \/ At(v, s, k, i) /\ ~At(o, s, k, i)
                           \/ At(n, s, k, i) /\ ~At(o, s, k, i)

LEMMA RecentMerged ==
    ASSUME TInv, NEW o, NEW v, NEW n, NEW m, Mergeable(o, v, n, clock), Sound(m),
           MergedPlaces(o, v, n, m)
    PROVE  Cardinality(Recent(m))
             = Cardinality(Recent(v)) + Cardinality(Recent(n)) - Cardinality(Recent(o))
<1> DEFINE S == clock - TimeoutSlices .. clock
           O == Entries(o, S)
           V == Entries(v, S)
           N == Entries(n, S)
           M == Entries(m, S)
           Is(c, e) == \E i \in Items : At(c, e[1], e[2], i)
<1>1. Sound(o) /\ Sound(v) /\ Sound(n)
  BY DEF Mergeable, Made
<1>2. ASSUME NEW e
      PROVE  /\ e \in O <=> e \in Slices \X Keys /\ e[1] \in S /\ Is(o, e)
             /\ e \in V <=> e \in Slices \X Keys /\ e[1] \in S /\ Is(v, e)
             /\ e \in N <=> e \in Slices \X Keys /\ e[1] \in S /\ Is(n, e)
             /\ e \in M <=> e \in Slices \X Keys /\ e[1] \in S /\ Is(m, e)
  BY <1>1, EntriesAt
<1>3. ASSUME NEW e \in Slices \X Keys, e[1] \in S
      PROVE  e[1] \in Slices /\ e[2] \in Keys /\ Searched(e[1])
  <2>1. clock \in Nat /\ TimeoutSlices \in Nat
    BY Numbers
  <2> QED BY <1>3, <2>1 DEF Searched
<1>4. ASSUME NEW s \in Slices, NEW k \in Keys
      PROVE  /\ \A i \in Items : Searched(s) /\ At(o, s, k, i) /\ ~At(n, s, k, i) => At(v, s, k, i)
             /\ \A i, j \in Items : ~(/\ At(v, s, k, i) /\ ~At(o, s, k, i)
                                      /\ At(n, s, k, j) /\ ~At(o, s, k, j))
             /\ \A i, j \in Items : At(o, s, k, i) /\ At(o, s, k, j) => i = j
             /\ \A i, j \in Items : At(n, s, k, i) /\ At(n, s, k, j) => i = j
             /\ \A i, j \in Items : At(v, s, k, i) /\ At(v, s, k, j) => i = j
  <2>1. /\ \A i, j \in Items : At(o, s, k, i) /\ At(o, s, k, j) => i = j
        /\ \A i, j \in Items : At(n, s, k, i) /\ At(n, s, k, j) => i = j
        /\ \A i, j \in Items : At(v, s, k, i) /\ At(v, s, k, j) => i = j
    BY DEF At
  <2> QED BY <2>1, ConflictAt
<1> HIDE DEF S
<1>5. ASSUME NEW e \in Slices \X Keys, e[1] \in S
      PROVE  /\ Is(m, e) <=> \/ Is(o, e) /\ Is(v, e) /\ Is(n, e)
                             \/ Is(v, e) /\ ~Is(o, e)
                             \/ Is(n, e) /\ ~Is(o, e)
             /\ ~(Is(v, e) /\ ~Is(o, e) /\ Is(n, e) /\ ~Is(o, e))
             /\ ~(Is(o, e) /\ ~Is(v, e) /\ ~Is(n, e))
  <2>1. PICK s \in Slices, k \in Keys : s = e[1] /\ k = e[2] /\ Searched(s)
    BY <1>3, <1>5
  <2>2. \A i \in Items :
           At(m, s, k, i) <=> \/ At(o, s, k, i) /\ At(v, s, k, i) /\ At(n, s, k, i)
                              \/ At(v, s, k, i) /\ ~At(o, s, k, i)
                              \/ At(n, s, k, i) /\ ~At(o, s, k, i)
    BY DEF MergedPlaces
  <2>3. ASSUME Is(m, e)
        PROVE  \/ Is(o, e) /\ Is(v, e) /\ Is(n, e)
               \/ Is(v, e) /\ ~Is(o, e)
               \/ Is(n, e) /\ ~Is(o, e)
    <3>1. PICK i \in Items : At(m, s, k, i)
      BY <2>1, <2>3
    <3>2. CASE At(o, s, k, i) /\ At(v, s, k, i) /\ At(n, s, k, i)
      BY <2>1, <3>2
    <3>3. CASE At(v, s, k, i) /\ ~At(o, s, k, i)
      <4>1. ASSUME NEW j \in Items, At(o, s, k, j) PROVE At(n, s, k, j)
        BY <1>4, <2>1, <3>3, <4>1
      <4> QED BY <2>1, <3>3, <4>1
    <3>4. CASE At(n, s, k, i) /\ ~At(o, s, k, i)
      <4>1. ASSUME NEW j \in Items, At(o, s, k, j) PROVE At(v, s, k, j)
        BY <1>4, <2>1, <3>4, <4>1
      <4> QED BY <2>1, <3>4, <4>1
    <3> QED BY <2>2, <3>1, <3>2, <3>3, <3>4
  <2>4. ASSUME Is(o, e), Is(v, e), Is(n, e)
        PROVE  Is(m, e)
    <3>1. PICK i \in Items, j \in Items, g \in Items :
             At(o, s, k, i) /\ At(v, s, k, j) /\ At(n, s, k, g)
      BY <2>1, <2>4
    <3>2. CASE j = i /\ g = i
      BY <2>1, <2>2, <3>1, <3>2
    <3>3. CASE j # i
      <4>1. ~At(o, s, k, j)
        BY <1>4, <3>1, <3>3
      <4> QED BY <2>1, <2>2, <3>1, <4>1
    <3>4. CASE g # i
      <4>1. ~At(o, s, k, g)
        BY <1>4, <3>1, <3>4
      <4> QED BY <2>1, <2>2, <3>1, <4>1
    <3> QED BY <3>2, <3>3, <3>4
  <2>5. ASSUME Is(v, e) \/ Is(n, e), ~Is(o, e)
        PROVE  Is(m, e)
    BY <2>1, <2>2, <2>5
  <2>6. ~(Is(v, e) /\ ~Is(o, e) /\ Is(n, e) /\ ~Is(o, e))
    BY <1>4, <2>1
  <2>7. ~(Is(o, e) /\ ~Is(v, e) /\ ~Is(n, e))
    BY <1>4, <2>1
  <2> HIDE DEF Is
  <2> QED BY <2>3, <2>4, <2>5, <2>6, <2>7
<1> HIDE DEF Is, O, V, N, M
<1>6. M = (O \cap V \cap N) \cup (V \ O) \cup (N \ O)
  <2>1. ASSUME NEW e PROVE e \in M <=> e \in (O \cap V \cap N) \cup (V \ O) \cup (N \ O)
    BY <1>2, <1>5
  <2> QED BY <2>1
<1>7. (V \ O) \cap (N \ O) = {}
  BY <1>2, <1>5
<1>8. (O \ V) \cap (O \ N) = {}
  BY <1>2, <1>5
<1>9. IsFiniteSet(O) /\ IsFiniteSet(V) /\ IsFiniteSet(N)
  BY <1>1, EntriesAreFinite DEF O, V, N
<1>10. Cardinality(M) = Cardinality(V) + Cardinality(N) - Cardinality(O)
  BY <1>6, <1>7, <1>8, <1>9, ThreeWayCount
<1> QED BY <1>10 DEF M, V, N, O, S, Recent

\* What a container has finalized and has still to, together, is what it had.
LEMMA CountsTotal ==
    ASSUME TInv, NEW o, NEW x, Sound(o), Sound(x), Tidy(x), Heir(o, x)
    PROVE  x.floor + Cardinality(Expired(x)) = o.floor + Cardinality(Expired(o))
<1>1. o.floor \in Int /\ x.floor \in Int
  BY SoundFields
<1>2. CASE x.fin = o.fin /\ x.floor = o.floor
  <2>1. Expired(o) = Expired(x)
    BY <1>2, ExpiredSame
  <2> QED BY <1>2, <2>1
<1>3. CASE x.fin = MaxExpired(clock) /\ x.floor = o.floor + Cardinality(Expired(o))
  <2>1. Cardinality(Expired(x)) = 0
    BY <1>3, NoneExpired
  <2>2. Cardinality(Expired(o)) \in Nat
    BY EntriesAreFinite DEF Expired
  <2> QED BY <1>1, <1>3, <2>1, <2>2
<1> QED BY <1>2, <1>3 DEF Heir, Counts

\* The order of the floors is the order of finalization.
LEMMA FloorsFollow ==
    ASSUME TInv, NEW o, NEW x, Sound(o), Sound(x), Heir(o, x)
    PROVE  o.floor <= x.floor /\ o.floor \in Int /\ x.floor \in Int
<1>1. o.floor \in Int /\ x.floor \in Int
  BY SoundFields
<1>2. Cardinality(Expired(o)) \in Nat
  BY EntriesAreFinite DEF Expired
<1> QED BY <1>1, <1>2 DEF Heir, Counts

\* What was made of what was made is made.
LEMMA HeirTwice ==
    ASSUME TInv, NEW b, NEW v, NEW m, Sound(b), Sound(v), Tidy(v), Sound(m),
           Heir(b, v), Heir(v, m), v.fin <= m.fin
    PROVE  Heir(b, m)
<1>1. /\ clock \in Nat /\ TimeoutSlices \in Nat /\ TimeoutSlices >= 1 /\ Slices \subseteq Nat
      /\ v.fin \in Int /\ m.fin \in Int
  BY Numbers, SoundFields
<1>2. Fresh(b, m, clock)
  BY DEF Heir, Fresh
<1>3. Steady(b, m)
  <2> SUFFICES ASSUME NEW s \in Slices, NEW k \in Keys, NEW i \in Items,
                      ~Searched(s), At(b, s, k, i)
               PROVE  At(m, s, k, i) \/ (s <= m.fin /\ i \in m.told)
    BY DEF Steady
  <2>1. At(v, s, k, i) \/ (s <= v.fin /\ i \in v.told)
    BY DEF Heir, Steady
  <2>2. CASE At(v, s, k, i)
    BY <2>2 DEF Heir, Steady
  <2>3. CASE s <= v.fin /\ i \in v.told
    <3>1. s <= m.fin
      BY <1>1, <2>3
    <3> QED BY <2>3, <3>1 DEF Heir, Uses
  <2> QED BY <2>1, <2>2, <2>3
<1>4. Moves(b, m)
  <2> SUFFICES ASSUME NEW s \in Slices, NEW k \in Keys, NEW i \in Items,
                      At(m, s, k, i), ~At(b, s, k, i)
               PROVE  ~InUse(b, i) \/ Found(b, i)
    BY DEF Moves
  <2>1. CASE At(v, s, k, i)
    BY <2>1 DEF Heir, Moves
  <2>2. CASE ~At(v, s, k, i)
    <3>1. ~InUse(v, i) \/ Found(v, i)
      BY <2>2 DEF Heir, Moves
    <3>2. CASE ~InUse(v, i)
      BY <3>2 DEF Heir, Uses
    <3>3. CASE Found(v, i)
      <4>1. PICK r \in Slices, l \in Keys : Searched(r) /\ At(v, r, l, i)
        BY <3>3 DEF Found
      <4>2. CASE At(b, r, l, i)
        BY <4>1, <4>2 DEF Found
      <4>3. CASE ~At(b, r, l, i)
        BY <4>1, <4>3 DEF Heir, Moves
      <4> QED BY <4>2, <4>3
    <3> QED BY <3>1, <3>2, <3>3
  <2> QED BY <2>1, <2>2
<1>5. Tells(b, m)
  <2> SUFFICES ASSUME NEW i \in m.told, i \notin b.told
               PROVE  \E s \in Slices, k \in Keys : ~Searched(s) /\ At(b, s, k, i)
    BY DEF Tells
  <2>1. CASE i \in v.told
    BY <2>1 DEF Heir, Tells
  <2>2. CASE i \notin v.told
    <3>1. PICK s \in Slices, k \in Keys : ~Searched(s) /\ At(v, s, k, i)
      BY <2>2 DEF Heir, Tells
    <3>2. ~(s >= clock)
      BY <1>1, <3>1 DEF Searched
    <3>3. i \in Items
      BY SoundFields
    <3>4. At(b, s, k, i)
      BY <3>1, <3>2, <3>3 DEF Heir, Fresh
    <3> QED BY <3>1, <3>4
  <2> QED BY <2>1, <2>2
<1>6. Counts(b, m)
  <2>1. v.floor + Cardinality(Expired(v)) = b.floor + Cardinality(Expired(b))
    BY CountsTotal
  <2>2. Counts(b, v) /\ Counts(v, m)
    BY DEF Heir
  <2> QED BY <2>1, <2>2 DEF Counts
<1>7. Uses(b, m)
  BY DEF Heir, Uses
<1> QED BY <1>2, <1>3, <1>4, <1>5, <1>6, <1>7 DEF Heir

\* What two transactions of one slice have made of the same container.
Rivals(o, v, n) ==
    /\ Mergeable(o, v, n, clock) /\ Tidy(o)
    /\ Quiet(o) /\ Quiet(v) /\ Quiet(n)
    /\ Heir(o, v) /\ Heir(o, n) /\ Apart(o, n, v)

LEMMA MergedCounts ==
    ASSUME TInv, NEW o, NEW v, NEW n, Rivals(o, v, n)
    PROVE  Counts(v, Merged(o, v, n))
<1> DEFINE m == Merged(o, v, n)
<1>1. /\ m.floor = Floor(o.floor, v.floor, n.floor)
      /\ v.fin <= m.fin /\ n.fin <= m.fin /\ m.fin \in {v.fin, n.fin}
  BY MergedFields DEF Rivals
<1>2. /\ Sound(o) /\ Sound(v) /\ Sound(n) /\ Tidy(v) /\ Heir(o, v) /\ Heir(o, n)
      /\ Follows(o, v) /\ Follows(o, n)
  BY DEF Rivals, Mergeable, Made
<1>3. /\ o.floor <= v.floor /\ o.floor <= n.floor
      /\ o.floor \in Int /\ v.floor \in Int /\ n.floor \in Int
      /\ o.fin \in Int /\ v.fin \in Int /\ n.fin \in Int
      /\ o.fin <= v.fin /\ o.fin <= n.fin
  BY <1>2, FloorsFollow, SoundFields DEF Follows
<1>4. m.floor \in {o.floor, v.floor, n.floor} /\ v.floor <= m.floor /\ n.floor <= m.floor
  <2>1. m.floor = Greatest(o.floor, v.floor, n.floor)
    BY <1>1, Zenon DEF Greatest, Floor
  <2>2. /\ Greatest(o.floor, v.floor, n.floor) \in {o.floor, v.floor, n.floor}
        /\ v.floor <= Greatest(o.floor, v.floor, n.floor)
        /\ n.floor <= Greatest(o.floor, v.floor, n.floor)
    BY <1>3, GreatestOfThree, Zenon
  <2> HIDE DEF m
  <2> QED BY <2>1, <2>2
<1> HIDE DEF m
<1>5. CASE n.fin = o.fin /\ n.floor = o.floor
  BY <1>1, <1>3, <1>4, <1>5 DEF Counts, m
<1>6. CASE n.fin = MaxExpired(clock) /\ n.floor = o.floor + Cardinality(Expired(o))
  <2>1. CASE v.fin = o.fin /\ v.floor = o.floor
    <3>1. Expired(v) = Expired(o)
      BY <1>2, <2>1, ExpiredSame
    <3>2. m.fin = MaxExpired(clock) /\ m.floor = n.floor
      BY <1>1, <1>3, <1>4, <1>6, <2>1
    <3> QED BY <1>6, <2>1, <3>1, <3>2 DEF Counts, m
  <2>2. CASE v.fin = MaxExpired(clock) /\ v.floor = o.floor + Cardinality(Expired(o))
    BY <1>1, <1>3, <1>4, <1>6, <2>2 DEF Counts, m
  <2> QED BY <1>2, <2>1, <2>2 DEF Heir, Counts
<1> QED BY <1>2, <1>5, <1>6 DEF Heir, Counts

LEMMA MergedHeir ==
    ASSUME TInv, NEW o, NEW v, NEW n, Rivals(o, v, n)
    PROVE  Heir(v, Merged(o, v, n))
<1> DEFINE m == Merged(o, v, n)
<1>1. /\ m.told = v.told \cup n.told /\ m.removed = v.removed \cup n.removed
      /\ v.fin <= m.fin /\ n.fin <= m.fin /\ m.fin \in Int
  BY MergedFields DEF Rivals
<1>2. MergedPlaces(o, v, n, m)
  BY MergedAt DEF MergedPlaces, Rivals
<1>3. /\ Mergeable(o, v, n, clock) /\ Heir(o, v) /\ Heir(o, n) /\ Apart(o, n, v) /\ OnePlace(n)
      /\ Sound(v) /\ Sound(n)
  BY DEF Rivals, Quiet, Mergeable, Made
<1>4. v.fin \in Int /\ n.fin \in Int /\ Slices \subseteq Nat
  BY <1>3, SoundFields, Numbers
<1>5. Counts(v, m)
  BY MergedCounts
<1>6. Uses(v, m)
  <2>1. ASSUME NEW i \in Items, InUse(v, i) PROVE InUse(m, i)
    <3>1. CASE i \in v.told \cup v.removed
      BY <1>1, <3>1 DEF InUse
    <3>2. ASSUME NEW s \in Slices, NEW k \in Keys, At(v, s, k, i)
          PROVE  InUse(m, i)
      <4>1. \/ i \in m.told \cup m.removed
            \/ \E r \in Slices : At(m, r, k, i)
        BY <1>3, <3>2, MergedKeeps
      <4> HIDE DEF m
      <4> QED BY <4>1 DEF InUse
    <3> QED BY <2>1, <3>1, <3>2 DEF InUse
  <2> HIDE DEF m
  <2> QED BY <1>1, <2>1 DEF Uses
<1> HIDE DEF m
<1>7. ASSUME NEW s \in Slices, NEW k \in Keys, NEW i \in Items, At(m, s, k, i), ~At(v, s, k, i)
      PROVE  At(n, s, k, i) /\ ~At(o, s, k, i)
  BY <1>2, <1>7 DEF MergedPlaces
<1>8. Fresh(v, m, clock)
  BY <1>3, <1>7 DEF Heir, Fresh
<1>9. Steady(v, m)
  <2> SUFFICES ASSUME NEW s \in Slices, NEW k \in Keys, NEW i \in Items,
                      ~Searched(s), At(v, s, k, i)
               PROVE  At(m, s, k, i) \/ (s <= m.fin /\ i \in m.told)
    BY DEF Steady
  <2>1. CASE ~At(o, s, k, i) \/ At(n, s, k, i)
    BY <1>2, <2>1 DEF MergedPlaces
  <2>2. CASE At(o, s, k, i) /\ ~At(n, s, k, i)
    <3>1. s <= n.fin /\ i \in n.told
      BY <1>3, <2>2 DEF Heir, Steady
    <3>2. s <= m.fin
      BY <1>1, <1>4, <3>1
    <3> QED BY <1>1, <3>1, <3>2
  <2> QED BY <2>1, <2>2
<1>10. Moves(v, m)
  <2> SUFFICES ASSUME NEW s \in Slices, NEW k \in Keys, NEW i \in Items,
                      At(m, s, k, i), ~At(v, s, k, i)
               PROVE  ~InUse(v, i) \/ Found(v, i)
    BY DEF Moves
  <2>1. At(n, s, k, i) /\ ~At(o, s, k, i)
    BY <1>7
  <2>2. ~InUse(o, i) \/ Found(o, i)
    BY <1>3, <2>1 DEF Heir, Moves
  <2>3. CASE ~InUse(o, i)
    <3>1. InUse(n, i)
      BY <2>1 DEF InUse
    <3> QED BY <1>3, <2>3, <3>1 DEF Apart
  <2>4. CASE Found(o, i)
    <3>1. PICK r \in Slices, l \in Keys : Searched(r) /\ At(o, r, l, i)
      BY <2>4 DEF Found
    <3>2. ~At(n, r, l, i)
      BY <1>3, <2>1, <3>1 DEF OnePlace
    <3>3. At(v, r, l, i)
      BY <1>3, <3>1, <3>2, ConflictAt
    <3> QED BY <3>1, <3>3 DEF Found
  <2> QED BY <2>2, <2>3, <2>4
<1>11. Tells(v, m)
  <2> SUFFICES ASSUME NEW i \in m.told, i \notin v.told
               PROVE  \E s \in Slices, k \in Keys : ~Searched(s) /\ At(v, s, k, i)
    BY DEF Tells
  <2>1. i \in n.told /\ i \in Items
    BY <1>1, <1>3, SoundFields
  <2>2. i \notin o.told
    BY <1>3 DEF Heir, Uses
  <2>3. PICK s \in Slices, k \in Keys : ~Searched(s) /\ At(o, s, k, i)
    BY <1>3, <2>1, <2>2 DEF Heir, Tells
  <2>4. At(v, s, k, i)
    BY <1>3, <2>1, <2>3 DEF Heir, Steady
  <2> QED BY <2>3, <2>4
<1> QED BY <1>5, <1>6, <1>8, <1>9, <1>10, <1>11 DEF Heir, m

LEMMA MergedQuiet ==
    ASSUME TInv, NEW o, NEW v, NEW n, Rivals(o, v, n), Sound(Merged(o, v, n))
    PROVE  Quiet(Merged(o, v, n))
<1> DEFINE m == Merged(o, v, n)
<1>1. /\ m.told = v.told \cup n.told /\ m.ceiling = v.ceiling + n.ceiling - o.ceiling
  BY MergedFields DEF Rivals
<1>2. MergedPlaces(o, v, n, m)
  BY MergedAt DEF MergedPlaces, Rivals
<1>3. /\ Mergeable(o, v, n, clock) /\ Heir(o, v) /\ Heir(o, n) /\ Apart(o, n, v)
      /\ Sound(o) /\ Sound(v) /\ Sound(n) /\ Quiet(o) /\ Quiet(v) /\ Quiet(n)
      /\ Tidy(v) /\ Tidy(n) /\ Filled(v, clock) /\ Filled(n, clock)
  BY DEF Rivals, Mergeable, Grown, Made
<1>4. Heir(v, m) /\ Tidy(m) /\ Sound(m)
  BY <1>3, MergedHeir, MergedTidy
<1> HIDE DEF m
<1>5. clock \in Nat /\ Slices \subseteq Nat
  BY Numbers
<1>6. ASSUME NEW s \in Slices, NEW k \in Keys, NEW i \in Items, At(m, s, k, i)
      PROVE  \/ At(v, s, k, i) /\ At(n, s, k, i)
             \/ At(v, s, k, i) /\ ~At(o, s, k, i) /\ s = clock
             \/ At(n, s, k, i) /\ ~At(o, s, k, i) /\ s = clock
  <2>1. ASSUME At(v, s, k, i) \/ At(n, s, k, i), ~At(o, s, k, i)
        PROVE  s = clock
    <3>1. s >= clock /\ s <= clock /\ s \in Nat
      BY <1>3, <1>5, <2>1 DEF Heir, Fresh, Filled
    <3> QED BY <1>5, <3>1
  <2> QED BY <1>2, <1>6, <2>1 DEF MergedPlaces
<1>7. OneFound(m)
  <2> SUFFICES ASSUME NEW r \in Slices, NEW s \in Slices, NEW k \in Keys,
                      NEW i \in Items, NEW j \in Items,
                      At(m, r, k, i), At(m, s, k, j), Searched(r), Searched(s)
               PROVE  r = s
    BY DEF OneFound
  <2>1. \/ At(v, r, k, i) /\ At(v, s, k, j)
        \/ At(n, r, k, i) /\ At(n, s, k, j)
        \/ r = clock /\ s = clock
    BY <1>6
  <2> QED BY <1>3, <2>1 DEF Quiet, OneFound
<1>8. OnePlace(m)
  <2> SUFFICES ASSUME NEW r \in Slices, NEW s \in Slices, NEW k \in Keys, NEW l \in Keys,
                      NEW i \in Items, At(m, r, k, i), At(m, s, l, i)
               PROVE  r = s /\ k = l
    BY DEF OnePlace
  <2>1. ASSUME NEW x \in Slices, NEW y \in Slices, NEW g \in Keys, NEW h \in Keys,
               At(v, x, g, i), ~At(o, x, g, i), At(n, y, h, i), ~At(o, y, h, i)
        PROVE  FALSE
    <3>1. ~InUse(o, i) \/ Found(o, i)
      BY <1>3, <2>1 DEF Heir, Moves
    <3>2. CASE ~InUse(o, i)
      <4>1. InUse(n, i) /\ InUse(v, i)
        BY <2>1 DEF InUse
      <4> QED BY <1>3, <3>2, <4>1 DEF Apart
    <3>3. CASE Found(o, i)
      <4>1. PICK q \in Slices, p \in Keys : Searched(q) /\ At(o, q, p, i)
        BY <3>3 DEF Found
      <4>2. ~At(n, q, p, i)
        BY <1>3, <2>1, <4>1 DEF Quiet, OnePlace
      <4>3. At(v, q, p, i)
        BY <1>3, <4>1, <4>2, ConflictAt
      <4>4. q = x /\ p = g
        BY <1>3, <2>1, <4>3 DEF Quiet, OnePlace
      <4> QED BY <2>1, <4>1, <4>4
    <3> QED BY <3>1, <3>2, <3>3
  <2>2. \/ At(v, r, k, i) /\ At(v, s, l, i)
        \/ At(n, r, k, i) /\ At(n, s, l, i)
    BY <1>6, <2>1
  <2> QED BY <1>3, <2>2 DEF Quiet, OnePlace
<1>9. Gone(m)
  <2> SUFFICES ASSUME NEW s \in Slices, NEW k \in Keys, NEW i \in Items,
                      At(m, s, k, i), Searched(s), i \in m.told
               PROVE  FALSE
    BY DEF Gone
  <2>1. ASSUME NEW x, NEW y, Heir(o, x), Heir(o, y), OnePlace(x), Gone(x), At(x, s, k, i),
               i \in y.told
        PROVE  FALSE
    <3>1. i \notin x.told
      BY <2>1 DEF Gone
    <3>2. i \notin o.told
      BY <2>1, <3>1 DEF Heir, Uses
    <3>3. PICK q \in Slices, p \in Keys : ~Searched(q) /\ At(o, q, p, i)
      BY <2>1, <3>2 DEF Heir, Tells
    <3>4. At(x, q, p, i)
      BY <2>1, <3>1, <3>3 DEF Heir, Steady
    <3>5. q = s
      BY <2>1, <3>4 DEF OnePlace
    <3> QED BY <3>3, <3>5
  <2>2. i \in v.told \/ i \in n.told
    BY <1>1
  <2>3. At(v, s, k, i) \/ At(n, s, k, i)
    BY <1>6
  <2>4. /\ At(v, s, k, i) => i \notin v.told
        /\ At(n, s, k, i) => i \notin n.told
    BY <1>3 DEF Quiet, Gone
  <2>5. At(v, s, k, i) => i \notin n.told
    BY <1>3, <2>1 DEF Quiet
  <2>6. At(n, s, k, i) => i \notin v.told
    BY <1>3, <2>1 DEF Quiet
  <2> QED BY <2>2, <2>3, <2>4, <2>5, <2>6
<1>10. Exact(m)
  <2>1. Cardinality(Recent(m))
             = Cardinality(Recent(v)) + Cardinality(Recent(n)) - Cardinality(Recent(o))
    BY <1>2, <1>3, <1>4, RecentMerged
  <2>2. /\ v.floor + Cardinality(Expired(v)) = o.floor + Cardinality(Expired(o))
        /\ n.floor + Cardinality(Expired(n)) = o.floor + Cardinality(Expired(o))
        /\ m.floor + Cardinality(Expired(m)) = v.floor + Cardinality(Expired(v))
    BY <1>3, <1>4, CountsTotal
  <2>3. /\ Cardinality(Live(v)) = Cardinality(Recent(v)) + Cardinality(Expired(v))
        /\ Cardinality(Live(n)) = Cardinality(Recent(n)) + Cardinality(Expired(n))
        /\ Cardinality(Live(m)) = Cardinality(Recent(m)) + Cardinality(Expired(m))
    BY <1>3, <1>4, LiveCount
  <2>4. /\ Cardinality(Live(o)) = Cardinality(Recent(o)) + Cardinality(Expired(o))
        /\ Cardinality(Recent(o)) \in Nat /\ Cardinality(Expired(o)) \in Nat
    BY <1>3, LiveCount DEF Rivals
  <2>5. /\ o.ceiling - o.floor = Cardinality(Live(o))
        /\ v.ceiling - v.floor = Cardinality(Live(v))
        /\ n.ceiling - n.floor = Cardinality(Live(n))
    BY <1>3 DEF Quiet, Exact, Length
  <2>6. /\ Cardinality(Recent(v)) \in Nat /\ Cardinality(Recent(n)) \in Nat
        /\ Cardinality(Recent(m)) \in Nat /\ Cardinality(Expired(v)) \in Nat
        /\ Cardinality(Expired(n)) \in Nat /\ Cardinality(Expired(m)) \in Nat
    BY <1>3, <1>4, LiveCount
  <2>7. /\ o.ceiling \in Int /\ v.ceiling \in Int /\ n.ceiling \in Int /\ m.ceiling \in Int
        /\ o.floor \in Int /\ v.floor \in Int /\ n.floor \in Int /\ m.floor \in Int
    BY <1>3, <1>4, SoundFields
  <2>8. /\ v.ceiling = Cardinality(Recent(v)) + (o.floor + Cardinality(Expired(o)))
        /\ n.ceiling = Cardinality(Recent(n)) + (o.floor + Cardinality(Expired(o)))
        /\ o.ceiling = Cardinality(Recent(o)) + (o.floor + Cardinality(Expired(o)))
    <3>1. v.ceiling = Cardinality(Recent(v)) + (o.floor + Cardinality(Expired(o)))
      <4>1. v.ceiling = (Cardinality(Recent(v)) + Cardinality(Expired(v))) + v.floor
        BY <2>3, <2>5, <2>6, <2>7
      <4> QED BY <2>2, <2>4, <2>6, <2>7, <4>1
    <3>2. n.ceiling = Cardinality(Recent(n)) + (o.floor + Cardinality(Expired(o)))
      <4>1. n.ceiling = (Cardinality(Recent(n)) + Cardinality(Expired(n))) + n.floor
        BY <2>3, <2>5, <2>6, <2>7
      <4> QED BY <2>2, <2>4, <2>6, <2>7, <4>1
    <3>3. o.ceiling = Cardinality(Recent(o)) + (o.floor + Cardinality(Expired(o)))
      BY <2>4, <2>5, <2>7
    <3> QED BY <3>1, <3>2, <3>3
  <2>9. m.ceiling = Cardinality(Recent(m)) + (o.floor + Cardinality(Expired(o)))
    BY <1>1, <2>1, <2>4, <2>6, <2>7, <2>8
  <2>10. m.floor + Cardinality(Expired(m)) = o.floor + Cardinality(Expired(o))
    BY <2>2
  <2>11. m.ceiling - m.floor = Cardinality(Live(m))
    BY <2>3, <2>6, <2>7, <2>9, <2>10
  <2> QED BY <2>11 DEF Exact, Length
<1> QED BY <1>7, <1>8, <1>9, <1>10 DEF Quiet, m

-----------------------------------------------------------------------------
(* The invariant of one slice *)

\* While the slice is the same.
LEMMA SameSlice ==
    ASSUME clock' = clock, NEW b, NEW c
    PROVE  /\ Quiet(c)' <=> Quiet(c)
           /\ Tidy(c)' <=> Tidy(c)
           /\ Heir(b, c)' <=> Heir(b, c)
<1>1. Quiet(c)' <=> Quiet(c)
  BY DEF Quiet, OneFound, OnePlace, Gone, Exact, Live, Searched
<1>2. Tidy(c)' <=> Tidy(c)
  BY DEF Tidy
<1>3. Heir(b, c)' <=> Heir(b, c)
  BY DEF Heir, Fresh, Steady, Moves, Found, Tells, Counts, Expired, Uses, Searched
<1> QED BY <1>1, <1>2, <1>3

LEMMA InitQuiet ==
    ASSUME Init, TInv, BucketInv, SessionInv
    PROVE  QuietInv
<1>1. PICK made \in MadeAt : db = NewContainer(made)
  BY DEF Init
<1>2. Sound(db) /\ open = {} /\ NoItem \notin Items
  BY ContainerAssumption DEF Init, open, BucketInv
<1> DEFINE d == [s \in made .. made + 2 * SpareBuckets - 1 |-> EmptyBucket]
<1>3. db.data = d /\ db.ceiling = 0 /\ db.floor = 0
  BY <1>1 DEF NewContainer
<1>4. \A s \in DOMAIN d, k \in Keys : d[s][k] = NoItem
  BY DEF EmptyBucket
<1> HIDE DEF d
<1>5. \A s \in Slices, k \in Keys, i \in Items : ~At(db, s, k, i)
  BY <1>2, <1>3, <1>4 DEF At
<1>6. Exact(db)
  <2>1. Live(db) = {}
    <3>1. ASSUME NEW e \in Live(db) PROVE FALSE
      <4>1. e \in Slices \X Keys /\ \E i \in Items : At(db, e[1], e[2], i)
        BY <1>2, <3>1, EntriesAt DEF Live
      <4>2. e[1] \in Slices /\ e[2] \in Keys
        BY <4>1
      <4> QED BY <1>5, <4>1, <4>2
    <3> QED BY <3>1
  <2> QED BY <1>3, <2>1, FS_EmptySet DEF Exact, Length
<1>7. OneFound(db) /\ OnePlace(db) /\ Gone(db)
  BY <1>5 DEF OneFound, OnePlace, Gone
<1> QED BY <1>2, <1>6, <1>7 DEF QuietInv, Quiet

\* What an operation may make of the container of transaction t.
Adopted(t, d) ==
    ~spanned =>
        /\ Quiet(d) /\ Heir(txn[t].base, d) /\ Apart(txn[t].base, d, db)
        /\ \A u \in open \ {t} : /\ Apart(txn[t].base, d, txn[u].view)
                                 /\ Apart(txn[u].base, txn[u].view, d)

LEMMA OperationQuiet ==
    ASSUME TInv, QuietInv, NEW t \in Threads, Operate(t),
           NEW d, Adopted(t, d), txn' = [txn EXCEPT ![t].view = d]
    PROVE  QuietInv'
<1>1. t \in open /\ clock' = clock /\ db' = db /\ spanned' = spanned
  BY DEF Operate
<1>2. txn' = [txn EXCEPT ![t] = [txn[t] EXCEPT !.view = d]]
  BY <1>1 DEF TInv
<1>3. open' = open
  BY <1>1, <1>2 DEF TInv, open
<1>4. ASSUME NEW u \in open
      PROVE  /\ txn'[u].base = txn[u].base /\ txn'[u].since = txn[u].since
             /\ txn'[u].view = IF u = t THEN d ELSE txn[u].view
  BY <1>1, <1>2 DEF TInv, Transactions
<1> SUFFICES ASSUME ~spanned PROVE QuietInv'
  BY <1>1 DEF QuietInv
<1>5. Quiet(db)'
  <2>1. PICK c : c = db
    OBVIOUS
  <2>2. Quiet(c)'
    BY <1>1, <2>1, SameSlice DEF QuietInv
  <2> QED BY <1>1, <2>1, <2>2 DEF Quiet, OneFound, OnePlace, Gone, Exact, Live, Searched
<1>6. ASSUME NEW u \in open'
      PROVE  (/\ txn[u].since = clock
              /\ Tidy(txn[u].base) /\ Quiet(txn[u].base) /\ Quiet(txn[u].view)
              /\ Heir(txn[u].base, txn[u].view) /\ Heir(txn[u].base, db)
              /\ Apart(txn[u].base, txn[u].view, db)
              /\ \A x \in open \ {u} : Apart(txn[u].base, txn[u].view, txn[x].view))'
  <2>1. PICK b, v, c : b = txn[u].base /\ v = txn'[u].view /\ c = db
    OBVIOUS
  <2>2. u \in open /\ b = txn'[u].base /\ txn'[u].since = clock'
    BY <1>1, <1>3, <1>4, <2>1 DEF QuietInv
  <2>3. Tidy(b) /\ Quiet(b) /\ Heir(b, c)
    BY <2>1, <2>2 DEF QuietInv
  <2>4. Quiet(v) /\ Heir(b, v) /\ Apart(b, v, c)
    <3>1. CASE u = t
      BY <1>4, <2>1, <2>2, <3>1 DEF Adopted
    <3>2. CASE u # t
      BY <1>4, <2>1, <2>2, <3>2 DEF QuietInv
    <3> QED BY <3>1, <3>2
  <2>5. ASSUME NEW x \in open' \ {u}
        PROVE  Apart(b, v, txn'[x].view)
    <3>1. x \in open /\ x # u
      BY <1>3
    <3>2. CASE u = t
      BY <1>4, <2>1, <2>2, <3>1, <3>2 DEF Adopted
    <3>3. CASE u # t /\ x = t
      BY <1>4, <2>1, <2>2, <3>1, <3>3 DEF Adopted
    <3>4. CASE u # t /\ x # t
      BY <1>4, <2>1, <2>2, <3>1, <3>4 DEF QuietInv
    <3> QED BY <3>2, <3>3, <3>4
  <2>6. Tidy(b)' /\ Quiet(b)' /\ Quiet(v)' /\ Heir(b, c)' /\ Heir(b, v)'
    BY <1>1, <2>3, <2>4, SameSlice
  <2>7. c = db'
    BY <1>1, <2>1
  <2>8. Apart(b, v, c)' /\ \A x \in open' \ {u} : Apart(b, v, txn[x].view)'
    BY <2>4, <2>5 DEF Apart, InUse, At
  <2> QED BY <2>1, <2>2, <2>6, <2>7, <2>8
<1> QED BY <1>5, <1>6 DEF QuietInv

\* New objects are nobody's.
LEMMA UnusedIsNot ==
    ASSUME TInv, BucketInv, NEW i \in Unused
    PROVE  i \in Items /\ ~InUse(db, i) /\ \A u \in open : ~InUse(txn[u].view, i)
<1>1. /\ i \in Items
      /\ i \notin ItemsIn(db, DOMAIN db.data) /\ i \notin db.told /\ i \notin db.removed
      /\ \A u \in open : /\ i \notin ItemsIn(txn[u].view, DOMAIN txn[u].view.data)
                         /\ i \notin txn[u].view.told /\ i \notin txn[u].view.removed
  BY DEF Unused
<1>2. Sound(db) /\ \A u \in open : Sound(txn[u].view)
  BY DEF BucketInv, Made
<1>3. ASSUME NEW c, Sound(c), i \notin ItemsIn(c, DOMAIN c.data),
             i \notin c.told, i \notin c.removed
      PROVE  ~InUse(c, i)
  <2>1. ASSUME NEW s \in Slices, NEW k \in Keys, At(c, s, k, i) PROVE FALSE
    <3>1. s \in DOMAIN c.data
      BY <2>1 DEF At
    <3> QED BY <1>1, <1>3, <2>1, <3>1, ItemsAt
  <2> QED BY <1>3, <2>1 DEF InUse
<1> QED BY <1>1, <1>2, <1>3

\* A transaction that makes nothing, or something new, stays apart from the others.
LEMMA AdoptedWith ==
    ASSUME QuietInv, NEW t \in open, NEW N, NEW d, Still(txn[t].base, d),
           \A j \in Items : InUse(d, j) => InUse(txn[t].view, j) \/ j \in N,
           \A j \in N : ~InUse(db, j) /\ \A u \in open : ~InUse(txn[u].view, j)
    PROVE  Adopted(t, d)
<1> SUFFICES ASSUME ~spanned PROVE Adopted(t, d)
  BY DEF Adopted
<1>1. Quiet(d) /\ Heir(txn[t].base, d)
  BY DEF Still
<1>2. Apart(txn[t].base, d, db)
  BY DEF QuietInv, Apart
<1>3. ASSUME NEW u \in open \ {t}
      PROVE  Apart(txn[t].base, d, txn[u].view) /\ Apart(txn[u].base, txn[u].view, d)
  <2>1. Apart(txn[t].base, txn[t].view, txn[u].view)
    BY DEF QuietInv
  <2>2. Apart(txn[u].base, txn[u].view, txn[t].view)
    BY DEF QuietInv
  <2> QED BY <2>1, <2>2 DEF Apart
<1> QED BY <1>1, <1>2, <1>3 DEF Adopted

LEMMA OperationsQuiet ==
    ASSUME TInv, BucketInv, SessionInv, QuietInv, ~spanned, NEW t \in Threads,
           \/ Housekeep(t)
           \/ \E k \in Keys : Get(t, k) \/ NewOrExisting(t, k) \/ Delete(t, k)
    PROVE  QuietInv'
<1>1. Operate(t) /\ t \in open
  BY DEF Housekeep, Get, NewOrExisting, Delete, Operate
<1>2. PICK b : b = txn[t].base
  OBVIOUS
<1>3. /\ Sound(b) /\ Made(b, txn[t].view) /\ Filled(b, clock) /\ Still(b, txn[t].view)
  BY <1>1, <1>2 DEF BucketInv, SessionInv, QuietInv, Still
<1>4. ASSUME NEW c \in Prepared(t, txn[t].view)
      PROVE  /\ Sound(c) /\ Made(b, c) /\ clock \in DOMAIN c.data /\ Still(b, c)
             /\ \A i \in Items : InUse(c, i) => InUse(txn[t].view, i)
  BY <1>3, PreparedMade, PreparedStill DEF Made
<1>5. ASSUME NEW c \in PreparedTwice(t)
      PROVE  /\ Sound(c) /\ Made(b, c) /\ clock \in DOMAIN c.data /\ Still(b, c)
             /\ \A i \in Items : InUse(c, i) => InUse(txn[t].view, i)
  BY <1>3, PreparedTwiceMade, PreparedTwiceStill DEF Made
<1>6. ASSUME NEW d, Still(b, d), \A i \in Items : InUse(d, i) => InUse(txn[t].view, i),
             txn' = [txn EXCEPT ![t].view = d]
      PROVE  QuietInv'
  <2>1. Adopted(t, d)
    <3>1. PICK N : N = {}
      OBVIOUS
    <3>2. /\ \A j \in Items : InUse(d, j) => InUse(txn[t].view, j) \/ j \in N
          /\ \A j \in N : ~InUse(db, j) /\ \A u \in open : ~InUse(txn[u].view, j)
      BY <1>6, <3>1
    <3>3. Still(txn[t].base, d)
      BY <1>2, <1>6
    <3> QED BY <1>1, <3>2, <3>3, AdoptedWith
  <2> QED BY <1>1, <1>6, <2>1, OperationQuiet
<1>7. ASSUME NEW c, Sound(c), Made(b, c), clock \in DOMAIN c.data, Still(b, c),
             \A i \in Items : InUse(c, i) => InUse(txn[t].view, i),
             NEW k \in Keys, Holding(c, k, clock) # {}
      PROVE  /\ Still(b, Moved(c, k, clock))
             /\ \A i \in Items : InUse(Moved(c, k, clock), i) => InUse(txn[t].view, i)
             /\ Still(b, Deleted(c, k, clock))
             /\ \A i \in Items : InUse(Deleted(c, k, clock), i) => InUse(txn[t].view, i)
  <2>1. Sound(Moved(c, k, clock)) /\ Sound(Deleted(c, k, clock))
    BY <1>7, MovedMade, DeletedMade DEF Made
  <2>2. /\ Still(b, Moved(c, k, clock))
        /\ \A i \in Items : InUse(Moved(c, k, clock), i) => InUse(c, i)
    BY <1>3, <1>7, <2>1, MovedStill
  <2>3. /\ Still(b, Deleted(c, k, clock))
        /\ \A i \in Items : InUse(Deleted(c, k, clock), i) => InUse(c, i)
    BY <1>3, <1>7, <2>1, DeletedStill
  <2> QED BY <1>7, <2>2, <2>3
<1>8. CASE Housekeep(t)
  <2>1. PICK c \in Housekept(t, txn[t].view) : txn' = [txn EXCEPT ![t].view = c]
    BY <1>8 DEF Housekeep
  <2>2. /\ Still(b, c)
        /\ \A i \in Items : InUse(c, i) => InUse(txn[t].view, i)
    BY <1>3, <2>1, HousekeptStill
  <2> QED BY <1>6, <2>1, <2>2
<1>9. ASSUME NEW k \in Keys, Get(t, k) PROVE QuietInv'
  <2>1. PICK c \in Prepared(t, txn[t].view) : txn' = [txn EXCEPT ![t].view = Looked(c, k, clock)]
    BY <1>9 DEF Get
  <2>2. /\ Sound(c) /\ Made(b, c) /\ clock \in DOMAIN c.data /\ Still(b, c)
        /\ \A i \in Items : InUse(c, i) => InUse(txn[t].view, i)
    BY <1>4
  <2>3. CASE Holding(c, k, clock) = {}
    <3>1. Looked(c, k, clock) = c
      BY <2>3 DEF Looked
    <3> QED BY <1>6, <2>1, <2>2, <3>1
  <2>4. CASE Holding(c, k, clock) # {}
    <3>1. Looked(c, k, clock) = Moved(c, k, clock)
      BY <2>4 DEF Looked
    <3>2. /\ Still(b, Moved(c, k, clock))
          /\ \A i \in Items : InUse(Moved(c, k, clock), i) => InUse(txn[t].view, i)
      BY <1>7, <2>2, <2>4
    <3> QED BY <1>6, <2>1, <3>1, <3>2
  <2> QED BY <2>3, <2>4
<1>10. ASSUME NEW k \in Keys, NewOrExisting(t, k) PROVE QuietInv'
  <2>1. CASE Existing(t, k)
    <3>1. PICK c \in Prepared(t, txn[t].view) :
             Holding(c, k, clock) # {} /\ txn' = [txn EXCEPT ![t].view = Moved(c, k, clock)]
      BY <2>1 DEF Existing
    <3>2. /\ Sound(c) /\ Made(b, c) /\ clock \in DOMAIN c.data /\ Still(b, c)
          /\ \A i \in Items : InUse(c, i) => InUse(txn[t].view, i)
      BY <1>4
    <3>3. /\ Still(b, Moved(c, k, clock))
          /\ \A i \in Items : InUse(Moved(c, k, clock), i) => InUse(txn[t].view, i)
      BY <1>7, <3>1, <3>2
    <3> QED BY <1>6, <3>1, <3>3
  <2>2. CASE Full(t, k)
    <3>1. PICK c \in PreparedTwice(t) : txn' = [txn EXCEPT ![t].view = c]
      BY <2>2 DEF Full
    <3> QED BY <1>5, <1>6, <3>1
  <2>3. CASE New(t, k)
    <3>1. PICK c \in PreparedTwice(t), i \in Unused :
             /\ Holding(c, k, clock) = {}
             /\ txn' = [txn EXCEPT ![t].view = Added(c, k, i, clock)]
      BY <2>3 DEF New
    <3>2. i \in Items /\ ~InUse(db, i) /\ \A u \in open : ~InUse(txn[u].view, i)
      BY UnusedIsNot
    <3>3. /\ Sound(c) /\ Made(b, c) /\ clock \in DOMAIN c.data /\ Still(b, c)
          /\ \A j \in Items : InUse(c, j) => InUse(txn[t].view, j)
      BY <1>5
    <3>4. ~InUse(c, i)
      BY <1>1, <3>2, <3>3
    <3>5. Sound(Added(c, k, i, clock))
      BY <3>2, <3>3, AddedMade DEF Made
    <3>6. /\ Still(b, Added(c, k, i, clock))
          /\ \A j \in Items : InUse(Added(c, k, i, clock), j) => InUse(c, j) \/ j = i
      BY <3>1, <3>2, <3>3, <3>4, <3>5, AddedStill
    <3>7. \A j \in Items : InUse(Added(c, k, i, clock), j) => InUse(txn[t].view, j) \/ j \in {i}
      BY <3>3, <3>6
    <3>8. \A j \in {i} : ~InUse(db, j) /\ \A u \in open : ~InUse(txn[u].view, j)
      BY <3>2
    <3>9. Adopted(t, Added(c, k, i, clock))
      BY <1>1, <1>2, <3>6, <3>7, <3>8, AdoptedWith
    <3> QED BY <1>1, <3>1, <3>9, OperationQuiet
  <2> QED BY <1>10, <2>1, <2>2, <2>3 DEF NewOrExisting
<1>11. ASSUME NEW k \in Keys, Delete(t, k) PROVE QuietInv'
  <2>1. PICK c \in PreparedTwice(t) :
           Holding(c, k, clock) # {} /\ txn' = [txn EXCEPT ![t].view = Deleted(c, k, clock)]
    BY <1>11 DEF Delete
  <2>2. /\ Sound(c) /\ Made(b, c) /\ clock \in DOMAIN c.data /\ Still(b, c)
        /\ \A i \in Items : InUse(c, i) => InUse(txn[t].view, i)
    BY <1>5
  <2>3. /\ Still(b, Deleted(c, k, clock))
        /\ \A i \in Items : InUse(Deleted(c, k, clock), i) => InUse(txn[t].view, i)
    BY <1>7, <2>1, <2>2
  <2> QED BY <1>6, <2>1, <2>3
<1> QED BY <1>8, <1>9, <1>10, <1>11

LEMMA EndQuiet ==
    ASSUME TInv, BucketInv, SessionInv, QuietInv, ~spanned, BucketInv',
           NEW t \in Threads, Commit(t) \/ Abort(t)
    PROVE  QuietInv'
<1>1. End(t) /\ t \in open /\ clock' = clock
  BY DEF Commit, Abort, End
<1>2. open' = open \ {t} /\ \A u \in open' : txn'[u] = txn[u]
  BY <1>1, EndKeeps
<1>3. PICK d : /\ d = db' /\ Quiet(d)
               /\ \A u \in open \ {t} : /\ Heir(txn[u].base, d)
                                        /\ Apart(txn[u].base, txn[u].view, d)
  <2>1. CASE Abort(t)
    <3>1. db' = db
      BY <2>1 DEF Abort
    <3> QED BY <3>1 DEF QuietInv
  <2>2. CASE Commit(t)
    <3>1. PICK o, v, n : o = txn[t].base /\ v = db /\ n = txn[t].view
      OBVIOUS
    <3>2. db' = Merged(o, v, n) /\ ~Conflict(t) /\ txn[t].since = clock
      BY <1>1, <2>2, <3>1 DEF Commit, QuietInv
    <3>3. Mergeable(o, v, n, clock)
      BY <1>1, <3>1, <3>2, CommitIsMergeable
    <3>4. Rivals(o, v, n)
      BY <1>1, <3>1, <3>3 DEF Rivals, QuietInv
    <3>5. Sound(Merged(o, v, n))
      BY <1>1, <3>2 DEF BucketInv, Sound
    <3>6. PICK m : m = Merged(o, v, n)
      OBVIOUS
    <3>7. Quiet(m) /\ Heir(v, m) /\ Sound(m)
      BY <3>4, <3>5, <3>6, MergedQuiet, MergedHeir
    <3>8. /\ v.fin <= m.fin /\ m.told = v.told \cup n.told
          /\ m.removed = v.removed \cup n.removed
      BY <3>3, <3>6, MergedFields
    <3>9. ASSUME NEW i \in Items, InUse(m, i) PROVE InUse(v, i) \/ InUse(n, i)
      <4>1. MergedPlaces(o, v, n, m)
        BY <3>3, <3>6, MergedAt DEF MergedPlaces
      <4> QED BY <3>8, <3>9, <4>1 DEF InUse, MergedPlaces
    <3>10. ASSUME NEW u \in open \ {t}
           PROVE  Heir(txn[u].base, m) /\ Apart(txn[u].base, txn[u].view, m)
      <4>1. /\ Sound(txn[u].base) /\ Sound(v) /\ Tidy(v) /\ Heir(txn[u].base, v)
            /\ Apart(txn[u].base, txn[u].view, v) /\ Apart(txn[u].base, txn[u].view, n)
        BY <1>1, <3>1 DEF BucketInv, SessionInv, QuietInv
      <4>2. Heir(txn[u].base, m)
        BY <3>7, <3>8, <4>1, HeirTwice
      <4>3. Apart(txn[u].base, txn[u].view, m)
        BY <3>9, <4>1 DEF Apart
      <4> QED BY <4>2, <4>3
    <3> QED BY <3>2, <3>6, <3>7, <3>10
  <2> QED BY <2>1, <2>2
<1>4. Quiet(db)'
  <2>1. Quiet(d)'
    BY <1>1, <1>3, SameSlice
  <2> QED BY <1>1, <1>3, <2>1 DEF Quiet, OneFound, OnePlace, Gone, Exact, Live, Searched
<1>5. ASSUME NEW u \in open'
      PROVE  (/\ txn[u].since = clock
              /\ Tidy(txn[u].base) /\ Quiet(txn[u].base) /\ Quiet(txn[u].view)
              /\ Heir(txn[u].base, txn[u].view) /\ Heir(txn[u].base, db)
              /\ Apart(txn[u].base, txn[u].view, db)
              /\ \A x \in open \ {u} : Apart(txn[u].base, txn[u].view, txn[x].view))'
  <2>1. PICK b, v : b = txn[u].base /\ v = txn[u].view
    OBVIOUS
  <2>2. u \in open \ {t} /\ b = txn'[u].base /\ v = txn'[u].view /\ txn'[u].since = clock'
    BY <1>1, <1>2, <2>1 DEF QuietInv
  <2>3. /\ Tidy(b) /\ Quiet(b) /\ Heir(b, d) /\ Quiet(v) /\ Heir(b, v) /\ Apart(b, v, d)
    BY <1>3, <2>1, <2>2 DEF QuietInv
  <2>4. ASSUME NEW x \in open' \ {u} PROVE Apart(b, v, txn'[x].view)
    <3>1. x \in open /\ x # u /\ txn'[x] = txn[x]
      BY <1>2
    <3> QED BY <2>1, <2>2, <3>1 DEF QuietInv
  <2>5. Tidy(b)' /\ Quiet(b)' /\ Quiet(v)' /\ Heir(b, d)' /\ Heir(b, v)'
    BY <1>1, <2>3, SameSlice
  <2>6. Apart(b, v, d)' /\ \A x \in open' \ {u} : Apart(b, v, txn[x].view)'
    BY <2>3, <2>4 DEF Apart, InUse, At
  <2> QED BY <1>3, <2>2, <2>5, <2>6
<1> QED BY <1>4, <1>5 DEF QuietInv

LEMMA BeginQuiet ==
    ASSUME TInv, BucketInv, SessionInv, QuietInv, ~spanned, NEW t \in Threads, Begin(t)
    PROVE  QuietInv'
<1> DEFINE new == [base |-> db, view |-> db, since |-> clock]
<1>1. clock' = clock /\ db' = db /\ open' = open \cup {t} /\ t \notin open
  BY DEF Begin, open
<1>2. ASSUME NEW u \in open' PROVE txn'[u] = IF u = t THEN new ELSE txn[u]
  BY <1>1, <1>2 DEF Begin
<1>3. PICK d : d = db
  OBVIOUS
<1>4. Quiet(d) /\ Tidy(d)
  BY <1>3 DEF QuietInv, SessionInv
<1>5. Heir(d, d)
  BY DEF Heir, Fresh, Steady, Moves, Tells, Counts, Uses
<1>6. Apart(d, d, d)
  BY DEF Apart
<1>7. Quiet(db)'
  <2>1. Quiet(d)'
    BY <1>1, <1>4, SameSlice
  <2> QED BY <1>1, <1>3, <2>1 DEF Quiet, OneFound, OnePlace, Gone, Exact, Live, Searched
<1>8. ASSUME NEW u \in open'
      PROVE  (/\ txn[u].since = clock
              /\ Tidy(txn[u].base) /\ Quiet(txn[u].base) /\ Quiet(txn[u].view)
              /\ Heir(txn[u].base, txn[u].view) /\ Heir(txn[u].base, db)
              /\ Apart(txn[u].base, txn[u].view, db)
              /\ \A x \in open \ {u} : Apart(txn[u].base, txn[u].view, txn[x].view))'
  <2>1. PICK b, v : b = txn'[u].base /\ v = txn'[u].view
    OBVIOUS
  <2>2. CASE u = t
    <3>1. b = d /\ v = d /\ txn'[u].since = clock'
      BY <1>1, <1>2, <1>3, <2>1, <2>2
    <3>2. \A x \in open' \ {u} : Apart(b, v, txn'[x].view)
      BY <3>1 DEF Apart
    <3>3. Tidy(b)' /\ Quiet(b)' /\ Quiet(v)' /\ Heir(b, d)' /\ Heir(b, v)'
      BY <1>1, <1>4, <1>5, <3>1, SameSlice
    <3>4. Apart(b, v, d)' /\ \A x \in open' \ {u} : Apart(b, v, txn[x].view)'
      BY <1>6, <3>1, <3>2 DEF Apart, InUse, At
    <3> QED BY <1>1, <1>3, <2>1, <3>1, <3>3, <3>4
  <2>3. CASE u # t
    <3>1. u \in open /\ b = txn[u].base /\ v = txn[u].view /\ txn'[u].since = clock'
      BY <1>1, <1>2, <2>1, <2>3 DEF QuietInv
    <3>2. /\ Tidy(b) /\ Quiet(b) /\ Heir(b, d) /\ Quiet(v) /\ Heir(b, v) /\ Apart(b, v, d)
      BY <1>3, <3>1 DEF QuietInv
    <3>3. ASSUME NEW x \in open' \ {u} PROVE Apart(b, v, txn'[x].view)
      <4>1. CASE x = t
        <5>1. txn'[x].view = d
          BY <1>2, <1>3, <4>1
        <5> QED BY <3>2, <5>1
      <4>2. CASE x # t
        <5>1. x \in open /\ txn'[x] = txn[x]
          BY <1>1, <1>2, <4>2
        <5> QED BY <3>1, <5>1 DEF QuietInv
      <4> QED BY <4>1, <4>2
    <3>4. Tidy(b)' /\ Quiet(b)' /\ Quiet(v)' /\ Heir(b, d)' /\ Heir(b, v)'
      BY <1>1, <3>2, SameSlice
    <3>5. Apart(b, v, d)' /\ \A x \in open' \ {u} : Apart(b, v, txn[x].view)'
      BY <3>2, <3>3 DEF Apart, InUse, At
    <3> QED BY <1>1, <1>3, <2>1, <3>1, <3>4, <3>5
  <2> QED BY <2>2, <2>3
<1> QED BY <1>7, <1>8 DEF QuietInv

\* In the next slice less is searched, and nothing more has to be counted.
LEMMA QuietLater ==
    ASSUME TInv, clock' = clock + 1, NEW c, Sound(c), Filled(c, clock), Quiet(c)
    PROVE  Quiet(c)'
<1>1. clock \in Nat /\ TimeoutSlices \in Nat /\ Slices \subseteq Nat /\ c.fin \in Int
  BY Numbers, SoundFields
<1>2. \A s \in Slices : Searched(s)' => Searched(s)
  BY <1>1 DEF Searched
<1>3. OneFound(c)' /\ OnePlace(c)' /\ Gone(c)'
  BY <1>2 DEF Quiet, OneFound, OnePlace, Gone
<1>4. Exact(c)'
  <2> DEFINE S == c.fin + 1 .. clock
             R == c.fin + 1 .. clock + 1
  <2>1. ASSUME NEW s \in Slices, NEW k \in Keys, NEW i \in Items
        PROVE  s \in S /\ At(c, s, k, i) <=> s \in R /\ At(c, s, k, i)
    <3>1. At(c, s, k, i) => s <= clock
      BY DEF Filled
    <3>2. s \in Nat
      BY <1>1
    <3> QED BY <1>1, <3>1, <3>2
  <2> HIDE DEF S, R
  <2>2. Entries(c, S) = Entries(c, R)
    BY <2>1, SameEntries
  <2>3. Live(c)' = Live(c)
    <3>1. Live(c)' = Entries(c, c.fin + 1 .. clock + 1)
      BY DEF Live
    <3> QED BY <2>2, <3>1 DEF Live, S, R
  <2> QED BY <2>3 DEF Quiet, Exact
<1> QED BY <1>3, <1>4 DEF Quiet

LEMMA TickQuiet ==
    ASSUME TInv, BucketInv, SessionInv, QuietInv, Tick
    PROVE  QuietInv'
<1>1. clock' = clock + 1 /\ db' = db /\ open' = open
  BY DEF Tick, open
<1> SUFFICES ASSUME ~spanned' PROVE QuietInv'
  BY DEF QuietInv
<1>2. ~spanned /\ open = {}
  BY Zenon DEF Tick
<1>3. PICK d : d = db
  OBVIOUS
<1>4. Quiet(d)'
  BY <1>1, <1>2, <1>3, QuietLater DEF QuietInv, SessionInv, BucketInv
<1>5. Quiet(db)'
  BY <1>1, <1>3, <1>4 DEF Quiet, OneFound, OnePlace, Gone, Exact, Live, Searched
<1> QED BY <1>1, <1>2, <1>5 DEF QuietInv

LEMMA StutteringQuiet ==
    ASSUME QuietInv, UNCHANGED vars
    PROVE  QuietInv'
<1>1. /\ clock' = clock /\ db' = db /\ txn' = txn /\ open' = open /\ spanned' = spanned
  BY DEF vars, open
<1> QED BY <1>1 DEF QuietInv, Tidy, Quiet, OneFound, OnePlace, Gone, Exact, Live, Searched, Heir,
           Fresh, Steady, Moves, Found, Tells, Counts, Expired, Uses

QInv == SInv /\ QuietInv

LEMMA SlicesAreQuiet == Spec => []QInv
<1>1. Init /\ SInv => QuietInv
  BY InitQuiet DEF SInv
<1>2. SInv /\ SInv' /\ QuietInv /\ [Next]_vars => QuietInv'
  <2> SUFFICES ASSUME TInv, BucketInv, SessionInv, BucketInv', QuietInv, [Next]_vars
               PROVE  QuietInv'
    BY DEF SInv
  <2>1. CASE Tick
    BY <2>1, TickQuiet
  <2>2. CASE UNCHANGED vars
    BY <2>2, StutteringQuiet
  <2>3. ASSUME NEW t \in Threads,
               \/ Begin(t) \/ Commit(t) \/ Abort(t) \/ Housekeep(t)
               \/ \E k \in Keys : Get(t, k) \/ NewOrExisting(t, k) \/ Delete(t, k)
        PROVE  QuietInv'
    <3>1. spanned' = spanned
      BY <2>3 DEF Begin, Commit, Abort, End, Housekeep, Get, NewOrExisting, Delete, Operate
    <3>2. CASE spanned
      BY <3>1, <3>2 DEF QuietInv
    <3>3. CASE ~spanned
      BY <2>3, <3>3, BeginQuiet, EndQuiet, OperationsQuiet
    <3> QED BY <3>2, <3>3
  <2> QED BY <2>1, <2>2, <2>3 DEF Next
<1>3. QInv <=> SInv /\ QuietInv
  BY DEF QInv
<1> QED BY <1>1, <1>2, <1>3, SessionsHold, PTL DEF Spec

\* The number that the limit is compared with is that of the sessions in buckets
\* that are not finalized, whatever increments, decrements and finalizations were
\* merged, while no transaction is open when the slice changes.
THEOREM LengthCounts == Spec => []LengthIsExact
<1>1. QInv => LengthIsExact
  <2> SUFFICES ASSUME TInv, BucketInv, SessionInv, QuietInv, ~spanned
               PROVE  Length(db) = Cardinality({e \in Entries(db, DOMAIN db.data) : e[1] > db.fin})
    BY DEF QInv, SInv, LengthIsExact
  <2>1. Length(db) = Cardinality(Live(db))
    BY DEF QuietInv, Quiet, Exact
  <2>2. ASSUME NEW e
        PROVE  e \in Live(db) <=> e \in Entries(db, DOMAIN db.data) /\ e[1] > db.fin
    <3>1. /\ Sound(db) /\ Filled(db, clock) /\ db.fin \in Int /\ clock \in Nat
          /\ Slices \subseteq Nat
      BY SoundFields, Numbers DEF BucketInv, SessionInv
    <3>2. /\ e \in Live(db) <=> /\ e \in Slices \X Keys /\ e[1] \in db.fin + 1 .. clock
                                /\ \E i \in Items : At(db, e[1], e[2], i)
          /\ e \in Entries(db, DOMAIN db.data) <=>
                                /\ e \in Slices \X Keys /\ e[1] \in DOMAIN db.data
                                /\ \E i \in Items : At(db, e[1], e[2], i)
      BY <3>1, EntriesAt DEF Live
    <3>3. ASSUME e \in Slices \X Keys, NEW i \in Items, At(db, e[1], e[2], i)
          PROVE  /\ e[1] \in DOMAIN db.data
                 /\ e[1] \in db.fin + 1 .. clock <=> e[1] > db.fin
      <4>1. e[1] \in Slices /\ e[2] \in Keys /\ e[1] \in Nat
        BY <3>1, <3>3
      <4>2. e[1] <= clock
        BY <3>1, <3>3, <4>1 DEF Filled
      <4>3. e[1] \in DOMAIN db.data
        BY <3>3 DEF At
      <4> QED BY <3>1, <4>1, <4>2, <4>3
    <3> QED BY <3>2, <3>3
  <2>3. Live(db) = {e \in Entries(db, DOMAIN db.data) : e[1] > db.fin}
    BY <2>2
  <2> QED BY <2>1, <2>3
<1> QED BY <1>1, SlicesAreQuiet, PTL

\* A session that was passed to notifyDel is not found again, while no transaction
\* is open when the slice changes.
THEOREM ToldCannotBeFound == Spec => []ToldAreGone
<1>1. QInv => ToldAreGone
  <2> SUFFICES ASSUME TInv, BucketInv, SessionInv, QuietInv, ~spanned, NEW k \in Keys
               PROVE  Current(db, k, clock) \notin db.told
    BY DEF QInv, SInv, ToldAreGone
  <2>1. Sound(db) /\ db.told \subseteq Items /\ NoItem \notin Items
    BY SoundFields, Numbers DEF BucketInv
  <2>2. CASE Holding(db, k, clock) = {}
    <3>1. Current(db, k, clock) = NoItem
      BY <2>2 DEF Current
    <3> QED BY <2>1, <3>1
  <2>3. CASE Holding(db, k, clock) # {}
    <3> DEFINE s == Max(Holding(db, k, clock))
               i == db.data[s][k]
    <3>1. Newest(db, k, s, i)
      BY <2>1, <2>3, HoldingAt
    <3>2. Current(db, k, clock) = i
      BY <2>3 DEF Current
    <3> HIDE DEF s, i
    <3>3. At(db, s, k, i) /\ Searched(s) /\ s \in Slices /\ i \in Items
      BY <2>1, <3>1, Numbers DEF Newest, Searched
    <3> QED BY <3>2, <3>3 DEF QuietInv, Quiet, Gone
  <2> QED BY <2>2, <2>3
<1> QED BY <1>1, SlicesAreQuiet, PTL

\* A key has one session that can be found: what new_or_existing finds is what
\* there is, whoever moved it to which bucket, while no transaction is open when
\* the slice changes.
THEOREM KeyHasOneSession == Spec => []OneSession
<1>1. QInv => OneSession
  <2> SUFFICES ASSUME TInv, BucketInv, SessionInv, QuietInv, ~spanned, NEW k \in Keys
               PROVE  Cardinality({s \in clock - TimeoutSlices .. clock :
                         s \in DOMAIN db.data /\ db.data[s][k] # NoItem}) <= 1
    BY DEF QInv, SInv, OneSession
  <2> DEFINE S == {s \in clock - TimeoutSlices .. clock :
                     s \in DOMAIN db.data /\ db.data[s][k] # NoItem}
  <2>1. Sound(db) /\ clock \in Nat /\ TimeoutSlices \in Nat
    BY Numbers DEF BucketInv
  <2>2. ASSUME NEW r \in S, NEW s \in S PROVE r = s
    <3>1. ASSUME NEW x \in S
          PROVE  x \in Slices /\ Searched(x) /\ \E i \in Items : At(db, x, k, i)
      <4>1. x \in DOMAIN db.data /\ db.data[x][k] # NoItem /\ x >= clock - TimeoutSlices
        BY <2>1
      <4>2. x \in Slices /\ db.data[x][k] \in Items
        BY <2>1, <4>1, SoundFields
      <4> QED BY <4>1, <4>2 DEF At, Searched
    <3> HIDE DEF S
    <3>2. PICK i \in Items, j \in Items : At(db, r, k, i) /\ At(db, s, k, j)
      BY <3>1
    <3> QED BY <3>1, <3>2 DEF QuietInv, Quiet, OneFound
  <2> HIDE DEF S
  <2>3. CASE S = {}
    <3>1. Cardinality(S) = 0
      BY <2>3, FS_EmptySet
    <3> QED BY <3>1 DEF S
  <2>4. CASE S # {}
    <3>1. PICK s \in S : S = {s}
      BY <2>2, <2>4
    <3>2. Cardinality({s}) = 1
      BY FS_Singleton
    <3>3. Cardinality(S) = 1
      BY <3>1, <3>2
    <3> QED BY <3>3 DEF S
  <2> QED BY <2>3, <2>4
<1> QED BY <1>1, SlicesAreQuiet, PTL
=============================================================================
