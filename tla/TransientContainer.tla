------------------------- MODULE TransientContainer -------------------------
(***************************************************************************)
(* The container of the sessions, Products/Transience/Transience.py:       *)
(* buckets of transient objects, one per slice of time; an object moves to *)
(* the bucket of the present when it is looked up, and is finalized and    *)
(* thrown away with its bucket when it has not been for the timeout.       *)
(*                                                                         *)
(* Requests work on the container as it was when their transaction began;  *)
(* the database merges what concurrent ones made of its BTrees, its        *)
(* Increasers and its Length2, or refuses the commit.  Time is counted in  *)
(* slices.                                                                 *)
(***************************************************************************)
EXTENDS Integers, FiniteSets, FiniteSetsExt

CONSTANTS Threads,        \* the threads of the server, or of several
          Keys,           \* browser ids
          Items,          \* the transient objects that are ever made
          KeyOf,          \* the key each of them is made for
          TimeoutSlices,  \* _timeout_slices
          SpareBuckets,   \* SPARE_BUCKETS
          Limit,          \* _limit, 0 for none
          StartTime,      \* when the clock starts
          MadeAt,         \* when the container may have been made, idle since
          MaxTime,        \* where the clock stops: a bound of the model
          MaxOps,         \* operations: a bound of the model
          MaxSpan,        \* slices a transaction lasts: a bound of the model
          NoItem          \* no object

ASSUME ContainerAssumption ==
    /\ IsFiniteSet(Keys) /\ KeyOf \in [Items -> Keys] /\ NoItem \notin Items
    /\ TimeoutSlices \in Nat \ {0} /\ SpareBuckets \in Nat \ {0}
    /\ Limit \in Nat /\ MaxOps \in Nat /\ MaxSpan \in Nat /\ 2 * MaxSpan <= TimeoutSlices
    /\ StartTime \in Nat /\ MadeAt \subseteq 0 .. StartTime /\ MaxTime \in Nat /\ StartTime <= MaxTime

VARIABLES
    clock,    \* the present slice
    inband,   \* _inband_housekeeping
    db,       \* the container, as committed
    txn,      \* the open transactions by thread: the container as each found
              \* it, as it has made it, and when it began
    ops,      \* how many operations there were
    spanned   \* some transaction was open while the slice changed

vars == <<clock, inband, db, txn, ops, spanned>>

open == DOMAIN txn

\* A container is a record of
\*   data     _data, the buckets by slice; a bucket has an object or none by key
\*   max      _max_timeslice
\*   fin      _last_finalized_timeslice
\*   gc       _last_gc_timeslice
\*   ceiling, floor   of _length, whose value is their difference
\*   told, removed    the objects passed to notifyDel, and those deleted

EmptyBucket == [k \in Keys |-> NoItem]
Length(c) == c.ceiling - c.floor

\* _reset
NewContainer(now) ==
    [data |-> [s \in now .. now + 2 * SpareBuckets - 1 |-> EmptyBucket],
     max |-> now + 2 * SpareBuckets - 1, fin |-> -1, gc |-> -1,
     ceiling |-> 0, floor |-> 0, told |-> {}, removed |-> {}]

Init ==
    /\ clock = StartTime
    /\ inband \in BOOLEAN
    /\ \E made \in MadeAt : db = NewContainer(made)
    /\ txn = [t \in {} |-> db]
    /\ ops = 0 /\ spanned = FALSE

-----------------------------------------------------------------------------
(* Housekeeping *)

Entries(c, slices) ==
    {e \in (DOMAIN c.data \cap slices) \X Keys : c.data[e[1]][e[2]] # NoItem}

ItemsIn(c, slices) == {c.data[e[1]][e[2]] : e \in Entries(c, slices)}

\* Mutated: the oldest slice that is still searched counts as expired.
ExpiredEarly(now) == now - TimeoutSlices

\* _get_max_expired_ts
MaxExpired(now) == now - (TimeoutSlices + 1)

\* _finalize and _do_finalize_work
Finalized(c, now) ==
    LET expired == c.fin + 1 .. MaxExpired(now)
    IN  IF c.fin + 1 >= MaxExpired(now) THEN c
        ELSE [c EXCEPT !.fin = MaxExpired(now),
                       !.floor = @ + Cardinality(Entries(c, expired)),
                       !.told = @ \cup ItemsIn(c, expired)]

Extended(c, slices) ==
    [c EXCEPT !.data = [s \in DOMAIN c.data \cup slices |->
                           IF s \in slices THEN EmptyBucket ELSE c.data[s]],
              !.max = Max(slices)]

\* Mutated: new buckets always follow the last one.
AlwaysAfterMax(c, now) ==
    IF c.max - now >= SpareBuckets THEN c
    ELSE Extended(c, c.max + 1 .. c.max + SpareBuckets)

\* _do_replentish_work
Replentished(c, now) ==
    IF c.max - now >= SpareBuckets THEN c
    ELSE IF c.max < now THEN Extended(c, now .. now + SpareBuckets - 1)
    ELSE Extended(c, c.max + 1 .. c.max + SpareBuckets)

\* Mutated: what has expired is collected, finalized or not.
CollectExpired(c, now) ==
    [c EXCEPT !.data = [s \in {x \in DOMAIN c.data : x > MaxExpired(now)} |-> c.data[s]],
              !.gc = now]

\* _do_gc_work
Collected(c, now) ==
    [c EXCEPT !.data = [s \in {x \in DOMAIN c.data : x > c.fin} |-> c.data[s]],
              !.gc = now]

\* round(SPARE_BUCKETS / 2.0)
GcEvery == (SpareBuckets + 1) \div 2

\* _in_emergency_bucket_shortage
Shortage(c) == c.max <= clock

\* The locks are tried without waiting: another thread may hold them.
MayFail(t) == open # {t}

Finalizes(t, c) == {Finalized(c, clock)} \cup (IF MayFail(t) THEN {c} ELSE {})

\* Needed, or optional and then by chance; the chance is 1 with one spare left.
Replentishes(t, c) ==
    {Replentished(c, clock)}
        \cup (IF ~Shortage(c) /\ (MayFail(t) \/ c.max > clock + 1) THEN {c} ELSE {})

\* One call in five.
Collects(c) ==
    {c} \cup (IF clock - c.gc >= GcEvery THEN {Collected(c, clock)} ELSE {})

\* _housekeep
Housekept(t, c) ==
    UNION {UNION {Collects(r) : r \in Replentishes(t, f)} : f \in Finalizes(t, c)}

\* What _move_item does first.
Prepared(t, c) ==
    IF inband THEN Housekept(t, c)
    ELSE IF Shortage(c) THEN {Replentished(c, clock)}
    ELSE {c}

\* new and new_or_existing, has_key and __delitem__: two calls of _move_item.
PreparedTwice(t) == UNION {Prepared(t, c) : c \in Prepared(t, txn[t].view)}

-----------------------------------------------------------------------------
(* Operations *)

\* _getCurrentSlices
CurrentSlices(now) == now - TimeoutSlices .. now

\* The slices where k is found; the newest counts.
Holding(c, k, now) == {s \in CurrentSlices(now) \cap DOMAIN c.data : c.data[s][k] # NoItem}

Current(c, k, now) ==
    IF Holding(c, k, now) = {} THEN NoItem ELSE c.data[Max(Holding(c, k, now))][k]

Put(c, s, k, i) == [c EXCEPT !.data[s][k] = i]

\* Mutated: the object stays in the bucket it was found in.
Copied(c, k, now) == Put(c, now, k, Current(c, k, now))

\* The rest of _move_item, for a key that is found: to the current bucket.
Moved(c, k, now) ==
    LET s == Max(Holding(c, k, now))
    IN  Put(Put(c, s, k, NoItem), now, k, c.data[s][k])

Looked(c, k, now) == IF Holding(c, k, now) = {} THEN c ELSE Moved(c, k, now)

Operate(t) ==
    /\ t \in open /\ ops < MaxOps
    /\ ops' = ops + 1
    /\ UNCHANGED <<clock, inband, db, spanned>>

\* get, __getitem__, has_key
Get(t, k) ==
    /\ Operate(t)
    /\ \E c \in Prepared(t, txn[t].view) : txn' = [txn EXCEPT ![t].view = Looked(c, k, clock)]

Unused == Items \ ((ItemsIn(db, DOMAIN db.data) \cup db.told \cup db.removed)
                     \cup UNION {ItemsIn(txn[t].view, DOMAIN txn[t].view.data) \cup txn[t].view.told
                                    \cup txn[t].view.removed : t \in open})

\* __setitem__ of a key that is not there
Added(c, k, i, now) == [Put(c, now, k, i) EXCEPT !.ceiling = @ + 1]

\* new_or_existing of a key that is there
Existing(t, k) ==
    \E c \in Prepared(t, txn[t].view) :
        /\ Holding(c, k, clock) # {}
        /\ txn' = [txn EXCEPT ![t].view = Moved(c, k, clock)]

\* MaxTransientObjectsExceeded, to a caller that goes on
Full(t, k) ==
    \E c \in PreparedTwice(t) :
        /\ Holding(c, k, clock) = {} /\ Limit > 0 /\ Length(c) >= Limit
        /\ txn' = [txn EXCEPT ![t].view = c]

New(t, k) ==
    \E c \in PreparedTwice(t), i \in Unused :
        /\ Holding(c, k, clock) = {} /\ (Limit = 0 \/ Length(c) < Limit)
        /\ KeyOf[i] = k
        /\ txn' = [txn EXCEPT ![t].view = Added(c, k, i, clock)]

\* new_or_existing and new
NewOrExisting(t, k) == Operate(t) /\ (Existing(t, k) \/ Full(t, k) \/ New(t, k))

\* __delitem__ of a key that was found
Deleted(c, k, now) ==
    LET m == Moved(c, k, now)
    IN  [Put(m, now, k, NoItem) EXCEPT !.ceiling = @ - 1,
                                       !.removed = @ \cup {m.data[now][k]}]

\* TransientObject.invalidate
Delete(t, k) ==
    /\ Operate(t)
    /\ \E c \in PreparedTwice(t) :
         /\ Holding(c, k, clock) # {}
         /\ txn' = [txn EXCEPT ![t].view = Deleted(c, k, clock)]

\* housekeep, for a scheduler; keys, items and values do the same in band.
Housekeep(t) ==
    /\ Operate(t)
    /\ \E c \in Housekept(t, txn[t].view) : txn' = [txn EXCEPT ![t].view = c]

-----------------------------------------------------------------------------
(* Transactions *)

Begin(t) ==
    /\ t \notin open /\ ops < MaxOps
    /\ txn' = [x \in open \cup {t} |->
                IF x = t THEN [base |-> db, view |-> db, since |-> clock]
                ELSE txn[x]]
    /\ UNCHANGED <<clock, inband, db, ops, spanned>>

SlicesChanged(old, new) ==
    (DOMAIN new.data \ DOMAIN old.data) \cup (DOMAIN old.data \ DOMAIN new.data)

EntriesChanged(old, new) ==
    {e \in (DOMAIN old.data \cap DOMAIN new.data) \X Keys :
        old.data[e[1]][e[2]] # new.data[e[1]][e[2]]}

\* Two transactions changed the same slice of _data, or the same key of a bucket.
Conflict(t) ==
    \/ SlicesChanged(txn[t].base, db) \cap SlicesChanged(txn[t].base, txn[t].view) # {}
    \/ EntriesChanged(txn[t].base, db) \cap EntriesChanged(txn[t].base, txn[t].view) # {}

\* What BTrees make of two changed versions.
MergedData(old, saved, new) ==
    [s \in (DOMAIN saved.data \ (DOMAIN old.data \ DOMAIN new.data))
               \cup (DOMAIN new.data \ DOMAIN old.data) |->
        IF s \notin DOMAIN saved.data THEN new.data[s]
        ELSE [k \in Keys |->
                IF <<s, k>> \in EntriesChanged(old, new) THEN new.data[s][k]
                ELSE saved.data[s][k]]]

\* Increaser._p_resolveConflict
Greatest(old, saved, new) == Max({old, saved, new})

\* Mutated: decrements add up like increments.
FloorsAdd(old, saved, new) == saved + new - old

\* Length2._p_resolveConflict
Floor(old, saved, new) == Max({old, saved, new})

Ceiling(old, saved, new) == saved + new - old

Merged(old, saved, new) ==
    [data |-> MergedData(old, saved, new),
     max |-> Greatest(old.max, saved.max, new.max),
     fin |-> Greatest(old.fin, saved.fin, new.fin),
     gc |-> Greatest(old.gc, saved.gc, new.gc),
     ceiling |-> Ceiling(old.ceiling, saved.ceiling, new.ceiling),
     floor |-> Floor(old.floor, saved.floor, new.floor),
     told |-> saved.told \cup new.told,
     removed |-> saved.removed \cup new.removed]

End(t) ==
    /\ t \in open
    /\ txn' = [x \in open \ {t} |-> txn[x]]
    /\ UNCHANGED <<clock, inband, ops, spanned>>

Commit(t) ==
    /\ End(t) /\ ~Conflict(t)
    /\ db' = Merged(txn[t].base, db, txn[t].view)

\* The request raises, or its commit conflicts.
Abort(t) == End(t) /\ UNCHANGED db

\* The slice changes.
Tick ==
    /\ clock < MaxTime
    /\ \A t \in open : clock + 1 - txn[t].since <= MaxSpan
    /\ clock' = clock + 1
    /\ spanned' = (spanned \/ open # {})
    /\ UNCHANGED <<inband, db, txn, ops>>

Next ==
    \/ Tick
    \/ \E t \in Threads :
         \/ Begin(t) \/ Commit(t) \/ Abort(t) \/ Housekeep(t)
         \/ \E k \in Keys : Get(t, k) \/ NewOrExisting(t, k) \/ Delete(t, k)

Spec == Init /\ [][Next]_vars

-----------------------------------------------------------------------------
(* Properties *)

Containers == {db} \cup {txn[t].view : t \in open}

\* Every field keeps its type, and there is never a bucket for more than twice
\* SPARE_BUCKETS slices: replenishing does not feed itself.
TypeOK ==
    /\ clock \in StartTime .. MaxTime /\ inband \in BOOLEAN /\ spanned \in BOOLEAN
    /\ open \subseteq Threads /\ ops \in 0 .. MaxOps
    /\ \A t \in open : txn[t].since \in StartTime .. clock
    /\ \A c \in Containers :
         /\ DOMAIN c.data \subseteq 0 .. clock + 2 * SpareBuckets - 1
         /\ \A s \in DOMAIN c.data : c.data[s] \in [Keys -> Items \cup {NoItem}]
         /\ {c.max, c.fin, c.gc, c.ceiling, c.floor} \subseteq Int
         /\ c.told \subseteq Items /\ c.removed \subseteq Items

\* "A current bucket must always exist (this is an invariant)"
\* (HowTransienceWorks.stx:45): whatever transactions added and collected, and
\* however their changes were merged, _move_item has a bucket for the present
\* slice when it starts to search, and _max_timeslice is the last one.
CurrentBucket ==
    /\ \A t \in open : \A c \in Prepared(t, txn[t].view) : clock \in DOMAIN c.data
    /\ \A c \in Containers : clock .. c.max \subseteq DOMAIN c.data /\ c.max \in DOMAIN c.data

\* No session is lost silently: one that leaves the container was passed to
\* notifyDel or deleted, whatever commits were merged.
NothingVanishes ==
    [][ItemsIn(db, DOMAIN db.data)
         \subseteq ItemsIn(db', DOMAIN db'.data) \cup db'.told \cup db'.removed]_vars

\* "The number of current transient objects" that the limit is compared with
\* (Transience.py:244-249) counts those in buckets that are not finalized, if no
\* transaction is open while the slice changes.
LengthIsExact ==
    ~spanned => Length(db) = Cardinality({e \in Entries(db, DOMAIN db.data) : e[1] > db.fin})

\* Only a session that can no longer be found is passed to notifyDel, if no
\* transaction is open while the slice changes.
ToldAreGone ==
    ~spanned => \A k \in Keys : Current(db, k, clock) \notin db.told

\* A key has one session among those not older than the timeout: new_or_existing
\* finds the one there is, in whichever bucket, if no transaction is open while
\* the slice changes.
OneSession ==
    ~spanned => \A k \in Keys :
        Cardinality({s \in clock - TimeoutSlices .. clock :
                        s \in DOMAIN db.data /\ db.data[s][k] # NoItem}) <= 1

\* notifyDel is called with "the transient object being destroyed"
\* (TransienceInterfaces.py:331): a session it was called with is not found again.
DestroyedOnce == \A k \in Keys : Current(db, k, clock) \notin db.told
=============================================================================
