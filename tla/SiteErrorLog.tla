---------------------------- MODULE SiteErrorLog -----------------------------
(***************************************************************************)
(* The ring of recent errors, and the rate at which errors of one name are *)
(* copied to the event log (Products/SiteErrorLog/SiteErrorLog.py).  Both  *)
(* are shared by the threads of the process.  An entry is a number, in the *)
(* order of appending.                                                     *)
(***************************************************************************)
EXTENDS Integers, Sequences, FiniteSets, SequencesExt

CONSTANTS Threads,
          Sizes,                \* values of keep_entries
          Period, Burst,        \* _rate_restrict_period and _rate_restrict_burst
          MaxEntries, MaxTime   \* bounds of the model

Start == 2 * Burst * Period   \* the clock when the process starts is far from 0

VARIABLES
    log,         \* temp_logs[oid]
    keep,        \* keep_entries
    when,        \* _rate_restrict_pool[strtype]
    now,         \* the clock
    at,          \* thread -> what it does in raising, with its entry
    appended,    \* entries so far
    forgotten,   \* history: entries removed by forgetEntry,
    least, greatest,  \* the least keep ever, the greatest since the last was cut off,
    sent, races  \* when entries were copied, and how often from a stale time

evars == <<log, keep, when, now, at, appended, forgotten, least, greatest, sent, races>>

Idle == [step |-> "idle", entry |-> 0, when |-> 0, now |-> 0]
OnlyMoves(t, to) == at' = [at EXCEPT ![t] = to]

\* raising: the time is taken, the entry made and appended, without the lock.
Append_(t) ==
    /\ at[t] = Idle /\ appended < MaxEntries
    /\ appended' = appended + 1
    /\ log' = Append(log, appended + 1)
    /\ OnlyMoves(t, [Idle EXCEPT !.step = "trim", !.entry = appended + 1, !.now = now])
    /\ UNCHANGED <<keep, when, now, forgotten, least, greatest, sent, races>>

\* Mutated: the entry before is cut off, however many have come.
TrimmedByOne(entries) == IF Len(entries) > keep THEN Tail(entries) ELSE entries

\* del log[:-keep_entries]
Trimmed(entries) ==
    CASE Len(entries) < keep \/ keep = 0 -> entries
      [] keep > 0 /\ Len(entries) >= keep -> SubSeq(entries, Len(entries) - keep + 1, Len(entries))
      [] keep < 0 -> SubSeq(entries, 1 - keep, Len(entries))

\* ... under cleanup_lock
Trim(t) ==
    /\ at[t].step = "trim"
    /\ log' = Trimmed(log)
    /\ OnlyMoves(t, [at[t] EXCEPT !.step = "look"])
    /\ greatest' = keep
    /\ UNCHANGED <<keep, when, now, appended, forgotten, least, sent, races>>

\* _do_copy_to_zlog looks into the pool,
Look(t) ==
    /\ at[t].step = "look"
    /\ OnlyMoves(t, IF at[t].now > when THEN [at[t] EXCEPT !.step = "copy", !.when = when] ELSE Idle)
    /\ UNCHANGED <<log, keep, when, now, appended, forgotten, least, greatest, sent, races>>

\* and says when the next may be sent, without a lock.
Latest(x, y) == IF x > y THEN x ELSE y
NextWhen(last, moment) == Latest(last, moment - Burst * Period) + Period

Copy(t) ==
    /\ at[t].step = "copy"
    /\ when' = NextWhen(at[t].when, at[t].now)
    /\ sent' = Append(sent, at[t].now)
    /\ races' = IF when = at[t].when THEN races ELSE races + 1
    /\ OnlyMoves(t, Idle)
    /\ UNCHANGED <<log, keep, now, appended, forgotten, least, greatest>>

ForgetEntry(e) ==
    /\ e \in ToSet(log)
    /\ log' = SelectSeq(log, LAMBDA x : x # e)
    /\ forgotten' = forgotten \cup {e}
    /\ UNCHANGED <<keep, when, now, at, appended, least, greatest, sent, races>>

SetProperties(k) ==
    /\ k # keep /\ keep' = k
    /\ least' = IF k < least THEN k ELSE least
    /\ greatest' = Latest(k, greatest)
    /\ UNCHANGED <<log, when, now, at, appended, forgotten, sent, races>>

Tick == /\ now < Start + MaxTime /\ now' = now + 1
        /\ UNCHANGED <<log, keep, when, at, appended, forgotten, least, greatest, sent, races>>

-----------------------------------------------------------------------------
EInit ==
    /\ log = <<>> /\ keep \in Sizes /\ least = keep /\ greatest = keep
    /\ now = Start /\ when = 0
    /\ at = [t \in Threads |-> Idle]
    /\ appended = 0 /\ forgotten = {} /\ sent = <<>> /\ races = 0

ENext ==
    \/ \E t \in Threads : Append_(t) \/ Trim(t) \/ Look(t) \/ Copy(t)
    \/ \E e \in 1 .. MaxEntries : ForgetEntry(e)
    \/ \E k \in Sizes : SetProperties(k)
    \/ Tick

ESpec == EInit /\ [][ENext]_evars

-----------------------------------------------------------------------------
(* Properties *)

Reported == {e \in 1 .. appended : \A t \in Threads : at[t].entry = e => at[t].step # "trim"}
SentFrom(t, n) == Cardinality({i \in DOMAIN sent : sent[i] \in t .. t + n})

\* Whatever threads raise at once, forget and reconfigure: an entry whose address has been
\* returned is in the log until it is forgotten or as many newer ones came as are to be
\* kept; the log is never longer than that by more than those still in the making; and in n
\* seconds no more are copied than a burst (whose last may follow a moment later), one per
\* period, and one for each time that two threads looked at once.
ErrorsAreKept ==
    /\ \A e \in Reported \ forgotten : e \in ToSet(log) \/ appended - e >= least
    /\ Len(log) <= greatest + Cardinality({t \in Threads : at[t].step = "trim"})
    /\ \A t \in Start .. now, n \in 0 .. MaxTime : SentFrom(t, n) <= Burst + 1 + n \div Period + races
=============================================================================
