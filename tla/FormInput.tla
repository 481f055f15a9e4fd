------------------------------ MODULE FormInput ------------------------------
(***************************************************************************)
(* The reading of forms (processInputs of ZPublisher/HTTPRequest.py): the  *)
(* fields of a request, with the directives in their names, become the     *)
(* values of form, single ones, lists, tuples, records and lists of        *)
(* records; defaults fill what was not sent; taintedform is a second form  *)
(* with the unsafe values marked.                                          *)
(*                                                                         *)
(* A value is <<"one", v, marked>>, <<"list", ...>>, <<"tuple", ...>> or   *)
(* <<"record", function of values>>.                                       *)
(***************************************************************************)
EXTENDS Naturals, Sequences, SequencesExt

CONSTANTS
    Forms,       \* the forms, each the set of the fields a request may send for it
    Unsafe,      \* the values that hold a <
    MaxFields    \* bound on the fields of a request

\* kind: plain, record or records.  A key has one kind, and a name is always or never
\* a sequence.  tuple: :tuple stands next to the name (elsewhere it is :list).  typed:
\* the name has a directive that sets a flag.  meth: it has :method or
\* :default_method.  empty: there is no value, and its converter or ignore_empty
\* minds.  Fields named like an environment variable are ignored too.
ASSUME FormsAssumption ==
    /\ UNION Forms \subseteq [key : STRING, attr : STRING, kind : {"plain", "record", "records"}, seq : BOOLEAN, tuple : BOOLEAN,
                         typed : BOOLEAN, default : BOOLEAN, meth : {"no", "method", "default"},
                         empty : {"no", "bad", "ignored"}, value : STRING]
    /\ \A f, g \in UNION Forms : f.key = g.key => f.kind = g.kind /\ (f.attr = g.attr => f.seq = g.seq)
    /\ MaxFields \in Nat

VARIABLES
    pc, fields, sent,
    form, taintedform,
    defaults, tainteddefaults,
    tuple_items, meth

vars == <<pc, fields, sent, form, taintedform, defaults, tainteddefaults, tuple_items, meth>>

-----------------------------------------------------------------------------
(* Values *)

One(v, mark) == <<"one", v, mark>>
List(elements) == <<"list">> \o elements
Record(attrs) == <<"record", attrs>>
IsList(x) == x[1] = "list"
Has(x, a) == x[1] = "record" /\ a \in DOMAIN x[2]
SetAttr(x, a, y) == Record((a :> y) @@ x[2])
Put(mapping, k, x) == (k :> x) @@ mapping
Same(x, y) == x[1] = "one" /\ y[1] = "one" /\ x[2] = y[2]     \* == of strings, tainted or not
HasSame(l, x) == \E i \in 2 .. Len(l) : Same(l[i], x)

AsList(x) == IF IsList(x) THEN x ELSE List(<<x>>)
Wrapped(f, x) == IF f.seq THEN List(<<x>>) ELSE x

-----------------------------------------------------------------------------
(* One field goes into a mapping *)

\* The list of records l with one more value for the attribute: of its last record,
\* or of a new one.
WithRecordItem(l, f, x) ==
    LET r == Last(l)
    IN  IF ~Has(r, f.attr) THEN [l EXCEPT ![Len(l)] = SetAttr(r, f.attr, Wrapped(f, x))]
        ELSE IF f.seq THEN [l EXCEPT ![Len(l)] = SetAttr(r, f.attr, Append(r[2][f.attr], x))]
        ELSE Append(l, Record(f.attr :> x))

WithAttr(r, f, x) ==
    SetAttr(r, f.attr, IF f.seq /\ Has(r, f.attr) THEN Append(r[2][f.attr], x) ELSE Wrapped(f, x))

\* The mapping has no value for the key yet.
NewValue(f, x) ==
    CASE f.kind = "records" -> List(<<Record(f.attr :> Wrapped(f, x))>>)
      [] f.kind = "record"  -> Record(f.attr :> Wrapped(f, x))
      [] OTHER              -> Wrapped(f, x)

NextValue(f, old, x) ==
    CASE f.kind = "records" -> WithRecordItem(old, f, x)
      [] f.kind = "record"  -> WithAttr(old, f, x)
      [] OTHER              -> Append(AsList(old), x)

Inserted(mapping, f, x) ==
    Put(mapping, f.key, IF f.key \in DOMAIN mapping THEN NextValue(f, mapping[f.key], x) ELSE NewValue(f, x))

\* A record in the tainted mapping gets a sequence's value after it was copied with it,
\* or the list that holds the value.
TaintedAttr(tainted, copied, f, x) ==
    IF ~f.seq THEN SetAttr(copied, f.attr, x)
    ELSE LET seq == IF Has(copied, f.attr) THEN copied[2][f.attr] ELSE List(<<>>)
         IN  SetAttr(copied, f.attr, Append(seq, IF tainted THEN x ELSE List(<<x>>)))

\* Mutated: a safe value is left out although others of its key are unsafe.
OnlyTainted(mapping, tmapping, f, x, t, tainted) ==
    LET old == IF f.key \in DOMAIN tmapping THEN tmapping[f.key] ELSE mapping[f.key]
    IN  IF ~tainted THEN tmapping
        ELSE Put(tmapping, f.key, IF f.key \in DOMAIN mapping THEN NextValue(f, old, t) ELSE NewValue(f, t))

\* The tainted mapping has the keys of which some value is unsafe.  x goes into the
\* mapping, t into the tainted one.
TaintInserted(mapping, tmapping, f, x, t, tainted) ==
    LET k == f.key
        known == k \in DOMAIN tmapping
        copied == IF known THEN tmapping[k] ELSE Inserted(mapping, f, x)[k]
    IN  IF ~tainted /\ ~known THEN tmapping
        ELSE IF k \notin DOMAIN mapping THEN Put(tmapping, k, NewValue(f, t))
        ELSE IF f.kind = "record" THEN Put(tmapping, k, TaintedAttr(tainted, copied, f, t))
        ELSE Put(tmapping, k, NextValue(f, IF known THEN tmapping[k] ELSE mapping[k], t))

\* A second unsafe value of a name with a directive is appended to a string.
TaintFails(mapping, tmapping, f, tainted) ==
    /\ tainted /\ f.kind = "plain" /\ f.typed
    /\ f.key \in DOMAIN mapping \cap DOMAIN tmapping /\ ~IsList(tmapping[f.key])

-----------------------------------------------------------------------------
(* processInputs *)

\* The default that stands for an empty value, in one of the two mappings
HasDefault(mapping, f) ==
    /\ f.key \in DOMAIN mapping
    /\ LET d == mapping[f.key]
       IN  CASE f.kind = "records" -> Has(Last(d), f.attr) [] f.kind = "record" -> Has(d, f.attr) [] OTHER -> TRUE
DefaultOf(mapping, f) ==
    LET d == mapping[f.key]
    IN  CASE f.kind = "records" -> Last(d)[2][f.attr] [] f.kind = "record" -> d[2][f.attr] [] OTHER -> d

Replaced(f) == f.empty = "bad"
ItemOf(f) == IF Replaced(f) THEN DefaultOf(defaults, f) ELSE One(f.value, FALSE)
Tainted(f) == IF Replaced(f) THEN HasDefault(tainteddefaults, f) ELSE f.value \in Unsafe
TaintOf(f) ==
    CASE ~Tainted(f) -> ItemOf(f) [] Replaced(f) -> DefaultOf(tainteddefaults, f) [] OTHER -> One(f.value, TRUE)

\* An empty value needs a default that came before it.
Fails(f) ==
    \/ Replaced(f) /\ (f.default \/ ~HasDefault(defaults, f))
    \/ IF f.default THEN TaintFails(defaults, tainteddefaults, f, Tainted(f))
       ELSE TaintFails(form, taintedform, f, Tainted(f))

\* form and defaults would share a list: not modelled.
Shares(f) == Replaced(f) /\ IsList(DefaultOf(defaults, f))

Chosen(f) == IF f.meth = "method" \/ (f.meth = "default" /\ meth = "") THEN f.key ELSE meth

Reading(f) == pc = "fields" /\ Len(sent) < MaxFields /\ sent' = Append(sent, f)

\* The directives are read from the back to the front, then the value goes into its
\* mapping and that one's tainted copy.
Field(f) ==
    /\ Reading(f)
    /\ f.empty # "ignored" /\ ~Fails(f) /\ ~Shares(f)
    /\ IF f.default
       THEN /\ defaults' = Inserted(defaults, f, ItemOf(f))
            /\ tainteddefaults' = TaintInserted(defaults, tainteddefaults, f, ItemOf(f), TaintOf(f), Tainted(f))
            /\ UNCHANGED <<form, taintedform>>
       ELSE /\ form' = Inserted(form, f, ItemOf(f))
            /\ taintedform' = TaintInserted(form, taintedform, f, ItemOf(f), TaintOf(f), Tainted(f))
            /\ UNCHANGED <<defaults, tainteddefaults>>
    /\ tuple_items' = IF f.tuple THEN tuple_items \cup {<<f.key, f.attr>>} ELSE tuple_items
    /\ meth' = Chosen(f)
    /\ UNCHANGED <<pc, fields>>

IgnoredField(f) ==
    /\ Reading(f)
    /\ f.empty = "ignored"
    /\ tuple_items' = IF f.tuple THEN tuple_items \cup {<<f.key, f.attr>>} ELSE tuple_items
    /\ meth' = Chosen(f)
    /\ UNCHANGED <<pc, fields, form, taintedform, defaults, tainteddefaults>>

\* A field that raises ends the request.
FieldFails(f) ==
    /\ Reading(f)
    /\ f.empty # "ignored" /\ Fails(f)
    /\ pc' = "failed"
    /\ UNCHANGED <<fields, form, taintedform, defaults, tainteddefaults, tuple_items, meth>>

-----------------------------------------------------------------------------
(* Defaults *)

\* What r lacks is set from the first of the records that has it.
Filled(r, records) ==
    LET given == {i \in DOMAIN records : records[i][1] = "record"}
        missing == UNION {DOMAIN records[i][2] : i \in given} \ DOMAIN r[2]
        first(a) == CHOOSE i \in given : Has(records[i], a) /\ \A j \in given : Has(records[j], a) => i <= j
    IN  Record([a \in missing |-> records[first(a)][2][a]] @@ r[2])

\* The elements of list l, records filled or values added, from default list d.
\* Mutated: the default list is added as it is.
AddedAll(l, d) == IF d[2][1] = "record" THEN <<"list">> \o [i \in 1 .. Len(l) - 1 |-> Filled(l[i + 1], Tail(d))] ELSE l \o Tail(d)

Completed(l, d) ==
    IF d[2][1] = "record" THEN <<"list">> \o [i \in 1 .. Len(l) - 1 |-> Filled(l[i + 1], Tail(d))]
    ELSE FoldLeft(LAMBDA have, x : IF HasSame(have, x) THEN have ELSE Append(have, x), l, Tail(d))

WithDefault(x, d) ==
    CASE d[1] = "record" -> Filled(x, <<d>>) [] IsList(d) -> Completed(AsList(x), d) [] OTHER -> x

TDefault(k) == IF k \in DOMAIN tainteddefaults THEN tainteddefaults[k] ELSE defaults[k]

\* The keys whose tainted copy is made only now, for a default that is added
NewlyTainted ==
    {k \in DOMAIN tainteddefaults \ DOMAIN taintedform :
        k \notin DOMAIN form \/ WithDefault(form[k], tainteddefaults[k]) \notin {form[k], AsList(form[k])}}

InsertDefaults ==
    /\ pc = "fields" /\ pc' = "defaults"
    /\ form' = [k \in DOMAIN form \cup DOMAIN defaults |->
          IF k \notin DOMAIN form THEN defaults[k]
          ELSE IF k \notin DOMAIN defaults THEN form[k]
          ELSE WithDefault(form[k], defaults[k])]
    /\ taintedform' = [k \in DOMAIN taintedform \cup NewlyTainted |->
          IF k \notin DOMAIN defaults THEN taintedform[k]
          ELSE IF k \in DOMAIN taintedform THEN WithDefault(taintedform[k], TDefault(k))
          ELSE IF k \notin DOMAIN form THEN tainteddefaults[k]
          ELSE WithDefault(form[k], tainteddefaults[k])]
    /\ UNCHANGED <<fields, sent, defaults, tainteddefaults, tuple_items, meth>>

-----------------------------------------------------------------------------
(* Tuples *)

Tuple(x) == <<"tuple">> \o Tail(x)
TupleAttr(x, a) == IF Has(x, a) THEN SetAttr(x, a, Tuple(x[2][a])) ELSE x

\* What becomes of the value of key k, when the attributes as are to be tuples.
Converted(x, as) ==
    CASE as = {} -> x
      [] x[1] = "record" -> Record([a \in DOMAIN x[2] |-> IF a \in as THEN Tuple(x[2][a]) ELSE x[2][a]])
      [] Len(x) > 1 /\ x[2][1] = "record" ->
           <<"list">> \o [i \in 1 .. Len(x) - 1 |-> FoldSet(LAMBDA a, r : TupleAttr(r, a), x[i + 1], as)]
      [] OTHER -> Tuple(x)

TupleAttrs(k) == {t[2] : t \in {u \in tuple_items : u[1] = k}}

\* A tainted record must have what is to be a tuple, although the record need not.
TuplesFail ==
    \E k \in DOMAIN taintedform : form[k][1] = "record" /\ ~(TupleAttrs(k) \subseteq DOMAIN taintedform[k][2])

ConvertToTuples ==
    /\ pc = "defaults" /\ ~TuplesFail
    /\ pc' = "done"
    /\ form' = [k \in DOMAIN form |-> Converted(form[k], TupleAttrs(k))]
    /\ taintedform' = [k \in DOMAIN taintedform |-> Converted(taintedform[k], TupleAttrs(k))]
    /\ UNCHANGED <<fields, sent, defaults, tainteddefaults, tuple_items, meth>>

ConversionFails ==
    /\ pc = "defaults" /\ TuplesFail
    /\ pc' = "failed"
    /\ UNCHANGED <<fields, sent, form, taintedform, defaults, tainteddefaults, tuple_items, meth>>

Init ==
    /\ fields \in Forms
    /\ pc = "fields" /\ sent = <<>> /\ meth = "" /\ tuple_items = {}
    /\ form = <<>> /\ taintedform = <<>> /\ defaults = <<>> /\ tainteddefaults = <<>>

Next ==
    \/ \E f \in fields : Field(f)
    \/ \E f \in fields : IgnoredField(f)
    \/ \E f \in fields : FieldFails(f)
    \/ InsertDefaults
    \/ ConvertToTuples
    \/ ConversionFails

Spec == Init /\ [][Next]_vars

-----------------------------------------------------------------------------
(* Properties *)

\* The values under a name, in order, whatever holds them
RECURSIVE Leaves(_)
Leaves(x) == IF x[1] = "one" THEN <<x[2]>> ELSE FlattenSeq([i \in 1 .. Len(x) - 1 |-> Leaves(x[i + 1])])

Under(x, a) ==
    CASE x[1] = "record" -> IF Has(x, a) THEN Leaves(x[2][a]) ELSE <<>>
      [] IsList(x) /\ Len(x) > 1 /\ x[2][1] = "record" ->
           FlattenSeq([i \in 1 .. Len(x) - 1 |-> IF Has(x[i + 1], a) THEN Leaves(x[i + 1][2][a]) ELSE <<>>])
      [] OTHER -> Leaves(x)

\* What was sent under a name, an empty value standing for the last default before it
Meant(i) ==
    LET f == sent[i]
        before == {j \in 1 .. i - 1 : /\ sent[j].key = f.key /\ sent[j].attr = f.attr
                                       /\ sent[j].default /\ sent[j].empty = "no"}
    IN  IF f.empty = "no" THEN f.value ELSE sent[CHOOSE j \in before : \A k \in before : k <= j].value
ValuesOf(f, default) ==
    LET at == SelectSeq([i \in DOMAIN sent |-> i],
                        LAMBDA i : /\ sent[i].key = f.key /\ sent[i].attr = f.attr
                                   /\ sent[i].default = default /\ sent[i].empty # "ignored")
    IN  [n \in DOMAIN at |-> Meant(at[n])]

Within(s, t) == FoldLeft(LAMBDA n, x : IF n < Len(s) /\ s[n + 1] = x THEN n + 1 ELSE n, 0, t) = Len(s)
LastOf(s) == IF s = <<>> THEN s ELSE <<Last(s)>>
Distinct(s) == FoldLeft(LAMBDA have, x : IF x \in ToSet(have) THEN have ELSE Append(have, x), <<>>, s)

\* The form is what was sent: whatever the order of the fields and the directives, no
\* value is lost, doubled or moved past another of its name, defaults appear only
\* where they are wanted, and the method is the last one named, or else the first
\* default.
FormIsWhatWasSent ==
    pc = "done" =>
        /\ \A i \in DOMAIN sent :
              LET f == sent[i]
                  values == ValuesOf(f, FALSE)
                  default == ValuesOf(f, TRUE)
                  got == IF f.key \in DOMAIN form THEN Under(form[f.key], f.attr) ELSE <<>>
                  added == SelectSeq(Distinct(default), LAMBDA v : v \notin ToSet(values))
              IN  f.empty = "no" =>
                  CASE f.kind = "record" /\ ~f.seq -> got = LastOf(IF values = <<>> THEN default ELSE values)
                    [] f.kind = "record" /\ f.seq  -> got = IF values = <<>> THEN default ELSE values
                    [] f.kind = "records"          -> IF default = <<>> THEN got = values ELSE Within(values, got)
                    [] OTHER -> got = IF values = <<>> THEN default
                                      ELSE IF f.seq \/ Len(default) > 1 THEN values \o added ELSE values
        /\ LET named == {i \in DOMAIN sent : sent[i].meth = "method"}
               defaulted == {i \in DOMAIN sent : sent[i].meth = "default"}
           IN  meth = IF named # {} THEN sent[CHOOSE i \in named : \A j \in named : j <= i].key
                      ELSE IF defaulted # {} THEN sent[CHOOSE i \in defaulted : \A j \in defaulted : i <= j].key
                      ELSE ""

\* The value with its unsafe strings marked, but for the sequences of single records
RECURSIVE Marked(_)
Marked(x) ==
    CASE x[1] = "one" -> One(x[2], x[2] \in Unsafe)
      [] x[1] = "record" -> Record([a \in DOMAIN x[2] |-> Marked(x[2][a])])
      [] OTHER -> <<x[1]>> \o [i \in 1 .. Len(x) - 1 |-> Marked(x[i + 1])]

WithoutSequences(x) ==
    IF x[1] # "record" THEN x ELSE Record([a \in {b \in DOMAIN x[2] : x[2][b][1] = "one"} |-> x[2][a]])

\* The tainted form is the form with the unsafe values marked, for every key that has
\* one: the two are built apart, value by value, and must not differ.  (The sequences
\* in single records do differ: a value is doubled or wrapped in them.)
TaintedFormMirrors ==
    pc \in {"fields", "done"} =>
        /\ DOMAIN taintedform \subseteq DOMAIN form
        /\ \A k \in DOMAIN form :
              IF k \in DOMAIN taintedform THEN WithoutSequences(taintedform[k]) = Marked(WithoutSequences(form[k]))
              ELSE WithoutSequences(Marked(form[k])) = WithoutSequences(form[k])
=============================================================================
