----------------------------- MODULE Properties ------------------------------
(***************************************************************************)
(* The properties of an object: those of PropertyManager, its property     *)
(* sheets (OFS/PropertyManager.py, OFS/PropertySheets.py), and what WebDAV *)
(* reads and writes of them (PROPFIND and PROPPATCH, webdav/davcmds.py).   *)
(*                                                                         *)
(* Each step is one request; one that raises changes nothing and is not a  *)
(* step.  An operator that may raise returns the set of its results, which *)
(* is empty if it does.                                                    *)
(***************************************************************************)
EXTENDS Integers, Sequences, SequencesExt

CONSTANTS
    PropIds,      \* ids of properties
    SheetIds,     \* those of added sheets
    Inherent,     \* the attributes that the classes of objects and sheets have
    ClassSchema,  \* _properties of the class
    ReservedIds,  \* _reserved_names of objects
    Texts,        \* values of properties
    Numbers,      \* those that can be made an int
    DavIds,       \* the properties of the sheet "webdav"
    Namespaces,   \* of sheets that clients and managers add
    Patches       \* bodies of PROPPATCH

VARIABLE props    \* the object's own properties and its added sheets

-----------------------------------------------------------------------------
(* One holder of properties: the object, for the sheet "default" too, or a   *)
(* sheet that was added.                                                     *)

Entry(id, type, meta) == [id |-> id, type |-> type, mode |-> {"w", "d"}, meta |-> meta]
Listed(h, id) == \E i \in DOMAIN h.schema : h.schema[i].id = id
InfoOf(h, id) == h.schema[CHOOSE i \in DOMAIN h.schema : h.schema[i].id = id]
HasAttr(h, id) == id \in Inherent[h.class] \cup DOMAIN h.value
ValueOf(h, id) == IF id \in DOMAIN h.value THEN h.value[id] ELSE "inherent"
Converts(type, v) == type = "int" => v \in Numbers

Gaining(h, entry, v) == [h EXCEPT !.schema = Append(@, entry), !.value = (entry.id :> v) @@ @]
Losing(h, id) == [h EXCEPT !.schema = SelectSeq(@, LAMBDA e : e.id # id),
                           !.value = Restrict(@, DOMAIN @ \ {id})]

\* Some attribute stands in the way of a new property, unless it is the title of the class.
InUse(h, id) == HasAttr(h, id) /\ ~(id = "title" /\ id \notin DOMAIN h.value)
\* Mutated: the class's attributes are overlooked.
InUseHere(h, id) == id \in DOMAIN h.value

SheetSet(h, id, v, type, meta) == IF InUse(h, id) THEN {} ELSE {Gaining(h, Entry(id, type, meta), v)}

Keep == "keep"      \* meta=None
SheetUpdate(h, id, v, meta) ==
    IF ~Listed(h, id) \/ "w" \notin InfoOf(h, id).mode \/ ~Converts(InfoOf(h, id).type, v) THEN {}
    ELSE {[h EXCEPT !.value = (id :> v) @@ @,
                    !.schema = [i \in DOMAIN h.schema |->
                                  IF h.schema[i].id = id /\ meta # Keep
                                  THEN [h.schema[i] EXCEPT !.meta = meta] ELSE h.schema[i]]]}

Deletable(h, id) == "d" \in InfoOf(h, id).mode /\ ~(h.class = "object" /\ id \in ReservedIds)

SheetDel(h, id) ==
    IF ~Listed(h, id) \/ ~Deletable(h, id) \/ id \notin DOMAIN h.value THEN {} ELSE {Losing(h, id)}

Each(Op(_, _), h, xs) == FoldLeft(LAMBDA hs, x : UNION {Op(g, x) : g \in hs}, {h}, xs)

-----------------------------------------------------------------------------
(* PropertyManager *)

ManagerSet(h, new) ==
    IF HasAttr(h, new.id) \/ ~Converts(new.type, new.value) THEN {}
    ELSE {Gaining(h, Entry(new.id, new.type, "plain"), new.value)}

\* Mutated: modes are not looked at.
DeletedAll(h, ids) ==
    [results |-> {FoldLeft(Losing, h, ids)}, message |-> FALSE]

\* manage_delProperties: the first that must stay ends it with a message, and
\* those before it are gone.
DeletedUntil(h, ids) ==
    LET stop == {i \in DOMAIN ids : Listed(h, ids[i]) /\ ~Deletable(h, ids[i])}
        before == IF stop = {} THEN ids ELSE SubSeq(ids, 1, (CHOOSE i \in stop : \A j \in stop : i <= j) - 1)
    IN  [results |-> Each(SheetDel, h, before), message |-> stop # {}]

OwnBecomes(hs) == \E h \in hs : props' = [props EXCEPT !.own = h]

AddProperty(new) == OwnBecomes(ManagerSet(props.own, new))

DelProperties(ids) == OwnBecomes(DeletedUntil(props.own, ids).results)

ChangePropertyTypes(ids, new) ==
    LET deleted == DeletedUntil(props.own, ids)
    IN  OwnBecomes(IF deleted.message THEN deleted.results
                   ELSE UNION {ManagerSet(h, new) : h \in deleted.results})

\* manage_editProperties: all that may be written, with '' where the form has nothing
Written(h) == SelectSeq(h.schema, LAMBDA e : "w" \in e.mode)
Edited(h, form) == Each(LAMBDA g, e : SheetUpdate(g, e.id, form[e.id], Keep), h, Written(h))

\* manage_changeProperties: those the form has
Changed(h, form) ==
    Each(LAMBDA g, e : SheetUpdate(g, e.id, form[e.id], Keep), h,
         SelectSeq(h.schema, LAMBDA e : e.id \in DOMAIN form))

-----------------------------------------------------------------------------
(* PropertySheets *)

Default == 0   Dav == -1   Nowhere == -2    \* else the position of an added sheet

\* get: the sheet of this id or namespace
SheetAt(p, ns) ==
    LET fit == {k \in DOMAIN p.sheets : ns \in {p.sheets[k].id, p.sheets[k].ns}}
    IN  CASE ns \in {"default", "zope:default"} -> Default
          [] ns \in {"webdav", "DAV:"} -> Dav
          [] fit # {} -> CHOOSE k \in fit : \A j \in fit : k <= j
          [] OTHER -> Nowhere

Held(p, k) == IF k = Default THEN p.own ELSE p.sheets[k].held
Holding(p, k, h) == IF k = Default THEN [p EXCEPT !.own = h] ELSE [p EXCEPT !.sheets[k].held = h]
Adding(p, id, ns) ==
    [p EXCEPT !.sheets = Append(@, [id |-> id, ns |-> ns, held |-> [class |-> "sheet", schema |-> <<>>, value |-> <<>>]])]

SheetBecomes(k, hs) == \E h \in hs : props' = Holding(props, k, h)

\* A title of the class that is listed would be listed twice (not modelled).
AddToSheet(k, new) ==
    /\ Converts(new.type, new.value) /\ ~Listed(Held(props, k), new.id)
    /\ SheetBecomes(k, SheetSet(Held(props, k), new.id, new.value, new.type, "plain"))

DelFromSheet(k, ids) == SheetBecomes(k, Each(SheetDel, Held(props, k), ids))
Edit(k, form) == SheetBecomes(k, Edited(Held(props, k), form))
Change(k, form) == SheetBecomes(k, Changed(Held(props, k), form))

\* Managers give sheets ids and namespaces of their own.
AddSheet(ns) ==
    /\ SheetAt(props, ns) = Nowhere
    /\ props' = Adding(props, "sheet", ns)

\* manage_delPropertySheets; a sheet made by PROPPATCH has the id ''
DelSheets(name) ==
    /\ SheetAt(props, name) \notin {Default, Dav, Nowhere}
    /\ props' = [props EXCEPT !.sheets = SelectSeq(@, LAMBDA s : name \notin {s.id, s.ns})]

-----------------------------------------------------------------------------
(* PROPPATCH *)

\* One property of the body, set or removed
PatchedOne(p, a) ==
    LET q == IF a.set /\ SheetAt(p, a.ns) = Nowhere THEN Adding(p, "", a.ns) ELSE p
        k == SheetAt(q, a.ns)
        known == IF k = Dav THEN a.name \in DavIds ELSE k # Nowhere /\ Listed(Held(q, k), a.name)
        hs == CASE k = Dav -> {}
                [] a.set /\ known -> SheetUpdate(Held(q, k), a.name, a.value, a.meta)
                [] a.set /\ ~known -> SheetSet(Held(q, k), a.name, a.value, "string", a.meta)
                [] OTHER -> SheetDel(Held(q, k), a.name)
    IN  CASE ~a.set /\ ~known -> [props |-> q, status |-> 200]
          [] hs = {} -> [props |-> q, status |-> 409]
          [] OTHER -> [props |-> Holding(q, k, CHOOSE h \in hs : TRUE), status |-> 200]

Applied(asked) ==
    FoldLeft(LAMBDA r, a : LET one == PatchedOne(r.props, a)
                           IN  [props |-> one.props, statuses |-> Append(r.statuses, one.status)],
             [props |-> props, statuses |-> <<>>], asked)

\* Mutated: what could be set before the error stays.
PatchedPartly(asked) == Applied(asked)

\* apply: after an error the transaction is aborted, and what went well has failed too.
Patched(asked) ==
    LET r == Applied(asked)
    IN  IF 409 \notin ToSet(r.statuses) THEN r
        ELSE [props |-> props, statuses |-> [i \in DOMAIN asked |-> IF r.statuses[i] = 200 THEN 424 ELSE 409]]

PropPatch(asked) == props' = Patched(asked).props

-----------------------------------------------------------------------------
(* PROPFIND *)

\* dav__propstat of one property; a live property has a value of its own
Found(p, ns, name) ==
    LET k == SheetAt(p, ns)
        h == Held(p, k)
    IN  CASE k = Dav -> IF name \in DavIds THEN <<"live", "plain">> ELSE <<>>
          [] k = Nowhere -> <<>>
          [] OTHER -> IF Listed(h, name) THEN <<ValueOf(h, name), InfoOf(h, name).meta>> ELSE <<>>

\* dav__allprop of all sheets
AllProp(p) ==
    LET Of(ns, h) == {<<ns, h.schema[i].id, ValueOf(h, h.schema[i].id), h.schema[i].meta>> : i \in DOMAIN h.schema}
    IN  Of("zope:default", p.own) \cup {<<"DAV:", id, "live", "plain">> : id \in DavIds}
        \cup UNION {Of(p.sheets[k].ns, p.sheets[k].held) : k \in DOMAIN p.sheets}

-----------------------------------------------------------------------------
New(ids) == [id : ids, type : {"string", "int"}, value : Texts]
Forms1 == [PropIds -> Texts]

PInit ==
    props = [own |-> [class |-> "object", schema |-> ClassSchema, value |-> <<>>], sheets |-> <<>>]

PNext ==
    \/ \E new \in New(PropIds) : AddProperty(new)
    \/ \E i, j \in PropIds : DelProperties(<<i, j>>)
    \/ \E id \in PropIds, new \in New(PropIds) : ChangePropertyTypes(<<id>>, new)
    \/ \E k \in {Default} \cup DOMAIN props.sheets :
          \/ \E new \in New(IF k = Default THEN PropIds ELSE SheetIds) : AddToSheet(k, new)
          \/ \E id \in PropIds : DelFromSheet(k, <<id>>)
          \/ \E form \in Forms1 : Edit(k, form)
          \/ \E form \in {id :> v : id \in PropIds, v \in Texts} : Change(k, form)
    \/ \E ns \in Namespaces : AddSheet(ns)
    \/ \E name \in Namespaces \cup {"", "sheet"} : DelSheets(name)
    \/ \E asked \in Patches : PropPatch(asked)

PSpec == PInit /\ [][PNext]_props

-----------------------------------------------------------------------------
(* Properties *)

\* Whatever was added, deleted and patched through the object, its sheets and WebDAV:
\* a holder lists each id once, everything it lists has a value, every value is listed,
\* and PROPFIND by name finds what allprop tells.
PropertiesFit ==
    /\ \A h \in {props.own} \cup {props.sheets[k].held : k \in DOMAIN props.sheets} :
          /\ \A i, j \in DOMAIN h.schema : h.schema[i].id = h.schema[j].id => i = j
          /\ DOMAIN h.value \subseteq {e.id : e \in ToSet(h.schema)}
          /\ \A e \in ToSet(h.schema) : HasAttr(h, e.id)
    /\ \A x \in AllProp(props) : Found(props, x[1], x[2]) = <<x[3], x[4]>>

\* What a PROPPATCH that succeeds leaves of each property, and of those it does not name
Asked(a, p) == Found(p, a.ns, a.name) = IF a.set THEN <<a.value, a.meta>> ELSE <<>>
IsLast(asked, i) == \A j \in i + 1 .. Len(asked) : <<asked[j].ns, asked[j].name>> # <<asked[i].ns, asked[i].name>>
Others(asked, p) == {x \in AllProp(p) : \A a \in ToSet(asked) : <<a.ns, a.name>> # <<x[1], x[2]>>}

\* A PROPPATCH answers 200 to everything, and then what was asked last of each property
\* holds and no other property has changed, or 200 to nothing, and nothing has changed.
PatchesAreWhole ==
    \A asked \in Patches :
        LET r == Patched(asked)
        IN  IF 200 \in ToSet(r.statuses)
            THEN /\ ToSet(r.statuses) = {200}
                 /\ \A i \in DOMAIN asked : IsLast(asked, i) => Asked(asked[i], r.props)
                 /\ Others(asked, r.props) = Others(asked, props)
            ELSE r.props = props

\* What must stay stays, and what cannot be written keeps its value, by whichever way
\* properties are changed.
ModesAreKept ==
    \A e \in ToSet(props.own.schema) :
        /\ ~Deletable(props.own, e.id) => Listed(props'.own, e.id)
        /\ "w" \notin e.mode /\ Listed(props'.own, e.id) => ValueOf(props'.own, e.id) = ValueOf(props.own, e.id)
=============================================================================
