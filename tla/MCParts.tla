------------------------------- MODULE MCParts -------------------------------
(* The parts that stand alone, for TLC: a form is read, or a request is answered, or a *)
(* file is downloaded, or a site is changed, and so on; the others stay idle.          *)
EXTENDS FormInput, Responses, FileDownload, WebDAV

CONSTANTS root, f1, f2, doc, null, id1, id2, t1, t2, c1, c2, p1, p2, script,
          MaxSize   \* objects in the tree and tokens in use: a bound of the model

VARIABLE part

(* Forms: the fields of one key, or of two that name methods *)
Sample == [key |-> "a", attr |-> "", kind |-> "plain", seq |-> FALSE, tuple |-> FALSE, typed |-> FALSE,
           default |-> FALSE, meth |-> "no", empty |-> "no", value |-> "x"]
Named(key, at, kind, seq, tuple) ==
    [Sample EXCEPT !.key = key, !.attr = at, !.kind = kind, !.seq = seq, !.tuple = tuple, !.typed = TRUE]

Names ==
    {Sample, Named("b", "", "plain", FALSE, FALSE), Named("c", "", "plain", TRUE, TRUE),
     Named("r", "p", "record", FALSE, FALSE), Named("r", "q", "record", TRUE, TRUE),
     Named("s", "p", "records", FALSE, FALSE), Named("s", "q", "records", TRUE, TRUE)}

AllFields ==
    {[f EXCEPT !.value = v, !.default = d, !.typed = @ \/ d] : f \in Names, v \in {"x", "<y"}, d \in BOOLEAN}
    \cup {[f EXCEPT !.empty = "bad", !.value = "", !.typed = TRUE] : f \in {g \in Names : ~g.seq}}
    \cup {[f EXCEPT !.empty = "ignored", !.value = "", !.typed = TRUE] : f \in {g \in Names : g.key \in {"a", "r"}}}
    \cup {[Sample EXCEPT !.key = k, !.meth = m] : k \in {"m", "n"}, m \in {"method", "default"}}

MCForms == {{f \in AllFields : f.key \in keys} : keys \in {{"a"}, {"b"}, {"c"}, {"r"}, {"s"}, {"m", "n"}}}

(* Pages: one that compresses and has a head, one that does neither *)
MCPages == {Page("long", 3, 1, TRUE, TRUE), Page("short", 2, 2, FALSE, FALSE)}
MCErrorPage == Page("error", 4, 2, TRUE, TRUE)

(* Every single range, pairs around the joints of the chain, three bytes in any order *)
Bounds == 0 .. 7
Singles == {[first |-> a, last |-> b] : a \in Bounds, b \in Bounds \cup {NoBound}}
           \cup {[first |-> NoBound, last |-> b] : b \in Bounds}
Joints == {s \in Singles : s.first \in {NoBound, 0, 2, 3} /\ s.last \in {NoBound, 0, 2, 4}}
Bytes == {s \in Singles : s.first = s.last /\ s.first \in {0, 2, 3, 4, 6}}
MCRangeSets == {<<s>> : s \in Singles} \cup {<<s, t>> : s, t \in Joints} \cup {<<s, t, u>> : s, t, u \in Bytes}

NoForm == /\ pc = "none" /\ fields = {} /\ sent = <<>> /\ meth = "" /\ tuple_items = {}
          /\ form = <<>> /\ taintedform = <<>> /\ defaults = <<>> /\ tainteddefaults = <<>>
NoRequest == /\ response = NewResponse("none", "none", "none") /\ method = "none" /\ rpc = FALSE /\ phase = "none"
             /\ calls = 0 /\ retries = 0 /\ meant = NothingMeant /\ declared = FALSE /\ odd = {}
NoDownload == /\ file = Stored(0, 0, TRUE, TRUE, 0) /\ clock = 0 /\ client = "none" /\ copy = NoCopy
              /\ answer = NoAnswer /\ rushed = FALSE

(* Folders are alike, and connections or threads, and mount points or servers *)
Alike == Permutations({f1, f2}) \cup Permutations({c1, c2}) \cup Permutations({p1, p2})

(* A site: two folders, a document and a lock-null resource *)
AllKinds == {Folders, LockNulls, {}}
CopyIds == id1 :> id2
Small == part = "site" =>
    Cardinality(Below(Site, Root)) + Cardinality(Tokens \ FreshTokens) <= MaxSize

(* The properties of an object: "k" can be neither written nor deleted, "a" is reserved *)
HeldAttrs == "object" :> {"title", "k"} @@ "sheet" :> {"title"}
Fixed == [id |-> "k", type |-> "string", mode |-> {}, meta |-> "plain"]
TitleAndFixed == <<[Fixed EXCEPT !.id = "title", !.mode = {"w", "d"}], Fixed>>
PatchOf(ns, names) ==
    [ns : {ns}, name : names, set : BOOLEAN, value : {""}, meta : {"plain"}]
    \cup [ns : {ns}, name : names, set : {TRUE}, value : {"7"}, meta : {"xml"}]
OnePatches ==
    PatchOf("zope:default", {"title", "k", "a"}) \cup PatchOf("n", {"a"}) \cup PatchOf("DAV:", {"getetag"})
MCPatches == {<<a>> : a \in OnePatches}
             \cup {<<a, b>> : a \in PatchOf("zope:default", {"title", "k"}), b \in OnePatches}

-----------------------------------------------------------------------------
(* The parts below have their variables in slots, for one of them at a time. *)

VARIABLES v1, v2, v3, v4, v5, v6, v7, v8, v9, v10, v11, v12, v13, v14, v15

Slots == <<v1, v2, v3, v4, v5, v6, v7, v8, v9, v10, v11, v12, v13, v14, v15>>
EmptyFrom(n) ==
    /\ IF n <= 1 THEN v1 = 0 ELSE TRUE
    /\ IF n <= 2 THEN v2 = 0 ELSE TRUE
    /\ IF n <= 3 THEN v3 = 0 ELSE TRUE
    /\ IF n <= 4 THEN v4 = 0 ELSE TRUE
    /\ IF n <= 5 THEN v5 = 0 ELSE TRUE
    /\ IF n <= 6 THEN v6 = 0 ELSE TRUE
    /\ IF n <= 7 THEN v7 = 0 ELSE TRUE
    /\ IF n <= 8 THEN v8 = 0 ELSE TRUE
    /\ IF n <= 9 THEN v9 = 0 ELSE TRUE
    /\ IF n <= 10 THEN v10 = 0 ELSE TRUE
    /\ IF n <= 11 THEN v11 = 0 ELSE TRUE
    /\ IF n <= 12 THEN v12 = 0 ELSE TRUE
    /\ IF n <= 13 THEN v13 = 0 ELSE TRUE
    /\ IF n <= 14 THEN v14 = 0 ELSE TRUE
    /\ IF n <= 15 THEN v15 = 0 ELSE TRUE
KeptFrom(n) ==
    /\ IF n <= 1 THEN v1' = v1 ELSE TRUE
    /\ IF n <= 2 THEN v2' = v2 ELSE TRUE
    /\ IF n <= 3 THEN v3' = v3 ELSE TRUE
    /\ IF n <= 4 THEN v4' = v4 ELSE TRUE
    /\ IF n <= 5 THEN v5' = v5 ELSE TRUE
    /\ IF n <= 6 THEN v6' = v6 ELSE TRUE
    /\ IF n <= 7 THEN v7' = v7 ELSE TRUE
    /\ IF n <= 8 THEN v8' = v8 ELSE TRUE
    /\ IF n <= 9 THEN v9' = v9 ELSE TRUE
    /\ IF n <= 10 THEN v10' = v10 ELSE TRUE
    /\ IF n <= 11 THEN v11' = v11 ELSE TRUE
    /\ IF n <= 12 THEN v12' = v12 ELSE TRUE
    /\ IF n <= 13 THEN v13' = v13 ELSE TRUE
    /\ IF n <= 14 THEN v14' = v14 ELSE TRUE
    /\ IF n <= 15 THEN v15' = v15 ELSE TRUE

Prop == INSTANCE Properties WITH
    PropIds <- {"title", "k", "a"}, SheetIds <- {"a"}, Inherent <- HeldAttrs, ClassSchema <- TitleAndFixed,
    ReservedIds <- {"a"}, Texts <- {"", "7"}, Numbers <- {"7"}, DavIds <- {"getetag"}, Namespaces <- {"n"},
    Patches <- MCPatches, props <- v1

Cache == INSTANCE Caching WITH
    Ids <- {"m", "n"}, MaxAdded <- 4,
    managers <- v1, list <- v2, object <- v3, caches <- v4, added <- v5, shadowed <- v6

\* Two mount points of one database, in two connections
SameParams == [p \in {p1, p2} |-> "params"]
Mounts == INSTANCE MountPoints WITH
    Points <- {p1, p2}, Params <- SameParams, Conns <- {c1, c2}, MaxDbs <- 2, MaxOpened <- 2,
    dbs <- v1, created <- v2, closed <- v3, v_db <- v4, v_data <- v5, opening <- v6, children <- v7,
    closing <- v8, releasing <- v9, rash <- v10

Errors == INSTANCE SiteErrorLog WITH
    Threads <- {c1, c2}, Sizes <- {1, 2}, Period <- 2, Burst <- 2, MaxEntries <- 4, MaxTime <- 1,
    log <- v1, keep <- v2, when <- v3, now <- v4, at <- v5, appended <- v6, forgotten <- v7,
    least <- v8, greatest <- v9, sent <- v10, races <- v11

\* A tree three levels deep, of which parts are missing
AllNodes == {<<1>>, <<1, 2>>, <<1, 3>>, <<1, 2, 4>>, <<1, 2, 5>>, <<1, 3, 6>>, <<1, 2, 4, 7>>, <<1, 2, 5, 8>>}
MCSites == {AllNodes, AllNodes \ {<<1, 2, 4, 7>>}, AllNodes \ {<<1, 3>>, <<1, 3, 6>>}, {<<1>>}, {<<1>>, <<1, 2>>}}
Tree == INSTANCE Trees WITH
    Sites <- MCSites, Windows <- {"w1", "w2"}, site <- v1, cookie <- v2, page <- v3

\* Two servers and a script start on a new database, an old one, or one with users,
\* with one of two servers listening late
NoChanges == [o \in {"root", "app", "acl_users"} |-> 0]
Database(shared, has, users) == [shared |-> shared, has |-> has, users |-> users, serial |-> NoChanges]
NewApplication == {"Application", "Owner", "Authenticated", "migrated"}
MCDatabases ==
    {Database(s, h, <<>>) : s \in BOOLEAN, h \in {{}, {"Application", "Control_Panel", "unused"}}}
    \cup {Database(s, NewApplication, <<"a", "b">>) : s \in BOOLEAN}
Start == INSTANCE Starter WITH
    Procs <- {p1, p2, script}, Scripts <- {script}, Servers <- {"http", "dav"}, Late <- {"dav"},
    Databases <- MCDatabases, MaxKills <- 1,
    pc <- v1, bound <- v2, listening <- v3, lockpath <- v4, lockfile <- v5, flocked <- v6, pidfile <- v7,
    storage <- v8, db <- v9, view <- v10, inituser <- v11, kills <- v12, alone <- v13, stopped <- v14, lost <- v15

SlotInit ==
    CASE part = "properties" -> Prop!PInit /\ EmptyFrom(2)
      [] part = "caching" -> Cache!CInit /\ EmptyFrom(7)
      [] part = "mounts" -> Mounts!MInit /\ EmptyFrom(11)
      [] part = "errors" -> Errors!EInit /\ EmptyFrom(12)
      [] part = "tree" -> Tree!TInit /\ EmptyFrom(4)
      [] part = "start" -> Start!SInit
      [] OTHER -> EmptyFrom(1)

SlotNext ==
    CASE part = "properties" -> Prop!PNext /\ KeptFrom(2)
      [] part = "caching" -> Cache!CNext /\ KeptFrom(7)
      [] part = "mounts" -> Mounts!MNext /\ KeptFrom(11)
      [] part = "errors" -> Errors!ENext /\ KeptFrom(12)
      [] part = "tree" -> Tree!TNext /\ KeptFrom(4)
      [] part = "start" -> Start!SNext
      [] OTHER -> KeptFrom(1)

-----------------------------------------------------------------------------
PartNames == {"form", "answer", "download", "site", "properties", "caching", "mounts", "errors", "tree",
              "start"}

MInit ==
    /\ part \in PartNames
    /\ IF part = "form" THEN Init ELSE NoForm
    /\ IF part = "answer" THEN RInit ELSE NoRequest
    /\ IF part = "download" THEN FInit ELSE NoDownload
    /\ DInit
    /\ SlotInit

MNext ==
    /\ part' = part
    /\ IF part = "form" THEN Next ELSE UNCHANGED vars
    /\ IF part = "answer" THEN RNext ELSE UNCHANGED rvars
    /\ IF part = "download" THEN FNext ELSE UNCHANGED fvars
    /\ IF part = "site" THEN DNext ELSE UNCHANGED dvars
    /\ SlotNext

MSpec == MInit /\ [][MNext]_<<vars, rvars, fvars, dvars, Slots, part>>

\* FormIsWhatWasSent and TaintedFormMirrors: the form holds what was sent, and the tainted
\* form the same with the unsafe values marked.
FormsAreRight == part = "form" => FormIsWhatWasSent /\ TaintedFormMirrors

\* RangesAreServed and CopiesAreOneVersion: each range is served whole, and a copy that is
\* collected over several requests is of one version.
DownloadsAreRight == part = "download" => RangesAreServed /\ CopiesAreOneVersion

\* What is written in two places agrees: a site's lists, attributes and catalog (IndexIsExact),
\* an object's lists of properties and their values (PropertiesFit); and PROPPATCH does all it
\* was asked or nothing (PatchesAreWhole), and neither writes nor deletes a property whose
\* mode forbids it (ModesAreKept).
ObjectsHold ==
    /\ [](/\ part = "site" => IndexIsExact
          /\ part = "properties" => Prop!PropertiesFit /\ Prop!PatchesAreWhole)
    /\ [][part = "properties" => Prop!ModesAreKept]_<<Slots, part>>

\* CachesAreCurrent, MountsAreOpen, ErrorsAreKept, StartsRight, ClicksToggle: what the threads
\* and the objects of a process, the processes of an instance, or the windows of a browser (the
\* cookie of a tree) share besides the database stays what each of them takes it for.
SharedStatesHold ==
    /\ part = "caching" => Cache!CachesAreCurrent
    /\ part = "mounts" => Mounts!MountsAreOpen
    /\ part = "errors" => Errors!ErrorsAreKept
    /\ part = "start" => Start!StartsRight
    /\ part = "tree" => Tree!ClicksToggle
=============================================================================
