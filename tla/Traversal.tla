------------------------------ MODULE Traversal ------------------------------
(***************************************************************************)
(* How a request finds the object it publishes (ZPublisher/BaseRequest.py) *)
(* in a site of folders: the stack of names, the hooks of the containers   *)
(* (BeforeTraverse.py), virtual hosts (VirtualHostMonster.py), acquired    *)
(* objects and null resources, and the search for a user folder that       *)
(* knows the user; and the browser ids and session data managers, which    *)
(* live in the same hooks (Products/Sessions).                             *)
(*                                                                         *)
(* A request is served by one thread on a site that does not change        *)
(* meanwhile: it works on the state of its transaction.                    *)
(***************************************************************************)
EXTENDS Naturals, FiniteSets, FiniteSetsExt, Sequences, SequencesExt

CONSTANTS
    Nodes, Folders, Root,
    Monsters,        \* virtual host monsters
    UserFolders,     \* the objects named acl_users
    BidManagers,     \* the objects named browser_id_manager
    SdManagers,      \* session data managers
    Managed,         \* the objects that are added and deleted
    Titles,          \* ids that folders, monsters and session data managers take
    Sites,           \* the sites to begin with
    Undocumented,    \* objects without a docstring
    RoleOf,          \* "public", "protected" or "unspecified" of each object
    KnownIn,         \* the users of each user folder
    Users,
    Requests,        \* what clients ask and how it is rewritten
    HostMap,         \* the names a mapping of the monsters puts on the stack
    Segment,         \* the name in each _vh_ element
    Virtual,         \* the elements that name a virtual root, "/" among them
    BadNames,        \* names that begin with an underscore
    Hidden,          \* REQUEST, aq_self and aq_base
    BidName,         \* the name of browser ids
    Bids, Namespaces,
    NullRes,         \* a NullResource
    Handler,         \* the method of an object that handles PUT
    NoNode, NoId, NoBid, NoUser, Nobody,
    Deleted          \* what the cookie of a browser id is to be deleted

ASSUME TraversalAssumption ==
    /\ IsFiniteSet(Nodes) /\ Root \in Folders /\ Folders \subseteq Nodes
    /\ Managed \subseteq Nodes \ {Root}
    /\ {NoNode, NullRes, Handler} \cap Nodes = {} /\ NoNode \notin {NullRes, Handler} /\ NullRes # Handler
    /\ Monsters \cup UserFolders \cup BidManagers \cup SdManagers \subseteq Nodes \ Folders
    /\ Monsters \cap UserFolders = {} /\ (Monsters \cup UserFolders) \cap (BidManagers \cup SdManagers) = {}
    /\ BidManagers \cap SdManagers = {}
    /\ RoleOf \in [Nodes \cup {NullRes, Handler} -> {"public", "protected", "unspecified"}]
    /\ KnownIn \in [UserFolders -> SUBSET Users]
    /\ DOMAIN Segment \cup {BidName} \subseteq BadNames

VARIABLES
    site,   \* where the objects are, and what they have registered
    req,    \* the request being served
    jar     \* the cookie of the browser id in the browser

vars == <<site, req, jar>>

Apps == <<"monster", "bids", "sessions">>      \* by priority: 25, 40 and 50

-----------------------------------------------------------------------------
(* The site *)

Child(s, c, id) ==
    LET here == {n \in Nodes : s.place[n] = c /\ s.name[n] = id}
    IN  IF c \in Folders /\ here # {} THEN CHOOSE n \in here : TRUE ELSE NoNode

\* An object and its containers, the root last
Climb(s, n) ==
    LET up[k \in 0 .. Cardinality(Folders)] ==
            IF k = 0 THEN <<n>>
            ELSE LET below == up[k - 1]
                     c == IF Last(below) \in Nodes \ {Root} THEN s.place[Last(below)] ELSE NoNode
                 IN  IF c = NoNode THEN below ELSE Append(below, c)
    IN  up[Cardinality(Folders)]

PathOf(s, n) ==
    LET climb == Climb(s, n) IN Reverse([k \in 1 .. Len(climb) - 1 |-> s.name[climb[k]]])

\* Where attributes of a wrapped object are looked for: in its containers, then
\* in the object it was got from.
Chain(s, parents) == FoldLeft(LAMBDA chain, n : Climb(s, n) \o chain, <<>>, parents)

Acquired(s, parents, id) ==
    LET chain == Chain(s, parents)
        at == {k \in DOMAIN chain : Child(s, chain[k], id) # NoNode}
    IN  IF at = {} THEN NoNode
        ELSE Child(s, chain[CHOOSE k \in at : \A j \in at : k <= j], id)

BelowOf(s, n) == {m \in Nodes : n \in ToSet(Climb(s, m))}

\* registerBeforeTraverse and unregisterBeforeTraverse; one priority for an app
Register(s, c, app, id) == [s EXCEPT !.hooks[c][app] = id]
Unregister(s, c, app) == Register(s, c, app, NoId)

\* SessionDataManager.updateTraversalData
UpdateTraversalData(s, m, wanted) ==
    LET c == s.place[m]
        off == IF s.hooked[m]
               THEN [Unregister(s, c, "sessions") EXCEPT !.hooked[m] = FALSE, !.wanted[m] = FALSE]
               ELSE s
    IN  IF wanted
        THEN [Register(off, c, "sessions", s.name[m]) EXCEPT !.hooked[m] = TRUE, !.wanted[m] = TRUE]
        ELSE off

\* BrowserIdManager.updateTraversalData
UpdateHook(s, m) ==
    IF "url" \in ToSet(s.conf[m].ns) THEN Register(s, s.place[m], "bids", s.name[m])
    ELSE Unregister(s, s.place[m], "bids")

\* manage_beforeDelete of item, for an object in it
BeforeDelete(s, n, item) ==
    CASE n \in Monsters /\ n = item -> Unregister(s, s.place[n], "monster")
      [] n \in UserFolders /\ n = item -> [s EXCEPT !.groups[s.place[n]] = NoNode]
      [] n \in BidManagers -> Unregister(s, s.place[n], "bids")
      [] n \in SdManagers -> UpdateTraversalData(s, n, FALSE)
      [] OTHER -> s

\* manage_afterAdd of item, for an object in it
AfterAdd(s, n, item) ==
    CASE n \in Monsters /\ n = item -> Register(s, s.place[n], "monster", s.name[n])
      [] n \in UserFolders /\ n = item -> [s EXCEPT !.groups[s.place[n]] = n]
      [] n \in BidManagers -> UpdateHook(s, n)
      [] n \in SdManagers -> UpdateTraversalData(s, n, s.wanted[n])
      [] OTHER -> s

\* Mutated: objects in what is added are not told.
ToldItself(s, item) == AfterAdd(s, item, item)

Told(s, item) == FoldSet(LAMBDA n, t : AfterAdd(t, n, item), s, BelowOf(s, item))
\* The objects in item hear of its deletion.
Warned(s, item) == FoldSet(LAMBDA n, t : BeforeDelete(t, n, item), s, BelowOf(s, item))

\* A container calls exactly the hooks of what is in it and asks its own user folder.
Fits(s, c) ==
    LET here == {n \in Nodes : s.place[n] = c}
    IN  /\ {s.name[n] : n \in here \cap Monsters} = {s.hooks[c]["monster"]} \ {NoId}
        /\ here \cap UserFolders = {s.groups[c]} \ {NoNode}
        /\ {m \in here \cap BidManagers : "url" \in ToSet(s.conf[m].ns)} # {}
              <=> s.hooks[c]["bids"] # NoId

\* above tells the containers of every object.
Tree(place, above) ==
    /\ above \in [Nodes -> SUBSET Folders] /\ place[Root] = NoNode
    /\ \A n \in Nodes :
          /\ above[n] = IF place[n] = NoNode THEN {} ELSE {place[n]} \cup above[place[n]]
          /\ n \notin above[n]
          /\ \A c \in above[n] : above[c] \subseteq above[n] /\ (c = Root \/ place[c] # NoNode)

Ids == Titles \cup {s.name[n] : s \in Sites, n \in Nodes}

SiteType ==
    [place : [Nodes -> Folders \cup {NoNode}], name : [Nodes -> Ids],
     hooks : [Folders -> [ToSet(Apps) -> Ids \cup {NoId}]], groups : [Folders -> Nodes \cup {NoNode}],
     wanted : [SdManagers -> BOOLEAN], hooked : [SdManagers -> BOOLEAN],
     conf : [BidManagers -> Namespaces]]

Above(s) == [n \in Nodes |-> ToSet(Climb(s, n)) \ {n}]

\* Ids are unique in a container, and some are fixed.
WellNamed(s) ==
    \A n \in {x \in Nodes : s.place[x] # NoNode} :
        /\ n \in UserFolders => s.name[n] = "acl_users"
        /\ n \in BidManagers => s.name[n] = "browser_id_manager"
        /\ \A m \in Nodes : s.place[m] = s.place[n] /\ s.name[m] = s.name[n] => m = n

\* A site that was put together from empty folders
Built(s) ==
    /\ s \in SiteType /\ Tree(s.place, Above(s)) /\ WellNamed(s)
    /\ \A c \in Folders : Fits(s, c)

ASSUME SitesAssumption == NoId \notin Ids /\ \A s \in Sites : Built(s)

Idle == req.pc = "idle"

\* A monster refuses to be the second in its container.
Free(s, c, n, id) ==
    Child(s, c, id) = NoNode /\ (n \in Monsters => s.hooks[c]["monster"] = NoId)

\* One of the constructors: manage_addVirtualHostMonster, constructBrowserIdManager ...
AddManager(n, c, id, wanted, conf) ==
    /\ Idle /\ n \in Managed /\ site.place[n] = NoNode /\ c \in {Root} \cup {f \in Folders : site.place[f] # NoNode}
    /\ Free(site, c, n, id) /\ c # n
    /\ n \notin SdManagers => ~wanted
    /\ n \in UserFolders => id = "acl_users"
    /\ n \in BidManagers => id = "browser_id_manager"
    /\ site' = Told([site EXCEPT !.place[n] = c, !.name[n] = id,
                                 !.wanted = IF n \in SdManagers THEN [@ EXCEPT ![n] = wanted] ELSE @,
                                 !.conf = IF n \in BidManagers THEN [@ EXCEPT ![n] = conf] ELSE @], n)
    /\ UNCHANGED <<req, jar>>

\* _delObject; what is in a folder goes with it
DelObject(n) ==
    LET warned == Warned(site, n)
        gone == BelowOf(site, n)
    IN  /\ Idle /\ n \in Managed /\ site.place[n] # NoNode
        /\ site' = [warned EXCEPT
                      !.place = [m \in Nodes |-> IF m \in gone THEN NoNode ELSE site.place[m]],
                      !.hooks = [c \in Folders |-> IF c \in gone THEN [a \in ToSet(Apps) |-> NoId]
                                                   ELSE warned.hooks[c]],
                      !.groups = [c \in Folders |-> IF c \in gone THEN NoNode ELSE warned.groups[c]]]
        /\ UNCHANGED <<req, jar>>

\* manage_renameObject; the ids of user folders and browser id managers are fixed.
RenameObject(n, id) ==
    /\ Idle /\ n \in Managed \ (UserFolders \cup BidManagers) /\ site.place[n] # NoNode
    /\ site.name[n] # id /\ Child(site, site.place[n], id) = NoNode
    /\ site' = Told([Warned(site, n) EXCEPT !.name[n] = id], n)
    /\ UNCHANGED <<req, jar>>

\* manage_changeBrowserIdManager
ChangeBids(m, conf) ==
    /\ Idle /\ m \in BidManagers /\ site.place[m] # NoNode /\ site.conf[m] # conf
    /\ site' = LET s == [site EXCEPT !.conf[m] = conf] IN UpdateHook(s, m)
    /\ UNCHANGED <<req, jar>>

\* manage_changeSDM
ChangeSDM(m, wanted) ==
    /\ Idle /\ m \in SdManagers /\ site.place[m] # NoNode /\ wanted # site.wanted[m]
    /\ site' = UpdateTraversalData(site, m, wanted)
    /\ UNCHANGED <<req, jar>>

-----------------------------------------------------------------------------
(* Requests.  rule says how a server in front rewrites what the client asks: *)
(* not at all, with VirtualHostBase and perhaps VirtualHostRoot, or not, but *)
(* the monster maps the host.  at is the path to the virtual root, under the *)
(* elements of as.                                                          *)

Rewritten(q) ==
    LET base == IF q.rule \in {"base", "root"} THEN <<"VirtualHostBase", "http", "host">> ELSE <<>>
        root == IF q.rule = "root" THEN q.at \o <<"VirtualHostRoot">> \o q.as ELSE <<>>
    IN  base \o root \o q.rest

Segments(as) == [k \in DOMAIN as |-> Segment[as[k]]]
\* Names that lead nowhere, and ..; one more .. than names fails.
Clean(path) ==
    FoldLeft(LAMBDA clean, id : IF id # ".." THEN Append(clean, id)
                                ELSE IF clean = <<>> THEN clean ELSE Front(clean), <<>>, path)

NoRequest ==
    [pc |-> "idle", q |-> CHOOSE q \in Requests : TRUE, stack |-> <<>>, parents |-> <<>>,
     object |-> Root, steps |-> <<>>, usteps |-> <<>>, script |-> <<>>, vroot |-> <<>>, url |-> <<>>,
     last |-> <<>>, target |-> NoNode, entry |-> NoId, look |-> NoId, roles |-> "public", user |-> NoUser, upath |-> <<>>,
     outcome |-> "none", bid |-> NoBid, from |-> "none", lazy |-> NoNode, key |-> NoBid, cookie |-> NoBid, forced |-> FALSE]

Asked(q) == Segments(q.as) \o Clean(q.rest)

\* traverse, to the beginning of its loop
Start(q) ==
    LET path == Rewritten(q)
        r == [NoRequest EXCEPT !.pc = "hooks", !.q = q, !.stack = Reverse(Clean(path)),
                               !.parents = <<Root>>, !.roles = RoleOf[Root],
                               !.look = IF q.method = "GET" THEN "index_html" ELSE "PUT"]
    IN  /\ Idle
        /\ req' = IF ToSet(path) \cap Hidden # {}
                  THEN [r EXCEPT !.pc = "answered", !.outcome = "notfound"] ELSE r
        /\ UNCHANGED <<site, jar>>

\* Mutated: the names before the virtual root stay in the URL.
KeepSteps(r, pp) ==
    [r EXCEPT !.script = pp, !.url = pp \o r.usteps, !.vroot = PathOf(site, Last(r.parents))]

\* setVirtualRoot
SetVirtualRoot(r, pp) ==
    [r EXCEPT !.script = pp, !.usteps = <<>>, !.url = pp, !.vroot = PathOf(site, Last(r.parents))]

\* The element of these segments
VirtualName(pp) == CHOOSE v \in DOMAIN Virtual : Virtual[v] = pp

\* The places of the _vh_ elements that follow VirtualHostRoot
VhRun(stack, ii) ==
    {k \in 1 .. ii - 1 : \A j \in k .. ii - 1 : stack[j] \in DOMAIN Segment}

\* The end of VirtualHostMonster.__call__: VirtualHostRoot becomes the id of the
\* monster, over the element that names the virtual root.
Converted(r, id) ==
    LET stack == r.stack
        at == {k \in DOMAIN stack : stack[k] = "VirtualHostRoot"}
        ii == CHOOSE k \in at : \A j \in at : k <= j
        run == VhRun(stack, ii)
        pp == [k \in 1 .. Cardinality(run) |-> Segment[stack[ii - k]]]
        given == ii > 1 /\ stack[ii - 1] \in DOMAIN Virtual
        low == SubSeq(stack, 1, IF given THEN ii - 2 ELSE ii - 1 - Cardinality(run))
        mark == IF given THEN stack[ii - 1] ELSE VirtualName(pp)
    IN  IF at = {} THEN r
        ELSE IF ii = Len(stack) THEN [SetVirtualRoot(r, Virtual[mark]) EXCEPT !.stack = low]
        ELSE [r EXCEPT !.stack = low \o <<mark, id>> \o SubSeq(stack, ii + 1, Len(stack))]

\* VirtualHostMonster.__call__: VirtualHostBase, protocol and host leave the
\* stack; without any directive the host may be mapped.
Virtualized(r, v) ==
    LET id == site.name[v]
        based == r.stack # <<>> /\ Last(r.stack) = "VirtualHostBase"
        left == IF based THEN [r EXCEPT !.stack = SubSeq(@, 1, Len(@) - 3)] ELSE r
        rooted == "VirtualHostRoot" \in ToSet(left.stack)
        mapped == Head(HostMap) = "/"
    IN  IF based \/ rooted THEN Converted(left, id)
        ELSE IF r.q.rule # "map" THEN r
        ELSE Converted([r EXCEPT !.stack = @ \o (IF mapped THEN <<"/", id>> \o Tail(HostMap) ELSE HostMap)], id)

\* BrowserIdManagerTraverser.__call__ of the manager found from the container;
\* fresh is what getNewBrowserId would return.
BidsTraversed(r, m, fresh) ==
    LET n == Len(r.stack)
        given == n >= 2 /\ r.stack[n] = BidName /\ r.stack[n - 1] \in Bids
        popped == IF given
                  THEN [r EXCEPT !.stack = SubSeq(@, 1, n - 2), !.bid = r.stack[n - 1], !.from = "url"]
                  ELSE [r EXCEPT !.from = "none"]
        bid == IF given THEN popped.bid ELSE fresh
    IN  IF m = NoNode THEN r
        ELSE IF ~site.conf[m].auto THEN popped
        ELSE [popped EXCEPT !.bid = bid, !.script = @ \o <<BidName, bid>>]

\* SessionDataManagerTraverser.__call__: getSessionData becomes lazy
SessionsTraversed(r, m) == IF m \in SdManagers THEN [r EXCEPT !.lazy = m] ELSE r

\* MultiHook and NameCaller
Hooked(r, app, fresh) ==
    LET c == r.object
        id == IF c \in Folders THEN site.hooks[c][app] ELSE NoId
        m == Acquired(site, r.parents, id)
    IN  IF id = NoId THEN r
        ELSE CASE app = "monster" -> IF m \in Monsters THEN Virtualized(r, m) ELSE r
               [] app = "bids" -> BidsTraversed(r, m, fresh)
               [] app = "sessions" -> SessionsTraversed(r, m)

Fresh(b) == b # jar /\ b # req.bid /\ b \notin ToSet(Rewritten(req.q)) /\ b # req.q.form

\* __before_publishing_traverse__ of the object, in the order of the priorities
CallHooks(fresh) ==
    /\ req.pc = "hooks" /\ Fresh(fresh)
    /\ req' = [FoldLeft(LAMBDA r, app : Hooked(r, app, fresh), req, Apps) EXCEPT !.pc = "names"]
    /\ UNCHANGED <<site, jar>>

\* A request that ends without an object
Refused(r, outcome) == [r EXCEPT !.pc = "answered", !.outcome = outcome]

\* getRoles with the roles so far as its default
Reached(r, n) ==
    [r EXCEPT !.pc = "hooks", !.object = n, !.parents = Append(@, n),
              !.roles = IF RoleOf[n] = "unspecified" THEN @ ELSE RoleOf[n],
              !.steps = Append(@, r.entry), !.target = IF n = Handler THEN r.object ELSE @]

\* Mutated: the container of the monster is lost.
ForgetContainer(r, v) ==
    LET back == SetVirtualRoot([r EXCEPT !.parents = Front(@)], Virtual[v])
    IN  [back EXCEPT !.pc = "hooks", !.object = Last(back.parents), !.steps = Append(@, r.entry),
                     !.parents = SubSeq(@, Len(@), Len(@))]

\* VirtualHostMonster.__bobo_traverse__: away from the monster
TraversedAway(r, v) ==
    LET back == SetVirtualRoot([r EXCEPT !.parents = Front(@)], Virtual[v])
    IN  [back EXCEPT !.pc = "hooks", !.object = Last(back.parents), !.steps = Append(@, r.entry)]

\* traverseName and DefaultPublishTraverse.publishTraverse, with the
\* __bobo_traverse__ of the application, monsters and null resources
Traversed(r) ==
    LET id == r.entry
        n == IF id = "PUT" THEN Handler ELSE Acquired(site, r.parents, id)
    IN  IF id \in BadNames THEN Refused(r, "forbidden")
        ELSE IF r.object \in Monsters /\ id \in DOMAIN Virtual THEN TraversedAway(r, id)
        ELSE IF n \in Undocumented THEN Refused(r, "forbidden")
        ELSE IF n # NoNode THEN Reached(r, n)
        ELSE IF r.q.method # "PUT" THEN Refused(r, "notfound")
        ELSE IF r.object = NullRes THEN Refused(r, "conflict")
        ELSE IF r.object \in Folders THEN Reached(r, NullRes)
        ELSE Refused(r, "notfound")

\* One more name is traversed, and belongs to the URL.
Entered(r, id) ==
    Traversed([r EXCEPT !.entry = id, !.usteps = Append(@, id), !.url = Append(@, id),
                        !.last = Append(r.url, id)])

NextName ==
    /\ req.pc = "names" /\ req.stack # <<>>
    /\ req' = Entered([req EXCEPT !.stack = Front(@)], Last(req.stack))
    /\ UNCHANGED <<site, jar>>

\* Mutated: an acquired object is good enough for PUT.
AsFound(r) == r.object

\* A client of WebDAV does not get an acquired object, but a null resource.
NotAcquired(r) ==
    LET n == r.object
        container == Last(Front(r.parents))
    IN  IF r.q.method = "PUT" /\ n \in Nodes \ ({Root} \cup Monsters) /\ site.place[n] # container
        THEN NullRes ELSE n

\* Their index_html is None.
Documents == Nodes \ (Folders \cup Monsters \cup UserFolders \cup BidManagers \cup SdManagers)

\* Whether the object has the method, which is not None
HasMethod(r, object) ==
    IF r.look = "PUT" THEN object # Handler
    ELSE object \in Nodes \ Documents /\ Acquired(site, r.parents, r.look) # NoNode

\* The end of the path: the default method, unless it was named
DefaultMethod ==
    LET object == NotAcquired(req)
    IN  /\ req.pc = "names" /\ req.stack = <<>>
        /\ HasMethod(req, object) /\ req.entry # req.look
        /\ req' = Entered([req EXCEPT !.object = object, !.look = "index_html"], req.look)
        /\ UNCHANGED <<site, jar>>

\* The end of the loop; the URL will be that of the last step.
EndOfPath ==
    LET object == NotAcquired(req)
    IN  /\ req.pc = "names" /\ req.stack = <<>>
        /\ ~(HasMethod(req, object) /\ req.entry # req.look)
        /\ req' = [req EXCEPT !.pc = "authorize", !.object = object, !.url = req.last]
        /\ UNCHANGED <<site, jar>>

-----------------------------------------------------------------------------
(* Authorization *)

\* validate of a user folder; the one of the root also knows Nobody.
Validate(acl, r) ==
    IF r.q.auth \in KnownIn[acl] THEN r.q.auth
    ELSE IF site.place[acl] = Root /\ r.roles # "protected" THEN Nobody ELSE NoUser

\* The object and its parents from the nearest, those that have __allow_groups__
Authorize ==
    LET parents == Reverse(Front(req.parents))
        Groups(n) == IF n \in Folders THEN site.groups[n] ELSE NoNode
        asked == [i \in 0 .. Len(parents) |-> IF i = 0 THEN req.object ELSE parents[i]]
        known == {i \in DOMAIN asked : /\ Groups(asked[i]) # NoNode
                                       /\ Validate(Groups(asked[i]), req) # NoUser}
        i == CHOOSE k \in known : \A j \in known : k <= j
        \* steps[:-i]
        path == SubSeq(req.steps, 1, IF i = 0 THEN 0 ELSE Len(req.steps) - i)
    IN  /\ req.pc = "authorize"
        /\ req' = IF known # {}
                  THEN [req EXCEPT !.pc = "called", !.outcome = "ok", !.upath = path,
                                   !.user = Validate(Groups(asked[i]), req)]
                  ELSE IF req.roles # "unspecified" THEN Refused(req, "unauthorized")
                  ELSE [req EXCEPT !.pc = "called", !.outcome = "ok"]
        /\ UNCHANGED <<site, jar>>

-----------------------------------------------------------------------------
(* The application asks for its session *)

\* Mutated: the cookie is set only where cookies come first.
CookieIfFirst(r, m, create, fresh) ==
    LET ns == site.conf[m].ns
        Sent(name) == IF name = "cookies" THEN jar ELSE IF name = "form" THEN r.q.form ELSE NoBid
        at == {k \in DOMAIN ns : Sent(ns[k]) \in Bids}
        name == ns[CHOOSE k \in at : \A j \in at : k <= j]
    IN  IF r.bid # NoBid THEN r
        ELSE IF at # {} THEN [r EXCEPT !.bid = Sent(name), !.from = name]
        ELSE IF ~create THEN r
        ELSE [r EXCEPT !.bid = fresh, !.from = "none", !.cookie = IF Head(ns) = "cookies" THEN fresh ELSE @]

\* BrowserIdManager.getBrowserId
WithBrowserId(r, m, create, fresh) ==
    LET ns == site.conf[m].ns
        Sent(name) == IF name = "cookies" THEN jar ELSE IF name = "form" THEN r.q.form ELSE NoBid
        at == {k \in DOMAIN ns : Sent(ns[k]) \in Bids}
        name == ns[CHOOSE k \in at : \A j \in at : k <= j]
    IN  IF r.bid # NoBid THEN r
        ELSE IF at # {} THEN [r EXCEPT !.bid = Sent(name), !.from = name]
        ELSE IF ~create THEN r
        ELSE [r EXCEPT !.bid = fresh, !.from = "none",
                       !.cookie = IF "cookies" \in ToSet(ns) THEN fresh ELSE @]

\* The nearest manager that a session data manager acquires
ManagerOf(s, m) == Acquired(s, Climb(s, m), "browser_id_manager")

\* REQUEST.SESSION: getSessionData, promoted when it is first asked for
UseSession(fresh) ==
    LET m == ManagerOf(site, req.lazy)
        r == WithBrowserId(req, m, TRUE, fresh)
    IN  /\ req.pc = "called" /\ req.lazy # NoNode /\ Fresh(fresh) /\ m # NoNode
        /\ req' = [r EXCEPT !.lazy = NoNode, !.key = r.bid]
        /\ UNCHANGED <<site, jar>>

\* browser_id_manager.getBrowserId, acquired from the object that is published
GetBrowserId(create, fresh) ==
    LET m == Acquired(site, req.parents, "browser_id_manager")
    IN  /\ req.pc = "called" /\ m # NoNode /\ Fresh(fresh) /\ req.bid = NoBid
        /\ req' = WithBrowserId(req, m, create, fresh) /\ UNCHANGED <<site, jar>>

\* flushBrowserIdCookie and setBrowserIdCookieByForce
SetCookie(bid) ==
    LET m == Acquired(site, req.parents, "browser_id_manager")
    IN  /\ req.pc = "called" /\ m # NoNode /\ "cookies" \in ToSet(site.conf[m].ns)
        /\ req' = [req EXCEPT !.cookie = bid, !.forced = TRUE] /\ UNCHANGED <<site, jar>>

\* The response, and what the browser keeps of it
Respond ==
    /\ req.pc \in {"called", "answered"}
    /\ req' = NoRequest
    /\ jar' = IF req.cookie = Deleted THEN NoBid ELSE IF req.cookie # NoBid THEN req.cookie ELSE jar
    /\ UNCHANGED site

Init == site \in Sites /\ req = NoRequest /\ jar \in Bids \cup {NoBid}

Next ==
    \/ \E n \in Managed, c \in Folders, id \in Titles, wanted \in BOOLEAN, conf \in Namespaces :
          AddManager(n, c, id, wanted, conf)
    \/ \E n \in Managed : DelObject(n)
    \/ \E n \in Managed, id \in Titles : RenameObject(n, id)
    \/ \E m \in BidManagers, conf \in Namespaces : ChangeBids(m, conf)
    \/ \E m \in SdManagers, wanted \in BOOLEAN : ChangeSDM(m, wanted)
    \/ \E q \in Requests : Start(q)
    \/ \E b \in Bids : CallHooks(b)
    \/ NextName
    \/ DefaultMethod
    \/ EndOfPath
    \/ Authorize
    \/ \E b \in Bids : UseSession(b)
    \/ \E create \in BOOLEAN, b \in Bids : GetBrowserId(create, b)
    \/ \E b \in Bids \cup {Deleted} : SetCookie(b)
    \/ Respond

Spec == Init /\ [][Next]_vars

-----------------------------------------------------------------------------
(* URLs *)

\* physicalPathToVirtualPath
VirtualPath(r, path) ==
    LET same == {k \in 0 .. Len(path) : k <= Len(r.vroot) /\ \A j \in 1 .. k : path[j] = r.vroot[j]}
        k == CHOOSE x \in same : \A y \in same : y <= x
    IN  SubSeq(path, k + 1, Len(path))

\* physicalPathToURL and physicalPathFromURL, without the server
UrlOf(r, path) == r.script \o VirtualPath(r, path)
PathFrom(r, url) == r.vroot \o SubSeq(url, Len(r.script) + 1, Len(url))

-----------------------------------------------------------------------------
(* Properties *)

\* However managers, and folders with managers in them, are added, renamed,
\* changed and deleted, a container calls exactly the hooks of what is in it and
\* asks its own user folder.  (Session data managers forget theirs when they, or the
\* folder they are in, are renamed or moved.)
HooksFitTheSite ==
    \A c \in {Root} \cup {f \in Folders : site.place[f] # NoNode} : Fits(site, c)

\* Whatever hooks and monsters do to the stack and the parents, the containers of
\* every object passed are among the parents, so that the user folder of each is
\* asked, and the root's can always let its users in.
ParentsAreClosed ==
    \A k \in DOMAIN req.parents :
        req.parents[k] \in Nodes => ToSet(Climb(site, req.parents[k])) \subseteq ToSet(req.parents)

\* PUT never goes to an object that was acquired: it goes to one that is in the
\* container named before it, or to a null resource of that container.
NothingAcquiredIsWritten ==
    req.pc = "called" /\ req.object = Handler /\ req.target \in Nodes \ ({Root} \cup Monsters) =>
        site.place[req.target] = req.parents[Len(req.parents) - 2]

\* With any rewriting, and wherever the virtual root is, the parts of the URL are
\* those that the client asked for; and the absolute URL of an object that was
\* found in its containers is the one it was asked for, and leads back to it.
\* (Ids of browsers in URLs aside.)
UrlsAreTheClients ==
    req.pc = "called" /\ BidName \notin ToSet(req.script \o Rewritten(req.q)) =>
        LET asked == Asked(req.q)
            default == IF \/ req.object = Handler
                          \/ /\ req.steps # <<>> /\ Last(req.steps) = "index_html"
                             /\ asked = <<>> \/ Last(asked) # "index_html"
                       THEN <<Last(req.steps)>> ELSE <<>>
            named == IF default = <<>> THEN req.object ELSE req.parents[Len(req.parents) - 1]
            path == PathOf(site, named)
        IN  /\ req.script \o req.usteps = asked \o default
            /\ named \in Nodes /\ path = PathFrom(req, asked) => UrlOf(req, path) = asked
            /\ \A n \in ToSet(Climb(site, named)) \cap Nodes :
                  IsPrefix(req.vroot, PathOf(site, n)) =>
                      PathFrom(req, UrlOf(req, PathOf(site, n))) = PathOf(site, n)

\* A session that a request used is not lost with its response: the browser has
\* the id, unless the application sets another, or the managers do without cookies
\* or put an id of their own in every URL.
SessionsComeBack ==
    [][req.pc = "called" /\ req'.pc = "idle" /\ req.key = req.bid /\ req.bid # NoBid =>
          \/ jar' = req.bid \/ req.from \in {"url", "form"} \/ req.forced
          \/ \E m \in {x \in BidManagers : site.place[x] # NoNode} :
                "cookies" \notin ToSet(site.conf[m].ns) \/ site.conf[m].auto]_vars

=============================================================================
