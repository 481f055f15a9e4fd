------------------------------- MODULE Caching -------------------------------
(***************************************************************************)
(* A cacheable object in a folder in the root, and the cache managers of   *)
(* both (OFS/Cache.py).  The object names its manager by an id and         *)
(* acquires it; what it found is remembered in a volatile attribute for as *)
(* long as no manager is added or removed.  A cache is one of those that   *)
(* do not look at modification times; the caches themselves are external.  *)
(***************************************************************************)
EXTENDS Naturals, FiniteSets

CONSTANTS Ids,        \* of cache managers
          MaxAdded    \* managers that are ever added: a bound of the model

Levels == 1 .. 2      \* 1 is the folder of the object, 2 the root
None == "none"

VARIABLES
    managers,         \* level -> ids of the managers there
    list,             \* ZCM_MANAGERS: level -> ids
    object,           \* the object: manager_id, enabled, and _v_ZCacheable_cache with
                      \* whether its time stamp is manager_timestamp
    caches,           \* <<level, id>> -> "none", or the cached view: "fresh" or "stale"
    added, shadowed   \* history: managers added, and whether one came before another

cvars == <<managers, list, object, caches, added, shadowed>>

\* ZCacheable_getManager: the first container that has it and lists it
Reaches(id) == {p \in Levels : id \in managers[p] \cap list[p]}
ManagerOf(id) ==
    IF Reaches(id) = {} THEN None ELSE <<CHOOSE p \in Reaches(id) : \A q \in Reaches(id) : p <= q, id>>

\* ZCacheable_getCache, and the object after it
Remembers(o) == o.cache # None /\ o.current
CacheOf(o) ==
    CASE o.manager_id = None -> None
      [] o.manager_id # None /\ Remembers(o) -> o.cache
      [] OTHER -> ManagerOf(o.manager_id)
Remembering(o) ==
    IF CacheOf(o) = None \/ Remembers(o) THEN o ELSE [o EXCEPT !.cache = CacheOf(o), !.current = TRUE]

Emptied(at) == IF at = None THEN caches ELSE [caches EXCEPT ![at] = None]
Outdated(at) == [c \in DOMAIN caches |-> IF c = at \/ caches[c] = None THEN None ELSE "stale"]

-----------------------------------------------------------------------------
(* Cacheable *)

\* A view asks ZCacheable_get, and calls ZCacheable_set if it had to compute.
View ==
    /\ object' = Remembering(object)
    /\ LET at == CacheOf(object)
       IN  caches' = IF at # None /\ object.enabled /\ caches[at] = None
                     THEN [caches EXCEPT ![at] = "fresh"] ELSE caches
    /\ UNCHANGED <<managers, list, added, shadowed>>

\* The object is edited, and calls ZCacheable_invalidate.
Edit ==
    /\ object' = Remembering(object)
    /\ caches' = Outdated(CacheOf(object))
    /\ UNCHANGED <<managers, list, added, shadowed>>

SetManagerId(id) ==
    /\ caches' = Emptied(CacheOf(object))
    /\ object' = [Remembering(object) EXCEPT !.manager_id = id, !.cache = None]
    /\ UNCHANGED <<managers, list, added, shadowed>>

SetEnabled(enabled) ==
    /\ object' = [object EXCEPT !.enabled = enabled]
    /\ UNCHANGED <<managers, list, caches, added, shadowed>>

\* The database drops the object from its cache.
Deactivate ==
    /\ object' = [object EXCEPT !.cache = None, !.current = FALSE]
    /\ UNCHANGED <<managers, list, caches, added, shadowed>>

-----------------------------------------------------------------------------
(* CacheManager *)

\* getVerifiedManagerIds: getattr may acquire the manager from above.
Verified(p, there) == {id \in list[p] : \E q \in p .. 2 : id \in there[q]}

\* Mutated: volatile references are not dated.
OldTimestamp(o) == o

NewTimestamp(o) == [o EXCEPT !.current = FALSE]

\* manage_afterAdd.  An id that is still listed would not be announced; the last
\* manager of a container leaves its id behind, so it must not come back (see the README).
AddManager(p, id) ==
    /\ id \notin managers[p] /\ id \notin list[p] /\ added < MaxAdded
    /\ managers' = [managers EXCEPT ![p] = @ \cup {id}]
    /\ list' = [list EXCEPT ![p] = Verified(p, managers') \cup {id}]
    /\ object' = NewTimestamp(object)
    /\ caches' = [caches EXCEPT ![<<p, id>>] = None]
    /\ shadowed' = (shadowed \/ (ManagerOf(id) # None /\ p < ManagerOf(id)[1] /\ caches[ManagerOf(id)] # None))
    /\ added' = added + 1

\* manage_beforeDelete: delattr is tried on the manager, not on its container.
Unlisted(p, id) ==
    IF id \notin Verified(p, managers) \/ Verified(p, managers) = {id} THEN list[p]
    ELSE Verified(p, managers) \ {id}

DeleteManager(p, id) ==
    /\ id \in managers[p]
    /\ list' = [list EXCEPT ![p] = Unlisted(p, id)]
    /\ object' = IF id \in Verified(p, managers) THEN NewTimestamp(object) ELSE object
    /\ managers' = [managers EXCEPT ![p] = @ \ {id}]
    /\ caches' = [caches EXCEPT ![<<p, id>>] = None]
    /\ UNCHANGED <<added, shadowed>>

\* ZCacheManager_setAssociations, for the one object
Associate(p, id, associate) ==
    /\ id \in managers[p]
    /\ IF associate THEN object.manager_id # id /\ SetManagerId(id)
       ELSE object.manager_id = id /\ SetManagerId(None)

\* ZCacheable_getManagerIds: managers are looked up with getattr here.
Offered == {id \in Ids : \E p \in Levels : id \in Verified(p, managers)}

-----------------------------------------------------------------------------
CInit ==
    /\ managers = [p \in Levels |-> {}] /\ list = [p \in Levels |-> {}]
    /\ object = [manager_id |-> None, enabled |-> TRUE, cache |-> None, current |-> TRUE]
    /\ caches = [at \in Levels \X Ids |-> None]
    /\ added = 0 /\ shadowed = FALSE

CNext ==
    \/ View \/ Edit \/ Deactivate
    \/ \E id \in Ids \cup {None} : SetManagerId(id)
    \/ \E enabled \in BOOLEAN : SetEnabled(enabled)
    \/ \E p \in Levels, id \in Ids :
          AddManager(p, id) \/ DeleteManager(p, id) \/ (\E associate \in BOOLEAN : Associate(p, id, associate))

CSpec == CInit /\ [][CNext]_cvars

-----------------------------------------------------------------------------
(* Properties *)

\* However managers come and go in the folder and above it, and whenever the object was
\* last looked at: the cache that it remembers is that of the manager it would acquire; the
\* managers that are offered are those that it would find; and no view that was cached
\* outlives an edit, unless a manager came between the object and the one that cached it.
CachesAreCurrent ==
    /\ object.manager_id # None /\ Remembers(object) => object.cache = ManagerOf(object.manager_id)
    /\ \A id \in Ids : id \in Offered <=> ManagerOf(id) # None
    /\ ~shadowed => \A at \in DOMAIN caches : caches[at] # "stale"
=============================================================================
