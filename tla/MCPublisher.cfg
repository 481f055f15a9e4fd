\* three requests on two objects, one of them doomed, one retry
CONSTANTS
    r1 = r1  r2 = r2  r3 = r3  o1 = o1  o2 = o2
    Workers = {w1, w2}
    Requests = {r1, r2, r3}
    Objects = {o1, o2}
    Touches <- Overlapping
    Dooms = {r3}
    Streams = {}
    Raises = {"error", "conflict"}
    Failing = {}
    RetryMaxCount = 1
    MaxConflictRetries = 1
    NoRequest = NoRequest
SPECIFICATION FairSpec
INVARIANTS RetriesAreAnnounced
PROPERTIES ImplementsAtomic EveryRequestAnswered
CHECK_DEADLOCK FALSE
