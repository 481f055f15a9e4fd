\* every event's subscribers may raise anything
CONSTANTS
    r1 = r1  r2 = r2  r3 = r3  o1 = o1  o2 = o2
    Workers = {w1}
    Requests = {r1, r2}
    Objects = {o1, o2}
    Touches <- SameObject
    Dooms = {}
    Streams = {r2}
    Raises = {"error", "conflict", "retry", "redirect", "exit"}
    Failing = {"PubStart", "PubBeforeCommit", "PubSuccess", "PubBeforeAbort", "PubFailure"}
    RetryMaxCount = 2
    MaxConflictRetries = 2
    NoRequest = NoRequest
SPECIFICATION Spec
INVARIANTS StartsClean
PROPERTIES LoggedIsSent
CHECK_DEADLOCK FALSE
