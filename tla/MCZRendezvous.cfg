\* three workers, two callers, three requests
CONSTANTS
    Threads = {t1, t2, t3}
    Callers = {c1, c2}
    Requests = {r1, r2, r3}
    NoRequest = NoRequest
    Nobody = Nobody
    Constructor = Constructor
SPECIFICATION FairSpec
INVARIANTS NoLostWakeup
PROPERTIES ImplementsQueue ConservesWork
CHECK_DEADLOCK FALSE
