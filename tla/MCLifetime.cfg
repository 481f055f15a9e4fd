\* two connections, one request each, one worker, with fairness
CONSTANTS
    c1 = c1  c2 = c2  r1 = r1  r2 = r2
    Channels = {c1, c2}
    Workers = {w1}
    Requests = {r1, r2}
    Pipeline <- OneEach
    Kind <- OneFault
    Together = {{c1, c2}}
    MaxWrites = 1
    NoRequest = NoRequest
    NoChannel = NoChannel
    Listener = Listener
SPECIFICATION LFairSpec
INVARIANTS CleanExit
PROPERTIES  ShutdownEnds
CHECK_DEADLOCK FALSE
