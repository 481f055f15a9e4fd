\* one orderly connection, or two with bad requests, with fairness
CONSTANTS
    c1 = c1  c2 = c2  c3 = c3
    r1 = r1  r2 = r2  r3 = r3  r4 = r4  r5 = r5  r6 = r6  r7 = r7
    Channels = {c1, c2, c3}
    Workers = {w1, w2}
    Requests = {r1, r2, r3, r4, r5, r6, r7}
    Pipeline <- Clients
    Kind <- Sent
    Together <- OneOrTwo
    MaxWrites = 1
    NoRequest = NoRequest
    NoChannel = NoChannel
SPECIFICATION FairSpec
INVARIANTS OneRequestAtATime NoLostWakeup
PROPERTIES AnswersInOrder 
CHECK_DEADLOCK FALSE
