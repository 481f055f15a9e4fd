\* one client that transfers, restarts, or moves about; or two that log in
CONSTANTS
    c1 = c1
    c2 = c2
    Channels = {c1, c2}
    Dcs = {1, 2}
    Plans <- MCPlans
    AnonLimit = 1
    UserLimit = 1
    TotalLimit = 2
    Urgent = FALSE
    Home = "/"
    NoPath = NoPath
    NoUser = NoUser
    NoDc = NoDc
    NoLoad = NoLoad
    NoId = 0
SPECIFICATION FairSpec
INVARIANTS  DataIsAsked 
PROPERTIES EveryCommandAnswered
CHECK_DEADLOCK FALSE
