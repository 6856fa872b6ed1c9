\* One session, two requests, the cleaner goroutines scheduled fairly.
CONSTANTS
    Ids = {i1}
    Ptrs = {p1}
    Requests = {r1, r2}
    IdleTTL = 1
    CheckInterval = 2
    Grace = 1
    PreconnectTTL = 1
    MaxTime = 3
    Closes = TRUE
    Nil = Nil
SPECIFICATION FairSpec
CHECK_DEADLOCK FALSE
PROPERTIES IdleIsReaped UnconnectedExpires RemovedIsClosed
