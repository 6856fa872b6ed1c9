\* One ID that two sessions use in turn, two requests, the whole shutdown.
CONSTANTS
    Ids = {i1}
    Ptrs = {p1, p2}
    Requests = {r1, r2}
    IdleTTL = 1
    CheckInterval = 2
    Grace = 1
    PreconnectTTL = 1
    MaxTime = 3
    Closes = TRUE
    Nil = Nil
SPECIFICATION Spec
SYMMETRY Symmetry
VIEW LiveView
CHECK_DEADLOCK FALSE
INVARIANTS TypeOK RegisteredIsOpen ReaperHoldsOnlyOld ShutdownLeavesOnlyLate
PROPERTIES RemovalJustified
