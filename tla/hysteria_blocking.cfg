\* A blocked write and a datagram of another session: the comment against the code.
CONSTANTS
    Ids = {i1, i2}
    Conns = {c1, c2}
    Users = {u1}
    Largest = 14
    Second = 2
    Minute = 5
    Grace = 1
    MinCap = 1
    MaxCap = 9
    Seconds = 9
    EnvCap = 1
    ChanSize = 1
    MaxTime = 4
    Nil = Nil
    Feeder = Feeder
    Cleaner = Cleaner
SPECIFICATION Spec
CHECK_DEADLOCK FALSE
INVARIANTS WriteBlocksOnlyItsSession
