\* One id that two sessions use in turn, two users; every lock, the clock and
\* the users scheduled fairly.
CONSTANTS
    Ids = {i1}
    Conns = {c1, c2}
    Users = {u1, u2}
    Largest = 14
    Second = 2
    Minute = 5
    Grace = 1
    MinCap = 1
    MaxCap = 9
    Seconds = 9
    EnvCap = 1
    ChanSize = 1
    MaxTime = 3
    Nil = Nil
    Feeder = Feeder
    Cleaner = Cleaner
SPECIFICATION FairSpec
CHECK_DEADLOCK FALSE
INVARIANTS TypeOK OpenIffRegistered NoSendOnClosed NoLockCycle ExpiryIsExact
PROPERTIES ActivityWins NoCloseDuringWrite InactiveIsReleased CleanerTerminates
