\* Every order of tokens, timers and takes; a batch is collected even when
\* nothing is assumed of the periodic timer.
CONSTANTS
    Recorders = {r1, r2}
    Observers = {o1}
    Names = {n1}
    Timeouts = {2, 4}
    Configured = 4
    Floor = 2
    Grace = 1
    Batch = 2
    MaxPending = 3
    Prompt = FALSE
SPECIFICATION FairSpec
INVARIANTS TypeOK NoLostWakeup NoLostConfig HysteriaRunCoolsDown
PROPERTIES BatchIsCollected ConfigTakesEffect
