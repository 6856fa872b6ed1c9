\* The timer and one other command, two versions, one recreation, two faults.
CONSTANTS
    Timer = timer
    Procs = {timer, admin}
    Versions = {v1, v2}
    Qualities = {"good", "nobuild", "invalid", "crash"}
    MaxGen = 2
    MaxFaults = 2
    Nil = Nil
SPECIFICATION Spec
SYMMETRY Symmetry
INVARIANTS TypeOK RollbackIsPossible
PROPERTIES PatchReplacesItsStock FailureLeavesStock ImplementsContract
