\* No fault at all, one recreation during a rollback: the README against the code.
CONSTANTS
    Timer = timer
    Procs = {timer, admin}
    Versions = {v1, v2}
    Qualities = {"good"}
    MaxGen = 2
    MaxFaults = 0
    Nil = Nil
SPECIFICATION Spec
PROPERTIES NoOldBinaryInjected
