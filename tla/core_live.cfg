\* The timer's process scheduled fairly, one recreation, one fault.
CONSTANTS
    Timer = timer
    Procs = {timer, admin}
    Versions = {v1, v2}
    Qualities = {"good", "crash"}
    MaxGen = 2
    MaxFaults = 1
    Nil = Nil
SPECIFICATION FairSpec
PROPERTIES CommandsEnd EnsureConverges
