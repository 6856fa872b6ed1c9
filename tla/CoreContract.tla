---------------------------- MODULE CoreContract ----------------------------
(***************************************************************************)
(* What the core manager promises to those who call it: the timer's        *)
(* service, the installer and the uninstaller.  It says nothing of builds, *)
(* containers, files and metadata, only which core is installed, whether   *)
(* the installed one runs and whether there is a way back to the stock one.*)
(* CoreManager implements it, Maintenance is built on its actions.         *)
(***************************************************************************)
CONSTANT Procs      \* processes that run a command of the core manager

VARIABLES
    core,       \* the installed core: "stock", "patched", or "legacy"
    running,    \* does the container run the installed core?
    recorded,   \* does the metadata lead this container back to stock?
    spoiled,    \* did a process die, or a rollback fail, in this container?
    at          \* process -> "out", its command inside, or its exit status

vars == <<core, running, recorded, spoiled, at>>

Cores    == {"stock", "patched", "legacy"}
Commands == {"ensure", "restore"}
Statuses == {"ok", "failed"}

Inside == {p \in Procs : at[p] \in Commands}

\* A patched core can be taken back, and what is installed runs.
Settled == running /\ (core = "patched" => recorded)

Init ==
    /\ core \in {"stock", "legacy"}
    /\ running = TRUE
    /\ recorded \in BOOLEAN
    /\ spoiled = FALSE
    /\ at = [p \in Procs |-> "out"]

\* A step that takes effect may still be reported as failed and end the command.
MayFail(p) ==
    \/ UNCHANGED at
    \/ at' = [at EXCEPT ![p] = "failed"] /\ (Settled' \/ spoiled')

-----------------------------------------------------------------------------

Enter(p, command) ==
    /\ at[p] = "out"
    /\ at' = [at EXCEPT ![p] = command]
    /\ UNCHANGED <<core, running, recorded, spoiled>>

\* Only a stock core is patched.  The old process goes on until the restart.
Replace(p) ==
    /\ at[p] = "ensure"
    /\ core = "stock"
    /\ core' = "patched"
    /\ running' \in BOOLEAN
    /\ spoiled' \in {spoiled, TRUE}
    /\ UNCHANGED <<recorded, at>>

Restore(p) ==
    /\ p \in Inside
    /\ core' = "stock"
    /\ running' \in BOOLEAN
    /\ spoiled' \in {spoiled, TRUE}
    /\ UNCHANGED recorded
    /\ MayFail(p)

Restart(p) ==
    /\ p \in Inside
    /\ running' \in BOOLEAN
    /\ UNCHANGED <<core, recorded, spoiled>>
    /\ MayFail(p)

RestartBySomebody ==
    /\ running' \in BOOLEAN
    /\ UNCHANGED <<core, recorded, spoiled, at>>

\* Metadata is written for a patched core that has been seen running.
Record(p) ==
    /\ at[p] = "ensure"
    /\ core = "patched"
    /\ running
    /\ recorded' = TRUE
    /\ UNCHANGED <<core, running, spoiled, at>>

\* The process is killed, or a rollback fails.
Spoil(p) ==
    /\ p \in Inside
    /\ spoiled' = TRUE
    /\ UNCHANGED <<core, running, recorded>>
    /\ MayFail(p)

\* A command leaves a settled container behind, whether it has succeeded or
\* not, and a restore that reports success leaves the stock core.
Leave(p, status) ==
    /\ p \in Inside
    /\ Settled \/ spoiled
    /\ at[p] = "restore" /\ status = "ok" => core = "stock"
    /\ at' = [at EXCEPT ![p] = status]
    /\ UNCHANGED <<core, running, recorded, spoiled>>

\* Whoever started the command reads its exit status.
Collect(p) ==
    /\ at[p] \in Statuses
    /\ at' = [at EXCEPT ![p] = "out"]
    /\ UNCHANGED <<core, running, recorded, spoiled>>

\* The metadata is removed with the program: not while it is needed.
Forget ==
    /\ core # "patched"
    /\ Inside = {}
    /\ recorded' = FALSE
    /\ UNCHANGED <<core, running, spoiled, at>>

\* A new container, with the stock core of its image.
Recreate ==
    /\ core' = "stock"
    /\ running' = TRUE
    /\ recorded' = FALSE
    /\ spoiled' = FALSE
    /\ UNCHANGED at

Next ==
    \/ \E p \in Procs :
          \/ Inside = {} /\ \E c \in Commands : Enter(p, c)
          \/ Replace(p) \/ Restore(p) \/ Record(p) \/ Spoil(p)
          \/ \E s \in Statuses : Leave(p, s)
          \/ Restart(p) \/ Collect(p)
    \/ RestartBySomebody
    \/ Forget
    \/ Recreate

Spec == Init /\ [][Next]_vars
=============================================================================
