---------------------------- MODULE Maintenance ----------------------------
(***************************************************************************)
(* How the parts are put together on a host: the systemd timer with its    *)
(* service (`ensure', then a sweep), the installer, the menu and the       *)
(* uninstaller, all of which run the core manager.                         *)
(*                                                                         *)
(* The core manager is reduced to what its callers see (CoreContract, which*)
(* CoreManager implements) and to the files it depends on.  The uninstaller*)
(* removes those files, and systemd does not stop a service because its    *)
(* timer has been disabled.                                                *)
(***************************************************************************)
EXTENDS Integers

CONSTANTS
    Service,    \* remnanode-xhttp-clean.service
    Admin,      \* the shell of the administrator, who does one thing at a time
    MaxLocks,   \* bound on the lock files ever created
    MaxFaults   \* bound on timeouts and kills

ASSUME MaintenanceAssumption ==
    /\ Service # Admin
    /\ MaxLocks \in Nat \ {0}
    /\ MaxFaults \in Nat

Procs == {Service, Admin}

VARIABLES
    core, running, recorded, spoiled, at,   \* see CoreContract
    timer,      \* is the timer enabled and active?
    files,      \* what is installed: "cleaner" with units and menu, "manager",
                \* and "v3" as long as the cleaner is that of release 3
    conf,       \* remnanode-xhttp-clean.json: "none", "v3" (without the switch of
                \* release 4), "own" choices, "invalid" values, "broken" (no JSON)
    backup,     \* stock-xray of this container in the state directory
    artifact,   \* the patched core in the cache
    lockfile,   \* the inode of core-manager.lock, 0 when there is none
    inodes,     \* inodes used so far
    opened,     \* process -> the lock file it has opened
    pc,         \* process -> control state
    task,       \* the administrator's command
    wasOn,      \* timer_was_enabled of the uninstaller
    quiet,      \* history: nothing was running when uninstall disabled the timer
    torn,       \* history: an uninstall that was not quiet has removed the state
    faults

coreVars == <<core, running, recorded, spoiled>>
unitVars == <<timer, files, conf>>
diskVars == <<backup, artifact, lockfile, inodes>>
adminVars == <<task, wasOn>>
histVars == <<quiet, torn, faults>>
vars == <<coreVars, at, unitVars, diskVars, opened, pc, adminVars, histVars>>

Core == INSTANCE CoreContract

Tasks == {"install", "update", "rollback", "enable", "disable", "uninstall"}

CommandPcs == {"open", "wait", "look", "build", "backup", "stage", "mv", "restart",
               "record", "undo", "revert", "ok", "error", "exit"}

AdminPcs == {"migrate", "copy", "units", "start", "started", "enable", "off", "stop",
             "disable", "abort", "unlink", "rmmanager", "rmstate", "rmcache", "gone"}

TypeOK ==
    /\ core \in Core!Cores
    /\ at \in [Procs -> {"out"} \cup Core!Commands \cup Core!Statuses]
    /\ {running, recorded, spoiled, timer, wasOn, backup, artifact, quiet, torn}
          \subseteq BOOLEAN
    /\ files \subseteq {"cleaner", "manager", "v3"}
    /\ conf \in {"none", "v3", "own", "invalid", "broken"}
    /\ lockfile \in {0, inodes}
    /\ inodes \in 0..MaxLocks
    /\ opened \in [Procs -> 0..MaxLocks]
    /\ pc[Service] \in CommandPcs \cup {"idle", "sweep"}
    /\ pc[Admin] \in CommandPcs \cup AdminPcs \cup {"idle"}
    /\ task \in Tasks \cup {"none"}
    /\ faults \in 0..MaxFaults

\* A host without the program, or with release 3 and its patched core.
Init ==
    /\ timer \in BOOLEAN
    /\ files = IF timer THEN {"cleaner", "manager", "v3"} ELSE {}
    /\ conf = IF timer THEN "v3" ELSE "none"
    /\ core = IF timer THEN "legacy" ELSE "stock"
    /\ recorded \in {FALSE, timer}
    /\ backup = recorded
    /\ lockfile = IF timer THEN 1 ELSE 0
    /\ inodes = lockfile
    /\ running = TRUE /\ spoiled = FALSE /\ artifact = FALSE
    /\ at = [p \in Procs |-> "out"]
    /\ opened = [p \in Procs |-> 0]
    /\ pc = [p \in Procs |-> "idle"]
    /\ task = "none" /\ wasOn = FALSE
    /\ quiet = FALSE /\ torn = FALSE
    /\ faults = 0

Goto(p, l) == pc' = [pc EXCEPT ![p] = l]

Step(p, from, to) == pc[p] = from /\ Goto(p, to)

-----------------------------------------------------------------------------
(* The commands of the core manager.                                       *)

\* load_container reads the name of the container and nothing else; Config.load
\* also refuses unknown keys and bad values, and does without a file.
HasContainer == conf \notin {"none", "broken"}
Loadable     == conf \notin {"invalid", "broken"}

\* Bug: the lock file is replaced by a new one.
OpenAnew(p) ==
    /\ Step(p, "open", IF HasContainer THEN "wait" ELSE "exit")
    /\ inodes' = IF HasContainer THEN inodes + 1 ELSE inodes
    /\ lockfile' = IF HasContainer THEN inodes' ELSE lockfile
    /\ opened' = [opened EXCEPT ![p] = lockfile']
    /\ UNCHANGED <<coreVars, at, unitVars, backup, artifact, adminVars, histVars>>

\* operation_lock creates the state directory and the lock file if need be.
Open(p) ==
    /\ pc[p] = "open"
    /\ IF HasContainer
       THEN /\ Goto(p, "wait")
            /\ inodes' = IF lockfile = 0 THEN inodes + 1 ELSE inodes
            /\ lockfile' = inodes'
            /\ opened' = [opened EXCEPT ![p] = lockfile']
       ELSE /\ Goto(p, "exit")
            /\ UNCHANGED <<inodes, lockfile, opened>>
    /\ UNCHANGED <<coreVars, at, unitVars, backup, artifact, adminVars, histVars>>

\* restore-if-patched and rollback take the stock core back.
CommandOf(p) ==
    IF p = Admin /\ task \in {"uninstall", "rollback"} THEN "restore" ELSE "ensure"

\* Bug: nobody asks for the lock.
EnterAtOnce(p) ==
    /\ Step(p, "wait", "look")
    /\ at' = [at EXCEPT ![p] = CommandOf(p)]
    /\ UNCHANGED <<coreVars, unitVars, diskVars, opened, adminVars, histVars>>

\* The flock belongs to the file that was opened, whatever has its name now.
Enter(p) ==
    /\ Step(p, "wait", "look")
    /\ \A q \in Core!Inside : opened[q] # opened[p]
    /\ at' = [at EXCEPT ![p] = CommandOf(p)]
    /\ UNCHANGED <<coreVars, unitVars, diskVars, opened, adminVars, histVars>>

CanRevert == recorded /\ backup

\* ensure and restore_if_patched: what is in the container?  A stock core may be
\* refused for many reasons (failure marker, build, tests, configuration).  A
\* rollback does not look at all.
Look(p) ==
    /\ pc[p] = "look"
    /\ \/ /\ IF at[p] = "restore" THEN core = "stock" /\ task # "rollback"
             ELSE core = "patched"
          /\ Goto(p, "ok")
       \/ /\ at[p] = "ensure"
          /\ core = "stock"
          /\ \E l \in {"build", "error"} : Goto(p, l)
       \/ /\ \/ core = "legacy"
             \/ at[p] = "restore" /\ (core = "patched" \/ task = "rollback")
          /\ Goto(p, IF CanRevert THEN "revert" ELSE "error")
    /\ UNCHANGED <<coreVars, at, unitVars, diskVars, opened, adminVars, histVars>>

\* The assets of the patch are below the manager's directory.
Build(p) ==
    /\ pc[p] = "build"
    /\ artifact' = (artifact \/ "manager" \in files)
    /\ Goto(p, IF artifact' THEN "backup" ELSE "error")
    /\ UNCHANGED <<coreVars, at, unitVars, backup, lockfile, inodes, opened,
                   adminVars, histVars>>

\* deploy looks again before it takes a backup.
Backup(p) ==
    /\ pc[p] = "backup"
    /\ backup' = (backup \/ core = "stock")
    /\ Goto(p, IF core = "stock" THEN "stage" ELSE "error")
    /\ UNCHANGED <<coreVars, at, unitVars, artifact, lockfile, inodes, opened,
                   adminVars, histVars>>

\* validate_inside_container.
Stage(p) ==
    /\ pc[p] = "stage"
    /\ \E l \in {"mv", "error"} : Goto(p, IF artifact THEN l ELSE "error")
    /\ UNCHANGED <<coreVars, at, unitVars, diskVars, opened, adminVars, histVars>>

Replace(p) ==
    /\ Step(p, "mv", "restart")
    /\ core' = "patched"
    /\ running' = FALSE
    /\ UNCHANGED <<recorded, spoiled, at, unitVars, diskVars, opened, adminVars, histVars>>

\* The patched core may not come up.
Restart(p) ==
    /\ running' \in BOOLEAN
    /\ Step(p, "restart", IF running' THEN "record" ELSE "undo")
    /\ UNCHANGED <<core, recorded, spoiled, at, unitVars, diskVars, opened, adminVars,
                   histVars>>

\* The metadata has the checksums of artifact and backup: both must exist.
Record(p) ==
    /\ pc[p] = "record"
    /\ recorded' = (recorded \/ (artifact /\ backup))
    /\ Goto(p, IF artifact /\ backup THEN "ok" ELSE "undo")
    /\ UNCHANGED <<core, running, spoiled, at, unitVars, diskVars, opened, adminVars,
                   histVars>>

\* rollback_binary.  The stock core comes up.
RollbackBinary ==
    /\ IF backup THEN core' = "stock" /\ running' = TRUE /\ UNCHANGED spoiled
       ELSE spoiled' = TRUE /\ UNCHANGED <<core, running>>
    /\ UNCHANGED <<recorded, at, unitVars, diskVars, opened, adminVars, histVars>>

\* The rollback of a failed deployment.
Undo(p) ==
    /\ Step(p, "undo", "error")
    /\ RollbackBinary

\* rollback: for `ensure' the way to an upgrade.
Revert(p) ==
    /\ Step(p, "revert", CASE ~backup -> "error"
                           [] backup /\ at[p] = "ensure" -> "look"
                           [] backup /\ at[p] = "restore" -> "ok")
    /\ RollbackBinary

\* A command ends and releases its lock.
Leave(p, status) ==
    /\ Goto(p, "exit")
    /\ at' = [at EXCEPT ![p] = status]
    /\ UNCHANGED <<coreVars, unitVars, diskVars, opened, adminVars, quiet, torn>>

\* The exit status; the service uses --nonfatal.
Exit(p) ==
    /\ pc[p] \in {"ok", "error"}
    /\ Leave(p, IF pc[p] = "ok" \/ (p = Service /\ core = "stock" /\ running)
                THEN "ok" ELSE "failed")
    /\ UNCHANGED faults

\* A command that times out is no CoreManagerError and ends `ensure --nonfatal'
\* with an error although the stock core runs.
Timeout(p) ==
    /\ pc[p] \in {"build", "error"}
    /\ faults < MaxFaults
    /\ faults' = faults + 1
    /\ Leave(p, "failed")

Command(p) ==
    \/ Open(p) \/ Look(p) \/ Build(p) \/ Backup(p) \/ Stage(p) \/ Replace(p)
    \/ Restart(p) \/ Record(p) \/ Undo(p) \/ Revert(p) \/ Exit(p)

\* The caller has read the exit status.
Collect(p) == at' = [at EXCEPT ![p] = "out"]

-----------------------------------------------------------------------------
(* The service: ExecStartPre, then ExecStart if it has succeeded.          *)

TimerFires ==
    /\ timer
    /\ {"cleaner", "manager"} \subseteq files
    /\ Step(Service, "idle", "open")
    /\ UNCHANGED <<coreVars, at, unitVars, diskVars, opened, adminVars, histVars>>

\* Bug: a build that fails costs the sweep.
PreEndsUnpatched ==
    /\ Step(Service, "exit",
            IF at[Service] = "ok" /\ core = "patched" /\ "cleaner" \in files /\ Loadable
            THEN "sweep" ELSE "idle")
    /\ Collect(Service)
    /\ UNCHANGED <<coreVars, unitVars, diskVars, opened, adminVars, histVars>>

PreEnds ==
    /\ Step(Service, "exit",
            IF at[Service] = "ok" /\ "cleaner" \in files /\ Loadable
            THEN "sweep" ELSE "idle")
    /\ Collect(Service)
    /\ UNCHANGED <<coreVars, unitVars, diskVars, opened, adminVars, histVars>>

Sweep ==
    /\ Step(Service, "sweep", "idle")
    /\ UNCHANGED <<coreVars, at, unitVars, diskVars, opened, adminVars, histVars>>

-----------------------------------------------------------------------------
(* The administrator: install.sh, the menu, command_uninstall.             *)

Begin(t) ==
    /\ Step(Admin, "idle", CASE t = "install" -> "migrate"
                             [] t \in {"update", "rollback"} -> "open"
                             [] t = "enable" -> "enable"
                             [] t = "disable" -> "off"
                             [] t = "uninstall" -> "disable")
    /\ t \in {"update", "rollback"} => "manager" \in files
    /\ t \in {"enable", "disable", "uninstall"} => "cleaner" \in files
    /\ t = "uninstall" => inodes < (IF lockfile = 0 THEN MaxLocks - 1 ELSE MaxLocks)
    /\ task' = t
    /\ UNCHANGED <<coreVars, at, unitVars, diskVars, opened, wasOn, histVars>>

\* The configuration is edited by hand, in the form of the installed release.
Edit ==
    /\ pc[Admin] = "idle"
    /\ "cleaner" \in files
    /\ conf' \in {"invalid", "broken", IF "v3" \in files THEN "v3" ELSE "own"}
    /\ UNCHANGED <<coreVars, at, timer, files, diskVars, opened, pc, adminVars, histVars>>

\* Bug: a configuration that exists is left alone.
MigrateNothing ==
    /\ Step(Admin, "migrate", IF conf = "broken" THEN "idle" ELSE "copy")
    /\ conf' = IF conf = "none" THEN "own" ELSE conf
    /\ UNCHANGED <<coreVars, at, timer, files, diskVars, opened, adminVars, histVars>>

\* write_initial_config: the choices of release 3 are reset, those of a later one
\* are kept, unchecked.
Migrate ==
    /\ Step(Admin, "migrate", IF conf = "broken" THEN "idle" ELSE "copy")
    /\ conf' = IF conf \in {"none", "v3"} THEN "own" ELSE conf
    /\ UNCHANGED <<coreVars, at, timer, files, diskVars, opened, adminVars, histVars>>

CopyManager ==
    /\ Step(Admin, "copy", "units")
    /\ files' = files \cup {"manager"}
    /\ UNCHANGED <<coreVars, at, timer, conf, diskVars, opened, adminVars, histVars>>

\* `remnanode-xhttp-clean.py install' enables the timer; only then the core is
\* built by install.sh.  It changes nothing when it refuses the configuration or
\* does not find the container running.
InstallUnits ==
    /\ \/ /\ Loadable
          /\ Step(Admin, "units", "open")
          /\ files' = (files \ {"v3"}) \cup {"cleaner"}
          /\ timer' = TRUE
       \/ /\ Step(Admin, "units", "idle")
          /\ UNCHANGED <<files, timer>>
    /\ UNCHANGED <<coreVars, at, conf, diskVars, opened, adminVars, histVars>>

\* Bug: the uninstaller does not look at the exit status of the restore.
ReturnsUnchecked ==
    /\ Step(Admin, "exit",
            CASE task = "install" /\ at[Admin] = "ok" -> "start"
              [] task = "uninstall" -> "unlink"
              [] OTHER -> "idle")
    /\ Collect(Admin)
    /\ UNCHANGED <<coreVars, unitVars, diskVars, opened, adminVars, histVars>>

\* An installer whose `ensure' fails ends there (set -e); the uninstaller goes on
\* only after a restore.
CommandReturns ==
    /\ Step(Admin, "exit",
            CASE task = "install" /\ at[Admin] = "ok" -> "start"
              [] task = "uninstall" /\ at[Admin] = "ok" -> "unlink"
              [] task = "uninstall" /\ at[Admin] # "ok" -> "abort"
              [] OTHER -> "idle")
    /\ Collect(Admin)
    /\ UNCHANGED <<coreVars, unitVars, diskVars, opened, adminVars, histVars>>

\* systemctl start joins a service that is already active.
StartService ==
    /\ pc[Admin] = "start"
    /\ pc' = [pc EXCEPT ![Admin] = "started",
                        ![Service] = IF @ = "idle" THEN "open" ELSE @]
    /\ UNCHANGED <<coreVars, at, unitVars, diskVars, opened, adminVars, histVars>>

ServiceReturns ==
    /\ pc[Service] = "idle"
    /\ Step(Admin, "started", "idle")
    /\ UNCHANGED <<coreVars, at, unitVars, diskVars, opened, adminVars, histVars>>

EnableTimer ==
    /\ Step(Admin, "enable", "start")
    /\ timer' = TRUE
    /\ UNCHANGED <<coreVars, at, files, conf, diskVars, opened, adminVars, histVars>>

DisableTimer ==
    /\ Step(Admin, "off", "stop")
    /\ timer' = FALSE
    /\ UNCHANGED <<coreVars, at, files, conf, diskVars, opened, adminVars, histVars>>

\* A process dies; the kernel releases its lock.
Dies(p) ==
    /\ at' = [at EXCEPT ![p] = IF p \in Core!Inside THEN "failed" ELSE @]
    /\ spoiled' = (spoiled \/ (p \in Core!Inside /\ ~Core!Settled))
    /\ UNCHANGED <<core, running, recorded>>

Afterwards(p) == IF p \in Core!Inside \/ pc[p] = "exit" THEN "exit" ELSE "idle"

\* The menu stops the service after its timer, in the middle of whatever it does.
StopService ==
    /\ pc[Admin] = "stop"
    /\ Dies(Service)
    /\ pc' = [pc EXCEPT ![Admin] = "idle", ![Service] = Afterwards(Service)]
    /\ UNCHANGED <<unitVars, diskVars, opened, adminVars, histVars>>

UninstallBegins ==
    /\ Step(Admin, "disable", IF "manager" \in files THEN "open" ELSE "unlink")
    /\ wasOn' = timer
    /\ timer' = FALSE
    /\ quiet' = (pc[Service] = "idle")
    /\ UNCHANGED <<coreVars, at, files, conf, diskVars, opened, task, torn, faults>>

\* The restore has failed: the timer is as it was before.
UninstallFails ==
    /\ Step(Admin, "abort", "idle")
    /\ timer' = wasOn
    /\ UNCHANGED <<coreVars, at, files, conf, diskVars, opened, adminVars, histVars>>

RemoveUnits ==
    /\ Step(Admin, "unlink", "rmmanager")
    /\ files' = files \ {"cleaner", "v3"}
    /\ conf' = "none"
    /\ UNCHANGED <<coreVars, at, timer, diskVars, opened, adminVars, histVars>>

RemoveManager ==
    /\ Step(Admin, "rmmanager", "rmstate")
    /\ files' = files \ {"manager"}
    /\ UNCHANGED <<coreVars, at, timer, conf, diskVars, opened, adminVars, histVars>>

\* Metadata, backups and the lock file.
RemoveState ==
    /\ Step(Admin, "rmstate", "rmcache")
    /\ recorded' = FALSE
    /\ backup' = FALSE
    /\ lockfile' = 0
    /\ torn' = (torn \/ ~quiet)
    /\ UNCHANGED <<core, running, spoiled, at, unitVars, artifact, inodes, opened,
                   adminVars, quiet, faults>>

RemoveCache ==
    /\ Step(Admin, "rmcache", "gone")
    /\ artifact' = FALSE
    /\ UNCHANGED <<coreVars, at, unitVars, backup, lockfile, inodes, opened, adminVars,
                   histVars>>

UninstallEnds ==
    /\ Step(Admin, "gone", "idle")
    /\ UNCHANGED <<coreVars, at, unitVars, diskVars, opened, adminVars, histVars>>

\* The administrator's shell is killed: what it has done of a command remains.
AdminKilled ==
    /\ pc[Admin] # "idle"
    /\ faults < MaxFaults
    /\ faults' = faults + 1
    /\ Dies(Admin)
    /\ Goto(Admin, Afterwards(Admin))
    /\ task' = "none"
    /\ UNCHANGED <<unitVars, diskVars, opened, wasOn, quiet, torn>>

-----------------------------------------------------------------------------

ServiceStep == Command(Service) \/ PreEnds \/ Sweep

AdminStep ==
    \/ Command(Admin) \/ CommandReturns
    \/ Migrate \/ CopyManager \/ InstallUnits \/ StartService \/ ServiceReturns
    \/ EnableTimer \/ DisableTimer \/ StopService
    \/ UninstallBegins \/ UninstallFails
    \/ RemoveUnits \/ RemoveManager \/ RemoveState \/ RemoveCache \/ UninstallEnds

Next ==
    \/ ServiceStep \/ AdminStep
    \/ TimerFires \/ AdminKilled \/ Edit
    \/ \E p \in Procs : Enter(p) \/ Timeout(p)
    \/ \E t \in Tasks : Begin(t)

Spec == Init /\ [][Next]_vars

(***************************************************************************)
(* The timer fires, a program that runs goes on, and whoever waits for the *)
(* lock gets it at some time.                                              *)
(***************************************************************************)
Fairness ==
    /\ WF_vars(TimerFires) /\ WF_vars(ServiceStep) /\ WF_vars(AdminStep)
    /\ \A p \in Procs : SF_vars(Enter(p))

FairSpec == Spec /\ Fairness

-----------------------------------------------------------------------------
(* Properties.                                                             *)

\* Whatever install, menu, timer and uninstall do at the same time, the host keeps
\* the contract of the core manager: one command at a time, a core is patched
\* only over the stock one, every command leaves a running core that can be taken
\* back, and no metadata goes that is still needed.  The exception is a host on
\* which an uninstall has removed the state beside a running service.
KeepsContract == Core!Init /\ [][torn' \/ Core!Next]_<<coreVars, at>>

\* An uninstall that found nothing running leaves nothing behind: the stock core,
\* no file, no lock, no timer, and nobody who would bring one back.
QuietUninstallIsClean ==
    pc[Admin] = "gone" /\ quiet =>
        /\ core = "stock" /\ ~recorded
        /\ files = {} /\ conf = "none" /\ ~backup /\ ~artifact /\ lockfile = 0
        /\ ~timer /\ pc[Service] = "idle"

\* A sweep of this release never works with a configuration of release 3, whose
\* choice of XHTTP sockets it would carry over into a mode that is off by default,
\* also while the installer is replacing that release.
SweepsAreMigrated == pc[Service] = "sweep" /\ "v3" \notin files => conf # "v3"

\* While the timer is on and the configuration is valid, the sweep goes on,
\* whatever becomes of builds, deployments and installations, unless a legacy
\* patch has no way back or the stock core is down.
Stuck == \/ core = "legacy" /\ ~CanRevert
         \/ core = "stock" /\ ~running
         \/ ~(HasContainer /\ Loadable)

SweepsGoOn == <>[](timer /\ ~Stuck) => []<>(pc[Service] = "sweep")

-----------------------------------------------------------------------------
(* What the documentation says, and the code does not keep.                *)

\* The comment in command_uninstall: rollback metadata is not removed while a
\* patched binary is still in the container.
MetadataOutlivesPatch == [][recorded /\ core = "patched" => recorded']_vars
=============================================================================
