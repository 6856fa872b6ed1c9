--------------------------- MODULE MaintenanceProofs ---------------------------
(***************************************************************************)
(* Theorems about Maintenance, for any number of uninstallations, timeouts *)
(* and kills.                                                              *)
(***************************************************************************)
EXTENDS Maintenance, TLAPS

USE DEF vars, coreVars, unitVars, diskVars, adminVars, histVars

-----------------------------------------------------------------------------
(* The inductive invariant.                                                *)

\* A process that holds the lock; one that works on the core with `ensure'.
InsidePcs == {"look", "build", "backup", "stage", "mv", "restart", "record", "undo",
              "revert", "ok", "error"}
EnsurePcs == {"build", "backup", "stage", "mv", "restart", "record", "undo"}

\* The core has been replaced, and nobody knows yet whether it does.
UnsettledPcs == {"restart", "record", "undo"}

\* An uninstallation: its restore, what it removes then.
RestorePcs == {"open", "wait", "exit"} \cup InsidePcs
RemovePcs  == {"unlink", "rmmanager", "rmstate", "rmcache", "gone"}

ControlInv ==
    /\ pc \in [Procs -> CommandPcs \cup AdminPcs \cup {"idle", "sweep"}]
    /\ \A p \in Procs :
          /\ pc[p] \in InsidePcs <=> at[p] \in Core!Commands
          /\ pc[p] \notin InsidePcs \cup {"exit"} => at[p] = "out"
          /\ pc[p] \in EnsurePcs => at[p] = "ensure"
    /\ pc[Admin] \in {"migrate", "copy", "units"} => task # "uninstall"
    /\ pc[Admin] \in RemovePcs \cup {"disable", "abort"} => task = "uninstall"
    /\ pc[Admin] \in InsidePcs /\ task = "uninstall" => at[Admin] = "restore"

\* There is an inode left for the lock file, also after an uninstallation.
InodesInv ==
    /\ lockfile = 0 => inodes < MaxLocks
    /\ /\ task = "uninstall"
       /\ pc[Admin] \in RestorePcs \cup {"disable", "unlink", "rmmanager", "rmstate"}
       => IF lockfile = 0 THEN inodes + 1 < MaxLocks ELSE inodes < MaxLocks

\* The manager is there before the cleaner and goes after it.
FilesInv ==
    /\ "cleaner" \in files => "manager" \in files
    /\ pc[Admin] \in {"units", "disable"} => "manager" \in files
    /\ pc[Admin] = "rmmanager" => "cleaner" \notin files

\* Release 3 and its choices go together.
MigrationInv ==
    /\ "v3" \notin files => conf # "v3"
    /\ pc[Admin] \in {"copy", "units"} => conf # "v3"

\* A quiet uninstallation is alone, has the stock core back before it removes
\* anything, and nothing it has removed comes back.
QuietInv ==
    quiet /\ task = "uninstall" /\ pc[Admin] \in RestorePcs \cup RemovePcs =>
        /\ ~timer
        /\ pc[Service] = "idle"
        /\ pc[Admin] = "ok" \/ (pc[Admin] = "exit" /\ at[Admin] = "ok")
               \/ pc[Admin] \in RemovePcs => core = "stock"
        /\ pc[Admin] \in RemovePcs \ {"unlink"} => files \subseteq {"manager"} /\ conf = "none"
        /\ pc[Admin] \in {"rmstate", "rmcache", "gone"} => files = {}
        /\ pc[Admin] \in {"rmcache", "gone"} => ~recorded /\ ~backup /\ lockfile = 0
        /\ pc[Admin] = "gone" => ~artifact

\* As long as no uninstallation has removed the state beside a running service:
\* there is one lock file, one process inside, and what that one has found out
\* or done remains true.
ContractInv ==
    /\ \A p \in Procs : pc[p] \in InsidePcs \cup {"wait"} =>
          opened[p] = lockfile /\ lockfile # 0
    /\ \A p, q \in Procs : pc[p] \in InsidePcs /\ pc[q] \in InsidePcs => p = q
    /\ \A p \in Procs :
          /\ pc[p] \in {"stage", "mv"} => core = "stock"
          /\ pc[p] \in UnsettledPcs => core = "patched"
          /\ pc[p] = "record" => running
          /\ pc[p] = "ok" /\ at[p] = "restore" => core = "stock"
    /\ (\A p \in Procs : pc[p] \notin UnsettledPcs) => Core!Settled \/ spoiled

IInv ==
    /\ TypeOK
    /\ ControlInv
    /\ InodesInv
    /\ FilesInv
    /\ MigrationInv
    /\ QuietInv
    /\ ~torn => ContractInv

-----------------------------------------------------------------------------
(* Every step keeps the inductive invariant.                               *)

\* A step of a command of the core manager.
LEMMA CommandKeeps ==
    ASSUME IInv, NEW p \in Procs,
           Open(p) \/ Enter(p) \/ Look(p) \/ Build(p) \/ Backup(p) \/ Stage(p)
           \/ Replace(p) \/ Restart(p) \/ Record(p) \/ Undo(p) \/ Revert(p) \/ Exit(p)
           \/ Timeout(p)
    PROVE  IInv'
  <1>0. TypeOK /\ ControlInv
    BY DEF IInv
  <1> USE <1>0, MaintenanceAssumption DEF Procs, InsidePcs, EnsurePcs, UnsettledPcs, RestorePcs,
       RemovePcs, Step, Goto, TypeOK, ControlInv, CommandPcs, AdminPcs, Core!Commands,
       Core!Statuses, Tasks, Core!Cores
  <1>1. CASE Open(p)
    <2>1. TypeOK'
      BY <1>1 DEF Open, HasContainer, IInv, InodesInv
    <2>2. ControlInv'
      BY <1>1 DEF Open, HasContainer
    <2>3. InodesInv' /\ FilesInv' /\ MigrationInv'
      BY <1>1 DEF Open, HasContainer, IInv, InodesInv, FilesInv, MigrationInv
    <2>4. QuietInv'
      BY <1>1 DEF Open, HasContainer, IInv, QuietInv, FilesInv
    <2>5. ~torn' => ContractInv'
      BY <1>1 DEF Open, HasContainer, IInv, ContractInv, Core!Settled
    <2> QED
      BY <2>1, <2>2, <2>3, <2>4, <2>5 DEF IInv
  <1>2. CASE Enter(p)
    <2>1. TypeOK'
      BY <1>2 DEF Enter, CommandOf, Core!Inside, IInv, InodesInv
    <2>2. ControlInv'
      BY <1>2 DEF Enter, CommandOf, Core!Inside
    <2>3. InodesInv' /\ FilesInv' /\ MigrationInv'
      BY <1>2 DEF Enter, CommandOf, Core!Inside, IInv, InodesInv, FilesInv, MigrationInv
    <2>4. QuietInv'
      BY <1>2 DEF Enter, CommandOf, Core!Inside, IInv, QuietInv, FilesInv
    <2>5. ~torn' => ContractInv'
      BY <1>2 DEF Enter, CommandOf, Core!Inside, IInv, ContractInv, Core!Settled
    <2> QED
      BY <2>1, <2>2, <2>3, <2>4, <2>5 DEF IInv
  <1>3. CASE Look(p)
    <2>1. TypeOK'
      BY <1>3 DEF Look, CanRevert, IInv, InodesInv
    <2>2. ControlInv'
      BY <1>3 DEF Look, CanRevert
    <2>3. InodesInv' /\ FilesInv' /\ MigrationInv'
      BY <1>3 DEF Look, CanRevert, IInv, InodesInv, FilesInv, MigrationInv
    <2>4. QuietInv'
      BY <1>3 DEF Look, CanRevert, IInv, QuietInv, FilesInv
    <2>5. ~torn' => ContractInv'
      BY <1>3 DEF Look, CanRevert, IInv, ContractInv, Core!Settled
    <2> QED
      BY <2>1, <2>2, <2>3, <2>4, <2>5 DEF IInv
  <1>4. CASE Build(p)
    <2>1. TypeOK'
      BY <1>4 DEF Build, IInv, InodesInv
    <2>2. ControlInv'
      BY <1>4 DEF Build
    <2>3. InodesInv' /\ FilesInv' /\ MigrationInv'
      BY <1>4 DEF Build, IInv, InodesInv, FilesInv, MigrationInv
    <2>4. QuietInv'
      BY <1>4 DEF Build, IInv, QuietInv, FilesInv
    <2>5. ~torn' => ContractInv'
      BY <1>4 DEF Build, IInv, ContractInv, Core!Settled
    <2> QED
      BY <2>1, <2>2, <2>3, <2>4, <2>5 DEF IInv
  <1>5. CASE Backup(p)
    <2>1. TypeOK'
      BY <1>5 DEF Backup, IInv, InodesInv
    <2>2. ControlInv'
      BY <1>5 DEF Backup
    <2>3. InodesInv' /\ FilesInv' /\ MigrationInv'
      BY <1>5 DEF Backup, IInv, InodesInv, FilesInv, MigrationInv
    <2>4. QuietInv'
      BY <1>5 DEF Backup, IInv, QuietInv, FilesInv
    <2>5. ~torn' => ContractInv'
      BY <1>5 DEF Backup, IInv, ContractInv, Core!Settled
    <2> QED
      BY <2>1, <2>2, <2>3, <2>4, <2>5 DEF IInv
  <1>6. CASE Stage(p)
    <2>1. TypeOK'
      BY <1>6 DEF Stage, IInv, InodesInv
    <2>2. ControlInv'
      BY <1>6 DEF Stage
    <2>3. InodesInv' /\ FilesInv' /\ MigrationInv'
      BY <1>6 DEF Stage, IInv, InodesInv, FilesInv, MigrationInv
    <2>4. QuietInv'
      BY <1>6 DEF Stage, IInv, QuietInv, FilesInv
    <2>5. ~torn' => ContractInv'
      BY <1>6 DEF Stage, IInv, ContractInv, Core!Settled
    <2> QED
      BY <2>1, <2>2, <2>3, <2>4, <2>5 DEF IInv
  <1>7. CASE Replace(p)
    <2>1. TypeOK'
      BY <1>7, ZenonT(30) DEF Replace, IInv, InodesInv
    <2>2. ControlInv'
      BY <1>7 DEF Replace
    <2>3. InodesInv' /\ FilesInv' /\ MigrationInv'
      BY <1>7 DEF Replace, IInv, InodesInv, FilesInv, MigrationInv
    <2>4. QuietInv'
      BY <1>7 DEF Replace, IInv, QuietInv, FilesInv
    <2>5. ~torn' => ContractInv'
      BY <1>7 DEF Replace, IInv, ContractInv, Core!Settled
    <2> QED
      BY <2>1, <2>2, <2>3, <2>4, <2>5 DEF IInv
  <1>8. CASE Restart(p)
    <2>1. TypeOK'
      BY <1>8 DEF Restart, IInv, InodesInv
    <2>2. ControlInv'
      BY <1>8 DEF Restart
    <2>3. InodesInv' /\ FilesInv' /\ MigrationInv'
      BY <1>8 DEF Restart, IInv, InodesInv, FilesInv, MigrationInv
    <2>4. QuietInv'
      BY <1>8 DEF Restart, IInv, QuietInv, FilesInv
    <2>5. ~torn' => ContractInv'
      BY <1>8 DEF Restart, IInv, ContractInv, Core!Settled
    <2> QED
      BY <2>1, <2>2, <2>3, <2>4, <2>5 DEF IInv
  <1>9. CASE Record(p)
    <2>1. TypeOK'
      BY <1>9 DEF Record, IInv, InodesInv
    <2>2. ControlInv'
      BY <1>9 DEF Record
    <2>3. InodesInv' /\ FilesInv' /\ MigrationInv'
      BY <1>9 DEF Record, IInv, InodesInv, FilesInv, MigrationInv
    <2>4. QuietInv'
      BY <1>9 DEF Record, IInv, QuietInv, FilesInv
    <2>5. ~torn' => ContractInv'
      BY <1>9 DEF Record, IInv, ContractInv, Core!Settled
    <2> QED
      BY <2>1, <2>2, <2>3, <2>4, <2>5 DEF IInv
  <1>10. CASE Undo(p)
    <2>1. TypeOK'
      <3>1. core' \in Core!Cores /\ {running', recorded', spoiled'} \subseteq BOOLEAN
        BY <1>10 DEF Undo, RollbackBinary, Core!Cores
      <3>2. UNCHANGED <<at, unitVars, diskVars, opened, adminVars, histVars>>
        BY <1>10 DEF Undo, RollbackBinary
      <3>3. \A q \in Procs : pc'[q] = pc[q] \/ pc'[q] \in CommandPcs
        BY <1>10 DEF Undo
      <3> QED
        BY <3>1, <3>2, <3>3
    <2>2. ControlInv'
      BY <1>10 DEF Undo, RollbackBinary
    <2>3. InodesInv' /\ FilesInv' /\ MigrationInv'
      BY <1>10 DEF Undo, RollbackBinary, IInv, InodesInv, FilesInv, MigrationInv
    <2>4. QuietInv'
      BY <1>10 DEF Undo, RollbackBinary, IInv, QuietInv, FilesInv
    <2>5. ~torn' => ContractInv'
      BY <1>10 DEF Undo, RollbackBinary, IInv, ContractInv, Core!Settled
    <2> QED
      BY <2>1, <2>2, <2>3, <2>4, <2>5 DEF IInv
  <1>11. CASE Revert(p)
    <2>1. TypeOK'
      <3>1. core' \in Core!Cores /\ {running', recorded', spoiled'} \subseteq BOOLEAN
        BY <1>11 DEF Revert, RollbackBinary, Core!Cores
      <3>2. UNCHANGED <<at, unitVars, diskVars, opened, adminVars, histVars>>
        BY <1>11 DEF Revert, RollbackBinary
      <3>3. \A q \in Procs : pc'[q] = pc[q] \/ pc'[q] \in CommandPcs
        BY <1>11 DEF Revert
      <3> QED
        BY <3>1, <3>2, <3>3
    <2>2. ControlInv'
      BY <1>11 DEF Revert, RollbackBinary
    <2>3. InodesInv' /\ FilesInv' /\ MigrationInv'
      BY <1>11 DEF Revert, RollbackBinary, IInv, InodesInv, FilesInv, MigrationInv
    <2>4. QuietInv'
      BY <1>11 DEF Revert, RollbackBinary, IInv, QuietInv, FilesInv
    <2>5. ~torn' => ContractInv'
      BY <1>11 DEF Revert, RollbackBinary, IInv, ContractInv, Core!Settled
    <2> QED
      BY <2>1, <2>2, <2>3, <2>4, <2>5 DEF IInv
  <1>12. CASE Exit(p)
    <2>1. TypeOK'
      BY <1>12 DEF Exit, Leave, IInv, InodesInv
    <2>2. ControlInv'
      BY <1>12 DEF Exit, Leave
    <2>3. InodesInv' /\ FilesInv' /\ MigrationInv'
      BY <1>12 DEF Exit, Leave, IInv, InodesInv, FilesInv, MigrationInv
    <2>4. QuietInv'
      BY <1>12 DEF Exit, Leave, IInv, QuietInv, FilesInv
    <2>5. ~torn' => ContractInv'
      BY <1>12 DEF Exit, Leave, IInv, ContractInv, Core!Settled
    <2> QED
      BY <2>1, <2>2, <2>3, <2>4, <2>5 DEF IInv
  <1>13. CASE Timeout(p)
    <2>1. TypeOK'
      BY <1>13 DEF Timeout, Leave, IInv, InodesInv
    <2>2. ControlInv'
      BY <1>13 DEF Timeout, Leave
    <2>3. InodesInv' /\ FilesInv' /\ MigrationInv'
      BY <1>13 DEF Timeout, Leave, IInv, InodesInv, FilesInv, MigrationInv
    <2>4. QuietInv'
      BY <1>13 DEF Timeout, Leave, IInv, QuietInv, FilesInv
    <2>5. ~torn' => ContractInv'
      BY <1>13 DEF Timeout, Leave, IInv, ContractInv, Core!Settled
    <2> QED
      BY <2>1, <2>2, <2>3, <2>4, <2>5 DEF IInv
  <1> QED
    BY <1>1, <1>2, <1>3, <1>4, <1>5, <1>6, <1>7, <1>8, <1>9, <1>10, <1>11, <1>12, <1>13

\* The service beyond its command, and the timer.
LEMMA ServiceKeeps ==
    ASSUME IInv,
           TimerFires \/ PreEnds \/ Sweep
    PROVE  IInv'
  <1>0. TypeOK /\ ControlInv
    BY DEF IInv
  <1> USE <1>0, MaintenanceAssumption DEF Procs, InsidePcs, EnsurePcs, UnsettledPcs, RestorePcs,
       RemovePcs, Step, Goto, TypeOK, ControlInv, CommandPcs, AdminPcs, Core!Commands,
       Core!Statuses, InodesInv, FilesInv, MigrationInv,
       QuietInv, ContractInv, IInv, Tasks, Core!Cores, Core!Settled
  <1>1. CASE TimerFires
    BY <1>1 DEF TimerFires
  <1>2. CASE PreEnds
    BY <1>2 DEF PreEnds, Collect, Loadable
  <1>3. CASE Sweep
    BY <1>3 DEF Sweep
  <1> QED
    BY <1>1, <1>2, <1>3

\* The death of a process excuses what it leaves behind.
LEMMA DeathSettles ==
    ASSUME TypeOK, ControlInv, ContractInv, NEW p \in Procs, Dies(p),
           pc'[p] \in {"exit", "idle"},
           \A q \in Procs \ {p} : pc'[q] = pc[q] \/ (pc'[q] = "idle" /\ pc[q] = "stop"),
           UNCHANGED <<opened, lockfile>>
    PROVE  ContractInv'
  <1> USE DEF InsidePcs, UnsettledPcs
  <1>1. \A q \in Procs : pc'[q] \in InsidePcs \cup {"wait"} => q # p /\ pc'[q] = pc[q]
    OBVIOUS
  <1>2. UNCHANGED <<core, running, recorded>> /\ \A q \in Procs \ {p} : at'[q] = at[q]
    <2>1. UNCHANGED <<core, running, recorded>>
      BY DEF Dies
    <2>2. at' = [at EXCEPT ![p] = IF p \in Core!Inside THEN "failed" ELSE @]
      BY DEF Dies
    <2> QED
      BY <2>1, <2>2 DEF TypeOK
  <1>3. (Core!Settled' <=> Core!Settled) /\ (spoiled => spoiled')
    <2>1. Core!Settled' <=> Core!Settled
      BY <1>2 DEF Core!Settled
    <2>2. spoiled => spoiled'
      BY DEF Dies
    <2> QED
      BY <2>1, <2>2
  <1>4. pc[p] \in UnsettledPcs => Core!Settled \/ spoiled'
    BY DEF Dies, Core!Inside, ControlInv
  <1>5. (\A q \in Procs : pc'[q] \notin UnsettledPcs) => Core!Settled' \/ spoiled'
    <2> SUFFICES ASSUME \A q \in Procs : pc'[q] \notin UnsettledPcs
                 PROVE  Core!Settled \/ spoiled'
      BY <1>3
    <2>1. CASE pc[p] \in UnsettledPcs
      BY <2>1, <1>4
    <2>2. CASE pc[p] \notin UnsettledPcs
      <3>1. \A q \in Procs : pc[q] \notin UnsettledPcs
        BY <2>2
      <3> QED
        BY <3>1, <1>3 DEF ContractInv
    <2> QED
      BY <2>1, <2>2
  <1> QED
    BY <1>1, <1>2, <1>5 DEF ContractInv

\* The administrator's programs.
LEMMA AdminKeeps ==
    ASSUME IInv,
           Edit \/ Migrate \/ CopyManager \/ InstallUnits \/ CommandReturns
           \/ StartService \/ ServiceReturns \/ EnableTimer \/ DisableTimer
           \/ StopService \/ AdminKilled
    PROVE  IInv'
  <1>0. TypeOK /\ ControlInv
    BY DEF IInv
  <1> USE <1>0, MaintenanceAssumption DEF Procs, InsidePcs, EnsurePcs, UnsettledPcs, RestorePcs,
       RemovePcs, Step, Goto, TypeOK, ControlInv, CommandPcs, AdminPcs, Core!Commands,
       Core!Statuses, InodesInv, FilesInv, MigrationInv,
       QuietInv, ContractInv, IInv, Tasks, Core!Cores, Core!Settled
  <1>1. CASE Edit
    BY <1>1 DEF Edit
  <1>2. CASE Migrate
    BY <1>2 DEF Migrate
  <1>3. CASE CopyManager
    BY <1>3 DEF CopyManager
  <1>4. CASE InstallUnits
    <2>1. TypeOK'
      BY <1>4, ZenonT(30) DEF InstallUnits, Loadable
    <2>2. ControlInv'
      BY <1>4 DEF InstallUnits, Loadable
    <2>3. InodesInv' /\ FilesInv' /\ MigrationInv'
      BY <1>4 DEF InstallUnits, Loadable
    <2>4. QuietInv'
      BY <1>4 DEF InstallUnits, Loadable
    <2>5. ~torn' => ContractInv'
      BY <1>4 DEF InstallUnits, Loadable
    <2> QED
      BY <2>1, <2>2, <2>3, <2>4, <2>5 DEF IInv
  <1>5. CASE CommandReturns
    BY <1>5 DEF CommandReturns, Collect
  <1>6. CASE StartService
    BY <1>6 DEF StartService
  <1>7. CASE ServiceReturns
    BY <1>7 DEF ServiceReturns
  <1>8. CASE EnableTimer
    BY <1>8 DEF EnableTimer
  <1>9. CASE DisableTimer
    <2>1. TypeOK'
      BY <1>9, ZenonT(30) DEF DisableTimer
    <2>2. ControlInv'
      BY <1>9 DEF DisableTimer
    <2>3. InodesInv' /\ FilesInv' /\ MigrationInv'
      BY <1>9 DEF DisableTimer
    <2>4. QuietInv'
      BY <1>9 DEF DisableTimer
    <2>5. ~torn' => ContractInv'
      BY <1>9 DEF DisableTimer
    <2> QED
      BY <2>1, <2>2, <2>3, <2>4, <2>5 DEF IInv
  <1>10. CASE StopService
    <2>1. TypeOK'
      BY <1>10 DEF StopService, Dies, Afterwards, Core!Inside
    <2>2. ControlInv'
      BY <1>10 DEF StopService, Dies, Afterwards, Core!Inside
    <2>3. InodesInv' /\ FilesInv' /\ MigrationInv'
      BY <1>10 DEF StopService, Dies, Afterwards, Core!Inside
    <2>4. QuietInv'
      BY <1>10 DEF StopService, Dies, Afterwards, Core!Inside
    <2>5. ~torn' => ContractInv'
      <3>1. /\ pc'[Service] \in {"exit", "idle"}
            /\ pc'[Admin] = pc[Admin] \/ (pc'[Admin] = "idle" /\ pc[Admin] = "stop")
        BY <1>10 DEF StopService, Afterwards
      <3>2. Dies(Service) /\ UNCHANGED <<opened, lockfile, torn>>
        BY <1>10 DEF StopService
      <3>3. torn = torn' /\ (~torn => ContractInv)
        BY <3>2 DEF IInv
      <3> QED
        BY <3>1, <3>2, <3>3, DeathSettles
    <2> QED
      BY <2>1, <2>2, <2>3, <2>4, <2>5 DEF IInv
  <1>11. CASE AdminKilled
    <2>1. TypeOK'
      BY <1>11 DEF AdminKilled, Dies, Afterwards, Core!Inside
    <2>2. ControlInv'
      BY <1>11 DEF AdminKilled, Dies, Afterwards, Core!Inside
    <2>3. InodesInv' /\ FilesInv' /\ MigrationInv'
      BY <1>11 DEF AdminKilled, Dies, Afterwards, Core!Inside
    <2>4. QuietInv'
      BY <1>11 DEF AdminKilled, Dies, Afterwards, Core!Inside
    <2>5. ~torn' => ContractInv'
      <3>1. /\ pc'[Admin] \in {"exit", "idle"}
            /\ pc'[Service] = pc[Service] \/ (pc'[Service] = "idle" /\ pc[Service] = "stop")
        BY <1>11 DEF AdminKilled, Afterwards
      <3>2. Dies(Admin) /\ UNCHANGED <<opened, lockfile, torn>>
        BY <1>11 DEF AdminKilled
      <3>3. torn = torn' /\ (~torn => ContractInv)
        BY <3>2 DEF IInv
      <3> QED
        BY <3>1, <3>2, <3>3, DeathSettles
    <2> QED
      BY <2>1, <2>2, <2>3, <2>4, <2>5 DEF IInv
  <1> QED
    BY <1>1, <1>2, <1>3, <1>4, <1>5, <1>6, <1>7, <1>8, <1>9, <1>10, <1>11

\* The administrator begins something.
LEMMA BeginKeeps ==
    ASSUME IInv, NEW t \in Tasks, Begin(t)
    PROVE  IInv'
  <1>0. TypeOK /\ ControlInv
    BY DEF IInv
  <1> USE <1>0, MaintenanceAssumption DEF Procs, InsidePcs, EnsurePcs, UnsettledPcs, RestorePcs,
       RemovePcs, Step, Goto, TypeOK, ControlInv, CommandPcs, AdminPcs, Core!Commands,
       Core!Statuses, Begin, Tasks
  <1>1. TypeOK'
    BY DEF Core!Cores, IInv, InodesInv
  <1>2. ControlInv'
    OBVIOUS
  <1>3. InodesInv' /\ FilesInv' /\ MigrationInv'
    BY DEF IInv, InodesInv, FilesInv, MigrationInv
  <1>4. QuietInv'
    BY DEF IInv, QuietInv, FilesInv
  <1>5. ~torn' => ContractInv'
    BY DEF IInv, ContractInv, QuietInv, Core!Cores, Core!Settled
  <1> QED
    BY <1>1, <1>2, <1>3, <1>4, <1>5 DEF IInv

\* The uninstaller.
LEMMA UninstallKeeps ==
    ASSUME IInv,
           UninstallBegins \/ UninstallFails \/ RemoveUnits \/ RemoveManager
           \/ RemoveState \/ RemoveCache \/ UninstallEnds
    PROVE  IInv'
  <1>0. TypeOK /\ ControlInv
    BY DEF IInv
  <1> USE <1>0, MaintenanceAssumption DEF Procs, InsidePcs, EnsurePcs, UnsettledPcs, RestorePcs,
       RemovePcs, Step, Goto, TypeOK, ControlInv, CommandPcs, AdminPcs, Core!Commands,
       Core!Statuses, InodesInv, FilesInv, MigrationInv,
       QuietInv, ContractInv, IInv, Tasks, Core!Cores, Core!Settled
  <1>1. CASE UninstallBegins
    <2>1. TypeOK'
      BY <1>1, ZenonT(30) DEF UninstallBegins
    <2>2. ControlInv'
      BY <1>1 DEF UninstallBegins
    <2>3. InodesInv' /\ FilesInv' /\ MigrationInv'
      BY <1>1 DEF UninstallBegins
    <2>4. QuietInv'
      BY <1>1 DEF UninstallBegins
    <2>5. ~torn' => ContractInv'
      BY <1>1 DEF UninstallBegins
    <2> QED
      BY <2>1, <2>2, <2>3, <2>4, <2>5 DEF IInv
  <1>2. CASE UninstallFails
    BY <1>2 DEF UninstallFails
  <1>3. CASE RemoveUnits
    BY <1>3 DEF RemoveUnits
  <1>4. CASE RemoveManager
    BY <1>4 DEF RemoveManager
  <1>5. CASE RemoveState
    <2>1. TypeOK'
      BY <1>5, ZenonT(30) DEF RemoveState
    <2>2. ControlInv'
      BY <1>5 DEF RemoveState
    <2>3. InodesInv' /\ FilesInv' /\ MigrationInv'
      BY <1>5 DEF RemoveState
    <2>4. QuietInv'
      BY <1>5 DEF RemoveState
    <2>5. ~torn' => ContractInv'
      BY <1>5, ZenonT(30) DEF RemoveState
    <2> QED
      BY <2>1, <2>2, <2>3, <2>4, <2>5 DEF IInv
  <1>6. CASE RemoveCache
    <2>1. TypeOK'
      BY <1>6 DEF RemoveCache
    <2>2. ControlInv'
      BY <1>6 DEF RemoveCache
    <2>3. InodesInv' /\ FilesInv' /\ MigrationInv'
      BY <1>6 DEF RemoveCache
    <2>4. QuietInv'
      BY <1>6 DEF RemoveCache
    <2>5. ~torn' => ContractInv'
      BY <1>6 DEF RemoveCache
    <2> QED
      BY <2>1, <2>2, <2>3, <2>4, <2>5 DEF IInv
  <1>7. CASE UninstallEnds
    BY <1>7 DEF UninstallEnds
  <1> QED
    BY <1>1, <1>2, <1>3, <1>4, <1>5, <1>6, <1>7

-----------------------------------------------------------------------------
(* Invariance.                                                             *)

LEMMA InitHolds == Init => IInv
  <1> SUFFICES ASSUME Init PROVE IInv
    OBVIOUS
  <1> USE MaintenanceAssumption DEF Init, Procs
  <1>1. TypeOK
    <2>1. /\ core \in Core!Cores /\ {running, recorded, spoiled, artifact} \subseteq BOOLEAN
          /\ at \in [Procs -> {"out"} \cup Core!Commands \cup Core!Statuses]
      BY DEF Core!Cores
    <2>2. lockfile \in {0, 1} /\ inodes = lockfile /\ inodes \in 0..MaxLocks
      OBVIOUS
    <2>3. opened \in [Procs -> 0..MaxLocks] /\ faults \in 0..MaxFaults
      OBVIOUS
    <2> QED
      BY <2>1, <2>2, <2>3 DEF TypeOK, CommandPcs
  <1>2. ControlInv
    BY DEF ControlInv, InsidePcs, EnsurePcs, RemovePcs, Core!Commands
  <1>3. InodesInv /\ FilesInv /\ MigrationInv
    BY DEF InodesInv, FilesInv, MigrationInv, RestorePcs, InsidePcs
  <1>4. QuietInv
    BY DEF QuietInv
  <1>5. ContractInv
    BY DEF ContractInv, InsidePcs, UnsettledPcs, Core!Settled
  <1> QED
    BY <1>1, <1>2, <1>3, <1>4, <1>5 DEF IInv

LEMMA StepKeeps == IInv /\ [Next]_vars => IInv'
  <1> SUFFICES ASSUME IInv, [Next]_vars PROVE IInv'
    OBVIOUS
  <1>1. CASE UNCHANGED vars
    BY <1>1 DEF IInv, TypeOK, ControlInv, InodesInv, FilesInv, MigrationInv, QuietInv,
       ContractInv, Core!Settled
  <1>2. Service \in Procs /\ Admin \in Procs
    BY DEF Procs
  <1>3. CASE ServiceStep \/ AdminStep
    BY <1>2, <1>3, CommandKeeps, ServiceKeeps, AdminKeeps, UninstallKeeps
       DEF ServiceStep, AdminStep, Command
  <1>4. CASE TimerFires \/ AdminKilled \/ Edit
    BY <1>4, ServiceKeeps, AdminKeeps
  <1>5. ASSUME NEW p \in Procs, Enter(p) \/ Timeout(p) PROVE IInv'
    BY <1>5, CommandKeeps
  <1>6. ASSUME NEW t \in Tasks, Begin(t) PROVE IInv'
    BY <1>6, BeginKeeps
  <1> QED
    BY <1>1, <1>3, <1>4, <1>5, <1>6 DEF Next

\* A host keeps the inductive invariant, whatever timer, installer, menu and
\* uninstaller do at the same time.
THEOREM Invariance == Spec => []IInv
  BY InitHolds, StepKeeps, PTL DEF Spec

\* The types of the variables of a host; in particular the bound on the lock files
\* is never what stops a command.
THEOREM TypeCorrect == Spec => []TypeOK
  <1>1. IInv => TypeOK
    BY DEF IInv
  <1> QED
    BY <1>1, Invariance, PTL

\* `uninstall' with nothing running leaves nothing behind and nobody who would
\* bring anything back.
THEOREM QuietUninstall == Spec => []QuietUninstallIsClean
  <1>1. IInv => QuietUninstallIsClean
    BY DEF IInv, ControlInv, QuietInv, QuietUninstallIsClean, RestorePcs, RemovePcs
  <1> QED
    BY <1>1, Invariance, PTL

\* No sweep of this release works with the choices of release 3.
THEOREM MigratedSweeps == Spec => []SweepsAreMigrated
  <1>1. IInv => SweepsAreMigrated
    BY DEF IInv, MigrationInv, SweepsAreMigrated
  <1> QED
    BY <1>1, Invariance, PTL

-----------------------------------------------------------------------------
(* The host keeps the contract of the core manager.                        *)

\* A process inside is inside for the contract, and the only one.
LEMMA InsideMaps ==
    ASSUME IInv, NEW p \in Procs, pc[p] \in InsidePcs
    PROVE  /\ p \in Core!Inside
           /\ at[p] \in Core!Commands
           /\ at \in [Procs -> {"out"} \cup Core!Commands \cup Core!Statuses]
           /\ pc[p] \in EnsurePcs => at[p] = "ensure"
  BY DEF IInv, ControlInv, TypeOK, Core!Inside

\* Where nothing has been replaced the container is settled, if only one process
\* can be inside.
LEMMA InsideIsSettled ==
    ASSUME IInv, ~torn, NEW p \in Procs, pc[p] \in InsidePcs \ UnsettledPcs
    PROVE  Core!Settled \/ spoiled
  BY DEF IInv, ContractInv, UnsettledPcs, InsidePcs

\* A step of a command, and its death.
LEMMA CommandMaps ==
    ASSUME IInv, ~torn, NEW p \in Procs,
           Open(p) \/ Enter(p) \/ Look(p) \/ Build(p) \/ Backup(p) \/ Stage(p) \/ Replace(p)
           \/ Restart(p) \/ Record(p) \/ Undo(p) \/ Revert(p) \/ Exit(p) \/ Timeout(p)
    PROVE  [Core!Next]_<<coreVars, at>>
  <1>0. TypeOK /\ ControlInv /\ ContractInv
    BY DEF IInv
  <1> USE DEF Step, InsidePcs
  <1>1. CASE Open(p) \/ Look(p) \/ Build(p) \/ Backup(p) \/ Stage(p)
    BY <1>1 DEF Open, Look, Build, Backup, Stage
  <1>2. CASE Enter(p)
    <2>1. at[p] = "out" /\ Core!Inside = {}
      BY <1>0, <1>2 DEF Enter, ControlInv, ContractInv, Core!Inside
    <2>2. CommandOf(p) \in Core!Commands
      BY DEF CommandOf, Core!Commands
    <2>3. Core!Enter(p, CommandOf(p))
      BY <1>2, <2>1 DEF Enter, Core!Enter
    <2> QED
      BY <2>1, <2>2, <2>3 DEF Core!Next
  <1>3. CASE Replace(p)
    <2>1. at[p] = "ensure" /\ core = "stock"
      BY <1>0, <1>3 DEF Replace, ControlInv, EnsurePcs, ContractInv
    <2>2. Core!Replace(p)
      BY <1>3, <2>1 DEF Replace, Core!Replace
    <2> QED
      BY <2>2 DEF Core!Next
  <1>4. CASE Restart(p)
    <2>1. p \in Core!Inside
      BY <1>4, InsideMaps DEF Restart
    <2>2. Core!Restart(p)
      BY <1>4, <2>1 DEF Restart, Core!Restart, Core!MayFail
    <2> QED
      BY <2>2 DEF Core!Next
  <1>5. CASE Record(p)
    <2>1. at[p] = "ensure" /\ core = "patched" /\ running
      BY <1>0, <1>5 DEF Record, ControlInv, EnsurePcs, ContractInv, UnsettledPcs
    <2>2. UNCHANGED <<core, running, spoiled, at>>
      BY <1>5 DEF Record
    <2>3. recorded' = TRUE \/ recorded' = recorded
      BY <1>0, <1>5 DEF Record, TypeOK
    <2>4. CASE recorded' = TRUE
      <3>1. Core!Record(p)
        BY <2>1, <2>2, <2>4 DEF Core!Record
      <3> QED
        BY <3>1 DEF Core!Next
    <2> QED
      BY <2>2, <2>3, <2>4
  <1>6. CASE Undo(p) \/ Revert(p)
    <2>1. p \in Core!Inside
      BY <1>6, InsideMaps DEF Undo, Revert
    <2>2. RollbackBinary
      BY <1>6 DEF Undo, Revert
    <2>3. CASE backup
      <3>1. Core!Restore(p)
        BY <2>1, <2>2, <2>3 DEF RollbackBinary, Core!Restore, Core!MayFail
      <3> QED
        BY <3>1 DEF Core!Next
    <2>4. CASE ~backup
      <3>1. Core!Spoil(p)
        BY <2>1, <2>2, <2>4 DEF RollbackBinary, Core!Spoil, Core!MayFail
      <3> QED
        BY <3>1 DEF Core!Next
    <2> QED
      BY <2>3, <2>4
  <1>7. ASSUME NEW status \in {"ok", "failed"}, Leave(p, status),
               pc[p] \in InsidePcs \ UnsettledPcs,
               at[p] = "restore" /\ status = "ok" => core = "stock"
        PROVE  [Core!Next]_<<coreVars, at>>
    <2>1. p \in Core!Inside /\ (Core!Settled \/ spoiled)
      BY <1>7, InsideMaps, InsideIsSettled
    <2>2. Core!Leave(p, status)
      BY <1>7, <2>1 DEF Leave, Core!Leave
    <2> QED
      BY <2>2 DEF Core!Next, Core!Statuses
  <1>8. CASE Exit(p)
    <2>1. PICK status \in {"ok", "failed"} :
            /\ Leave(p, status)
            /\ status = "ok" => pc[p] = "ok" \/ core = "stock"
      BY <1>8 DEF Exit
    <2>2. pc[p] \in {"ok", "error"}
      BY <1>8 DEF Exit
    <2>3. at[p] = "restore" /\ status = "ok" => core = "stock"
      BY <1>0, <2>1 DEF ContractInv
    <2> QED
      BY <1>7, <2>1, <2>2, <2>3 DEF UnsettledPcs
  <1>9. CASE Timeout(p)
    BY <1>7, <1>9 DEF Timeout, UnsettledPcs
  <1> QED
    BY <1>1, <1>2, <1>3, <1>4, <1>5, <1>6, <1>8, <1>9

\* The death of a process is a fault if it leaves an unsettled container, and the
\* end of a failed command otherwise.
LEMMA DeathMaps ==
    ASSUME IInv, ~torn, NEW p \in Procs, Dies(p)
    PROVE  [Core!Next]_<<coreVars, at>>
  <1>0. TypeOK
    BY DEF IInv
  <1>1. CASE p \notin Core!Inside
    <2>1. at' = at /\ (spoiled' <=> spoiled) /\ UNCHANGED <<core, running, recorded>>
      BY <1>0, <1>1 DEF Dies, TypeOK
    <2>2. spoiled \in BOOLEAN /\ spoiled' \in BOOLEAN
      BY <1>0 DEF Dies, TypeOK
    <2> QED
      BY <2>1, <2>2
  <1>2. CASE p \in Core!Inside
    <2>1. at' = [at EXCEPT ![p] = "failed"] /\ UNCHANGED <<core, running, recorded>>
      BY <1>2 DEF Dies
    <2>2. CASE Core!Settled \/ spoiled
      <3>1. spoiled' = TRUE \/ spoiled' = spoiled
        BY <1>0, <1>2, <2>2 DEF Dies, TypeOK
      <3>2. CASE spoiled' = TRUE
        BY <1>2, <2>1, <3>2 DEF Core!Next, Core!Spoil, Core!MayFail
      <3>3. CASE spoiled' = spoiled
        BY <1>2, <2>1, <2>2, <3>3 DEF Core!Next, Core!Leave, Core!Statuses
      <3> QED
        BY <3>1, <3>2, <3>3
    <2>3. CASE ~Core!Settled /\ ~spoiled
      <3>1. spoiled' = TRUE
        BY <1>2, <2>3 DEF Dies
      <3> QED
        BY <1>2, <2>1, <3>1 DEF Core!Next, Core!Spoil, Core!MayFail
    <2> QED
      BY <2>2, <2>3
  <1> QED
    BY <1>1, <1>2

\* The exit status is read.
LEMMA CollectMaps ==
    ASSUME IInv, NEW p \in Procs, pc[p] = "exit", Collect(p), UNCHANGED coreVars
    PROVE  [Core!Next]_<<coreVars, at>>
  <1>1. /\ at \in [Procs -> {"out"} \cup Core!Commands \cup Core!Statuses]
        /\ at[p] \notin Core!Commands
    BY DEF IInv, TypeOK, ControlInv, InsidePcs
  <1>2. CASE at[p] = "out"
    BY <1>1, <1>2 DEF Collect
  <1>3. CASE at[p] \in Core!Statuses
    BY <1>3 DEF Collect, Core!Next, Core!Collect
  <1> QED
    BY <1>1, <1>2, <1>3

LEMMA RemovalMaps ==
    ASSUME IInv, RemoveState, ~torn'
    PROVE  [Core!Next]_<<coreVars, at>>
  <1>1. quiet /\ pc[Admin] = "rmstate" /\ task = "uninstall" /\ TypeOK /\ ControlInv
    BY DEF RemoveState, Step, IInv, ControlInv, RemovePcs
  <1>2. core = "stock" /\ pc[Service] = "idle"
    BY <1>1 DEF IInv, QuietInv, RemovePcs
  <1>3. Core!Inside = {}
    BY <1>1, <1>2 DEF Core!Inside, ControlInv, InsidePcs, Procs
  <1>4. Core!Forget
    BY <1>2, <1>3 DEF RemoveState, Core!Forget
  <1> QED
    BY <1>4 DEF Core!Next

LEMMA ContractInit == Init => Core!Init
  BY DEF Init, Core!Init

LEMMA ContractNext == IInv /\ [Next]_vars => [torn' \/ Core!Next]_<<coreVars, at>>
  <1> SUFFICES ASSUME IInv, Next, ~torn'
               PROVE  [Core!Next]_<<coreVars, at>>
    OBVIOUS
  <1>1. Service \in Procs /\ Admin \in Procs
    BY DEF Procs
  <1>2. CASE RemoveState
    BY <1>2, RemovalMaps
  <1>3. CASE ~RemoveState
    <2>1. torn' = torn
      BY <1>3 DEF Next, ServiceStep, AdminStep, Command, Open, Look, Build, Backup, Stage,
         Replace,
         Restart, Record, Undo, Revert, RollbackBinary, Exit, Leave, PreEnds, Sweep,
         CommandReturns,
         Migrate, CopyManager, InstallUnits, StartService, ServiceReturns, EnableTimer,
         DisableTimer, StopService, UninstallBegins, UninstallFails, RemoveUnits, RemoveManager,
         RemoveCache, UninstallEnds, TimerFires, AdminKilled, Edit, Enter, Timeout, Begin
    <2>2. ~torn
      BY <2>1
    <2>3. ASSUME NEW p \in Procs, Command(p) \/ Enter(p) \/ Timeout(p)
          PROVE  [Core!Next]_<<coreVars, at>>
      BY <2>2, <2>3, CommandMaps DEF Command
    <2>4. CASE PreEnds \/ CommandReturns
      BY <1>1, <2>4, CollectMaps DEF PreEnds, CommandReturns, Step
    <2>5. CASE StopService \/ AdminKilled
      BY <1>1, <2>2, <2>5, DeathMaps DEF StopService, AdminKilled
    <2>6. CASE \/ Sweep \/ TimerFires \/ Edit \/ \E t \in Tasks : Begin(t)
               \/ Migrate \/ CopyManager \/ InstallUnits \/ StartService \/ ServiceReturns
               \/ EnableTimer \/ DisableTimer \/ UninstallBegins \/ UninstallFails
               \/ RemoveUnits \/ RemoveManager \/ RemoveCache \/ UninstallEnds
      BY <2>6 DEF Sweep, TimerFires, Edit, Begin, Migrate, CopyManager, InstallUnits,
         StartService, ServiceReturns, EnableTimer, DisableTimer, UninstallBegins,
         UninstallFails, RemoveUnits, RemoveManager, RemoveCache, UninstallEnds
    <2> QED
      BY <1>1, <1>3, <2>3, <2>4, <2>5, <2>6 DEF Next, ServiceStep, AdminStep
  <1> QED
    BY <1>2, <1>3

\* Timer, installer, menu and uninstaller together keep the contract of the core
\* manager: one command at a time, a core is patched only over the stock one, every
\* command leaves a running core that can be taken back, and no metadata goes that
\* is still needed; but for an uninstall beside a running service.
THEOREM HostKeepsContract == Spec => KeepsContract
  <1>1. Init => Core!Init
    BY ContractInit
  <1>2. IInv /\ [Next]_vars => [torn' \/ Core!Next]_<<coreVars, at>>
    BY ContractNext
  <1> QED
    BY <1>1, <1>2, Invariance, PTL DEF Spec, KeepsContract
=============================================================================
