---------------------------- MODULE CoreManager ----------------------------
(***************************************************************************)
(* The core manager (src/xray-core-manager.py): it builds the patched core *)
(* of the version a container runs, puts it into the container, checks the *)
(* outcome and takes it back.  Its commands run as processes (the timer's  *)
(* service, the installer, the menu, the uninstaller) under one flock.     *)
(*                                                                         *)
(* The container is not the manager's own: it may be restarted, or replaced*)
(* by a new one of the same name and perhaps another version, between any  *)
(* two Docker commands.  Each Docker command is a step; it may fail        *)
(* without effect, or be reported as failed although it took effect, and   *)
(* a process may be killed at any point.                                   *)
(***************************************************************************)
EXTENDS Integers

CONSTANTS
    Procs,      \* processes that run commands
    Timer,      \* the one the systemd timer starts: it only runs `ensure'
    Versions,   \* Xray versions
    Qualities,  \* how the patch may fare with a version
    MaxGen,     \* bound on the containers created under the name
    MaxFaults,  \* bound on failing commands and killed processes
    Nil

ASSUME ManagerAssumption ==
    /\ Timer \in Procs
    /\ Qualities \subseteq {"good", "nobuild", "invalid", "crash"}
    /\ MaxGen \in Nat \ {0}
    /\ MaxFaults \in Nat

Gens == 1..MaxGen

\* A core binary: what it is, and the container it was made for or found in.
Binary == [kind : {"stock", "patched", "legacy"}, ver : Versions, home : Gens]

\* Of deployment.json: the version, the Docker id, the checksum of the backup.
Metadata == [ver : Versions, id : Gens, sum : Binary]

ASSUME NilAssumption ==
    /\ Nil \notin Procs
    /\ Nil \notin Versions
    /\ Nil \notin Binary
    /\ Nil \notin Metadata

Stock(v, g) == [kind |-> "stock", ver |-> v, home |-> g]

Core(k, v, g) == [kind |-> k, ver |-> v, home |-> g]

VARIABLES
    quality,    \* how the patch fares with each version, fixed but unknown
    gen,        \* the container that has the name (its Docker id)
    file,       \* the core binary in that container
    proc,       \* the binary its core process runs, Nil when it is down
    lock,       \* the process that holds core-manager.lock, or Nil
    loc,        \* process -> its local state
    backup,     \* <<version, id>> -> stock-xray, Nil when there is none
    meta,       \* deployment.json, Nil when there is none
    failed,     \* versions with a failure marker
    artifacts,  \* versions with a published artifact
    faults,     \* faults so far
    excused     \* history: this container met a fault the manager cannot mend

containerVars == <<gen, file, proc>>
diskVars == <<backup, meta, failed, artifacts>>
histVars == <<faults, excused>>
vars == <<quality, containerVars, lock, loc, diskVars, histVars>>

\* Local state: where the process is, its command, `info' (version, kind, id),
\* the container that holds its staged file, who called rollback_binary, and
\* the exception that propagates: a CoreManagerError, or "timeout" for any other
\* one, mostly the TimeoutExpired of a command that has a timeout.
Idle == [pc |-> "idle", cmd |-> Nil, ver |-> Nil, kind |-> Nil, id |-> 0,
         staged |-> 0, by |-> "command", error |-> Nil]

TimedPcs    == {"build", "validate", "restart", "rbrestart"}
DeployPcs   == {"build", "live", "liveid", "copy", "validate", "compare", "mv"}
ReplacedPcs == {"restart", "postid", "health", "meta"}
RollbackPcs == {"rbid", "rbcp", "rbmv", "rbrestart", "rbpostid", "rbhealth"}
OtherPcs    == {"info", "infoid", "gate", "rbmeta", "unmark", "except", "nonfatal"}
ExitPcs     == {"ok", "failed"}
OutsidePcs  == {"idle", "lock"} \cup ExitPcs
InsidePcs   == OtherPcs \cup DeployPcs \cup ReplacedPcs \cup RollbackPcs

CommandNames == {"ensure", "retry", "rollback", "restore"}

Local == [pc : OutsidePcs \cup InsidePcs,
          cmd : CommandNames \cup {Nil},
          ver : Versions \cup {Nil},
          kind : {"stock", "patched", "legacy", Nil},
          id : 0..MaxGen, staged : 0..MaxGen,
          by : {"command", "deploy"},
          error : {"manager", "timeout", Nil}]

TypeOK ==
    /\ quality \in [Versions -> Qualities]
    /\ gen \in Gens
    /\ file \in Binary
    /\ proc \in Binary \cup {Nil}
    /\ lock \in Procs \cup {Nil}
    /\ loc \in [Procs -> Local]
    /\ backup \in [Versions \X Gens -> Binary \cup {Nil}]
    /\ meta \in Metadata \cup {Nil}
    /\ failed \subseteq Versions
    /\ artifacts \subseteq Versions
    /\ faults \in 0..MaxFaults
    /\ excused \in BOOLEAN

\* A container with the stock core, or with the patch of an earlier release,
\* whose metadata may have been lost.
Init ==
    /\ quality \in [Versions -> Qualities]
    /\ gen = 1
    /\ \E v \in Versions, k \in {"stock", "legacy"}, lost \in BOOLEAN :
          LET original == IF k = "legacy" /\ ~lost THEN Stock(v, 1) ELSE Nil
          IN  /\ file = Core(k, v, 1)
              /\ backup = [x \in Versions \X Gens |->
                             IF x = <<v, 1>> THEN original ELSE Nil]
              /\ meta = IF original = Nil THEN Nil
                        ELSE [ver |-> v, id |-> 1, sum |-> original]
    /\ proc = file
    /\ lock = Nil
    /\ loc = [p \in Procs |-> Idle]
    /\ failed = {}
    /\ artifacts = {}
    /\ faults = 0
    /\ excused = FALSE

-----------------------------------------------------------------------------
(* Control: processes under the lock, exceptions.  An operator marked       *)
(* "Bug:" is a plausible mistake in the code; it replaces the definition    *)
(* after it only to show that some property notices.                        *)

At(p, l) == loc[p].pc = l

Goto(p, l) == loc' = [loc EXCEPT ![p].pc = l] /\ UNCHANGED lock

\* The command ends; its exit status waits for whoever started it.
Exit(p, status) ==
    /\ loc' = [loc EXCEPT ![p] = [Idle EXCEPT !.pc = status]]
    /\ lock' = IF lock = p THEN Nil ELSE lock

\* `ensure --nonfatal', which only the timer uses, has a last look at the core.
Fail(p, error) ==
    IF p = Timer
    THEN loc' = [loc EXCEPT ![p].pc = "nonfatal", ![p].error = error] /\ UNCHANGED lock
    ELSE Exit(p, "failed")

\* Bug: no rollback after a failed deployment.
RaiseWithoutRollback(p, error) ==
    IF loc[p].pc \in DeployPcs \cup ReplacedPcs \/ loc[p].by = "deploy"
    THEN loc' = [loc EXCEPT ![p].pc = "except", ![p].error = error] /\ UNCHANGED lock
    ELSE Fail(p, error)

\* An exception: a deployment that has replaced the binary rolls back, one that
\* has not records the failure, others just end.  A deployment whose rollback
\* fails raises a CoreManagerError, whatever it was that failed.
Raise(p, error) ==
    IF loc[p].pc \in ReplacedPcs
    THEN /\ loc' = [loc EXCEPT ![p].pc = "rbid", ![p].by = "deploy", ![p].error = error]
         /\ UNCHANGED lock
    ELSE IF loc[p].pc \in DeployPcs \/ loc[p].by = "deploy"
    THEN /\ loc' = [loc EXCEPT ![p].pc = "except",
                       ![p].error = IF @ = Nil THEN error ELSE "manager"]
         /\ UNCHANGED lock
    ELSE Fail(p, error)

\* The exceptions a command that fails may raise.
Errors(p) == IF loc[p].pc \in TimedPcs THEN {"manager", "timeout"} ELSE {"manager"}

\* Go on if the condition holds, else raise an exception.
Require(p, condition, l) ==
    IF condition THEN Goto(p, l) ELSE Raise(p, "manager")

Fault == faults < MaxFaults /\ faults' = faults + 1

\* Go on, or (late) raise an exception although the command has taken effect.
GotoUnless(p, late, l) ==
    IF late
    THEN Fault /\ \E error \in Errors(p) : Raise(p, error)
    ELSE Goto(p, l) /\ UNCHANGED faults

Key(p) == <<loc[p].ver, loc[p].id>>

Begin(p, cmd) ==
    /\ loc[p].pc = "idle"
    /\ p = Timer <=> cmd = "ensure"
    /\ loc' = [loc EXCEPT ![p].pc = "lock", ![p].cmd = cmd]
    /\ UNCHANGED <<quality, containerVars, lock, diskVars, histVars>>

\* systemd or the shell takes note of the exit status.
Collect(p) ==
    /\ loc[p].pc \in ExitPcs
    /\ Goto(p, "idle")
    /\ UNCHANGED <<quality, containerVars, diskVars, histVars>>

\* Bug: no flock.
AcquireWithoutLock(p) ==
    /\ loc[p].pc = "lock"
    /\ lock' = p
    /\ loc' = [loc EXCEPT ![p].pc = IF loc[p].cmd = "rollback" THEN "rbmeta"
                                    ELSE "info"]
    /\ UNCHANGED <<quality, containerVars, diskVars, histVars>>

Acquire(p) ==
    /\ lock = Nil
    /\ loc[p].pc = "lock"
    /\ lock' = p
    /\ loc' = [loc EXCEPT ![p].pc = IF loc[p].cmd = "rollback" THEN "rbmeta"
                                    ELSE "info"]
    /\ UNCHANGED <<quality, containerVars, diskVars, histVars>>

-----------------------------------------------------------------------------
(* ensure: what is in the container?                                       *)

\* current_info reads the binary first and the container id last.
InfoStatement(p) ==
    /\ At(p, "info")
    /\ loc' = [loc EXCEPT ![p].pc = "infoid", ![p].ver = file.ver,
                          ![p].kind = file.kind]
    /\ UNCHANGED <<quality, containerVars, lock, diskVars, histVars>>

\* A patched core is left alone; a legacy patch (and for `restore' any patch)
\* is rolled back first.
InfoId(p) ==
    /\ At(p, "infoid")
    /\ LET l    == loc[p]
           done == l.kind = IF l.cmd = "restore" THEN "stock" ELSE "patched"
       IN  IF done THEN Exit(p, "ok")
           ELSE /\ loc' = [loc EXCEPT
                             ![p].id = gen,
                             ![p].pc = IF l.kind = "stock" THEN "gate"
                                       ELSE "rbmeta"]
                /\ UNCHANGED lock
    /\ UNCHANGED <<quality, containerVars, diskVars, histVars>>

\* A version that has failed is not tried again, unless the user insists.
Gate(p) ==
    /\ At(p, "gate")
    /\ IF loc[p].ver \in failed /\ loc[p].cmd # "retry" THEN Fail(p, "manager")
       ELSE Goto(p, IF loc[p].ver \in artifacts THEN "live" ELSE "build")
    /\ UNCHANGED <<quality, containerVars, diskVars, histVars>>

\* clone_and_build; the artifact is published before build.json is written.
Build(p) ==
    /\ At(p, "build")
    /\ quality[loc[p].ver] # "nobuild"
    /\ artifacts' = artifacts \cup {loc[p].ver}
    /\ \E late \in BOOLEAN : GotoUnless(p, late, "live")
    /\ UNCHANGED <<quality, containerVars, backup, meta, failed, excused>>

BuildFails(p) ==
    /\ At(p, "build")
    /\ quality[loc[p].ver] = "nobuild"
    /\ Raise(p, "manager")
    /\ UNCHANGED <<quality, containerVars, diskVars, histVars>>

-----------------------------------------------------------------------------
(* deploy.                                                                 *)

\* A second current_info: the build takes minutes.
LiveStatement(p) ==
    /\ At(p, "live")
    /\ Require(p, file.ver = loc[p].ver /\ file.kind = "stock", "liveid")
    /\ UNCHANGED <<quality, containerVars, diskVars, histVars>>

LiveId(p) ==
    /\ At(p, "liveid")
    /\ Require(p, gen = loc[p].id, "copy")
    /\ UNCHANGED <<quality, containerVars, diskVars, histVars>>

\* Bug: the backup is forgotten.
NoBackup(p) ==
    /\ At(p, "copy")
    /\ Goto(p, "validate")
    /\ UNCHANGED <<quality, containerVars, diskVars, histVars>>

\* The backup of this container is refreshed, and discarded if it is patched.
CopyBackup(p) ==
    /\ At(p, "copy")
    /\ Require(p, file.kind # "patched", "validate")
    /\ backup' = [backup EXCEPT ![Key(p)] = IF file.kind = "patched" THEN Nil
                                            ELSE file]
    /\ UNCHANGED <<quality, containerVars, meta, failed, artifacts, histVars>>

\* The artifact, copied into whatever container has the name, accepts the
\* active configuration or not.
Validate(p) ==
    /\ At(p, "validate")
    /\ IF quality[loc[p].ver] = "invalid" THEN Raise(p, "manager")
       ELSE /\ loc' = [loc EXCEPT ![p].pc = "compare", ![p].staged = gen]
            /\ UNCHANGED lock
    /\ UNCHANGED <<quality, containerVars, diskVars, histVars>>

\* Bug: no second look at the container before the replacement.
CompareNothing(p) ==
    /\ At(p, "compare")
    /\ Goto(p, "mv")
    /\ UNCHANGED <<quality, containerVars, diskVars, histVars>>

CompareId(p) ==
    /\ At(p, "compare")
    /\ Require(p, gen = loc[p].id, "mv")
    /\ UNCHANGED <<quality, containerVars, diskVars, histVars>>

\* `docker exec mv': the staged file is gone when the container is another one.
\* When the command fails late, the code does not know of the replacement.
Replace(p) ==
    /\ At(p, "mv")
    /\ gen = loc[p].staged
    /\ file' = Core("patched", loc[p].ver, gen)
    /\ \E late \in BOOLEAN : /\ GotoUnless(p, late, "restart")
                             /\ excused' = (excused \/ late)
    /\ UNCHANGED <<quality, gen, proc, diskVars>>

StagedIsGone(p) ==
    /\ loc[p].pc \in {"mv", "rbmv"}
    /\ gen # loc[p].staged
    /\ Raise(p, "manager")
    /\ UNCHANGED <<quality, containerVars, diskVars, histVars>>

\* What runs after a restart: a patched core may fail to come up.
Started == IF file.kind = "patched" /\ quality[file.ver] = "crash" THEN Nil
           ELSE file

\* `docker restart', which may also time out after the fact.
Restart(p) ==
    /\ At(p, "restart")
    /\ proc' = Started
    /\ \E late \in BOOLEAN : GotoUnless(p, late, "postid")
    /\ UNCHANGED <<quality, gen, file, diskVars, excused>>

PostId(p) ==
    /\ At(p, "postid")
    /\ Require(p, gen = loc[p].id, "health")
    /\ UNCHANGED <<quality, containerVars, diskVars, histVars>>

\* wait_healthy: a process executes the file on disk, which is patched.
Health(p) ==
    /\ At(p, "health")
    /\ Require(p, proc = file /\ file.kind = "patched", "meta")
    /\ UNCHANGED <<quality, containerVars, diskVars, histVars>>

WriteMetadata(p) ==
    /\ At(p, "meta")
    /\ meta' = [ver |-> loc[p].ver, id |-> loc[p].id, sum |-> backup[Key(p)]]
    /\ Goto(p, "unmark")
    /\ UNCHANGED <<quality, containerVars, backup, failed, artifacts, histVars>>

ClearFailure(p) ==
    /\ At(p, "unmark")
    /\ failed' = failed \ {loc[p].ver}
    /\ Exit(p, "ok")
    /\ UNCHANGED <<quality, containerVars, backup, meta, artifacts, histVars>>

\* Bug: the failure is not recorded.
ForgetFailure(p) ==
    /\ At(p, "except")
    /\ Fail(p, loc[p].error)
    /\ UNCHANGED <<quality, containerVars, diskVars, histVars>>

\* The handler in ensure.
RecordFailure(p) ==
    /\ At(p, "except")
    /\ failed' = failed \cup {loc[p].ver}
    /\ Fail(p, loc[p].error)
    /\ UNCHANGED <<quality, containerVars, backup, meta, artifacts, histVars>>

\* stock_core_is_running: by its fallback, `docker top', any process of the core
\* counts, also one of an earlier file.
StockRuns == proc # Nil /\ file.kind = "stock"

\* The timer's command reports success if the stock core runs, but for an
\* exception that is not the manager's own.
Nonfatal(p) ==
    /\ At(p, "nonfatal")
    /\ Exit(p, IF StockRuns /\ loc[p].error = "manager" THEN "ok" ELSE "failed")
    /\ UNCHANGED <<quality, containerVars, diskVars, histVars>>

-----------------------------------------------------------------------------
(* rollback and rollback_binary.                                           *)

\* The metadata must be of this container, the backup what it was; where there is
\* no backup, its checksum raises an OSError.
ReadMetadata(p) ==
    /\ At(p, "rbmeta")
    /\ IF meta # Nil /\ meta.id = gen /\ backup[<<meta.ver, meta.id>>] = meta.sum
       THEN /\ loc' = [loc EXCEPT ![p].pc = "rbid", ![p].ver = meta.ver,
                                  ![p].id = meta.id]
            /\ UNCHANGED lock
       ELSE Fail(p, IF meta # Nil /\ meta.id = gen /\ backup[<<meta.ver, meta.id>>] = Nil
                    THEN "timeout" ELSE "manager")
    /\ UNCHANGED <<quality, containerVars, diskVars, histVars>>

RollbackId(p) ==
    /\ At(p, "rbid")
    /\ Require(p, backup[Key(p)] # Nil /\ gen = loc[p].id, "rbcp")
    /\ UNCHANGED <<quality, containerVars, diskVars, histVars>>

RollbackCopy(p) ==
    /\ At(p, "rbcp")
    /\ loc' = [loc EXCEPT ![p].pc = "rbmv", ![p].staged = gen]
    /\ UNCHANGED <<quality, containerVars, lock, diskVars, histVars>>

\* Bug: the rollback does not restart the container.
RollbackWithoutRestart(p) ==
    /\ At(p, "rbmv")
    /\ gen = loc[p].staged
    /\ file' = backup[Key(p)]
    /\ Goto(p, "rbpostid")
    /\ UNCHANGED <<quality, gen, proc, diskVars, histVars>>

RollbackReplace(p) ==
    /\ At(p, "rbmv")
    /\ gen = loc[p].staged
    /\ file' = backup[Key(p)]
    /\ \E late \in BOOLEAN : /\ GotoUnless(p, late, "rbrestart")
                             /\ excused' = (excused \/ late)
    /\ UNCHANGED <<quality, gen, proc, diskVars>>

RollbackRestart(p) ==
    /\ At(p, "rbrestart")
    /\ proc' = Started
    /\ \E late \in BOOLEAN : GotoUnless(p, late, "rbpostid")
    /\ UNCHANGED <<quality, gen, file, diskVars, excused>>

RollbackPostId(p) ==
    /\ At(p, "rbpostid")
    /\ Require(p, gen = loc[p].id, "rbhealth")
    /\ UNCHANGED <<quality, containerVars, diskVars, histVars>>

\* The stock core runs again: a failed deployment goes on to record its
\* failure, `ensure' to upgrade the legacy core, the other commands end.
RollbackHealth(p) ==
    /\ At(p, "rbhealth")
    /\ IF proc # file THEN Raise(p, "manager")
       ELSE IF loc[p].by = "deploy" THEN Goto(p, "except")
       ELSE IF loc[p].cmd \in {"ensure", "retry"} THEN Goto(p, "info")
       ELSE Exit(p, "ok")
    /\ UNCHANGED <<quality, containerVars, diskVars, histVars>>

-----------------------------------------------------------------------------
(* The environment.                                                        *)

\* A command fails without effect (also: the health check times out).
CommandFails(p) ==
    /\ loc[p].pc \notin OutsidePcs \cup {"gate", "unmark", "except"}
    /\ Fault
    /\ IF At(p, "nonfatal") THEN Exit(p, "failed")
       ELSE \E error \in Errors(p) : Raise(p, error)
    /\ excused' = (excused \/ loc[p].pc \in RollbackPcs)
    /\ UNCHANGED <<quality, containerVars, diskVars>>

\* Bug: a lock file that survives its owner.
KilledWithLock(p) ==
    /\ loc[p].pc \notin OutsidePcs
    /\ Fault
    /\ loc' = [loc EXCEPT ![p] = [Idle EXCEPT !.pc = "failed"]]
    /\ excused' = TRUE
    /\ UNCHANGED <<quality, containerVars, lock, diskVars>>

\* The process is killed; the kernel releases its flock.
Killed(p) ==
    /\ loc[p].pc \notin OutsidePcs
    /\ Fault
    /\ Exit(p, "failed")
    /\ excused' = TRUE
    /\ UNCHANGED <<quality, containerVars, diskVars>>

\* Somebody restarts the container.
ContainerRestarts ==
    /\ proc # Started
    /\ proc' = Started
    /\ UNCHANGED <<quality, gen, file, lock, loc, diskVars, histVars>>

\* `docker compose down && up', perhaps with another image.  Nothing that
\* happened to the old container excuses the state of the new one.
ContainerRecreated(v) ==
    /\ gen < MaxGen
    /\ gen' = gen + 1
    /\ file' = Stock(v, gen')
    /\ proc' = file'
    /\ excused' = FALSE
    /\ UNCHANGED <<quality, lock, loc, diskVars, faults>>

-----------------------------------------------------------------------------

Continue(p) ==
    \/ InfoStatement(p) \/ InfoId(p) \/ Gate(p) \/ Build(p) \/ BuildFails(p)
    \/ LiveStatement(p) \/ LiveId(p) \/ CopyBackup(p) \/ Validate(p)
    \/ CompareId(p) \/ Replace(p) \/ StagedIsGone(p) \/ Restart(p) \/ PostId(p)
    \/ Health(p) \/ WriteMetadata(p) \/ ClearFailure(p) \/ RecordFailure(p)
    \/ ReadMetadata(p) \/ RollbackId(p) \/ RollbackCopy(p) \/ RollbackReplace(p)
    \/ RollbackRestart(p) \/ RollbackPostId(p) \/ RollbackHealth(p) \/ Nonfatal(p)

Next ==
    \/ \E p \in Procs :
          \/ \E cmd \in CommandNames : Begin(p, cmd)
          \/ Acquire(p) \/ Continue(p) \/ Collect(p) \/ CommandFails(p) \/ Killed(p)
    \/ ContainerRestarts
    \/ \E v \in Versions : ContainerRecreated(v)

Spec == Init /\ [][Next]_vars

(***************************************************************************)
(* The timer runs `ensure' again and again, a process goes on once it has  *)
(* the lock (builds, tests, the validation and restarts have timeouts; the *)
(* short docker commands are taken to return), and the timer's process is  *)
(* not kept from the lock for ever.                                        *)
(***************************************************************************)
Fairness ==
    /\ WF_vars(Begin(Timer, "ensure")) /\ WF_vars(Collect(Timer))
    /\ \A p \in Procs : WF_vars(Continue(p)) /\ SF_vars(Acquire(p))

FairSpec == Spec /\ Fairness

-----------------------------------------------------------------------------
(* Safety.                                                                 *)

\* A build is only ever put in the place of the stock core of the very version
\* it was built from, however the container was replaced since the version was
\* read: neither a wrong version nor a patch over a patch.
PatchReplacesItsStock ==
    [][file'.kind = "patched" /\ file' # file =>
          /\ gen' = gen
          /\ file.kind = "stock"
          /\ file.ver = file'.ver]_vars

\* What the metadata of the present container points to is there, unchanged,
\* and stock: the rollback it promises is possible at any time.
RollbackIsPossible ==
    meta # Nil /\ meta.id = gen =>
        /\ backup[<<meta.ver, meta.id>>] = meta.sum
        /\ meta.sum.kind = "stock"

Recorded == meta # Nil /\ meta.id = gen

\* A failure is recorded only when the stock core is back in its place, unless the
\* container has met a kill, a late error of the replacement or a failed rollback
\* (excused), which the code has no way to mend.
FailureLeavesStock ==
    [][\A v \in failed' \ failed : file.kind # "patched" \/ excused]_vars

(* Liveness.                                                               *)

\* Every command ends, one that waits for the lock of others included: nobody
\* leaves the lock behind.
CommandsEnd ==
    \A p \in Procs :
        (loc[p].pc \notin {"idle"} \cup ExitPcs) ~> (loc[p].pc \in ExitPcs)

\* A container with a stock core gets the patch, or its version a failure
\* marker: after an upgrade of the container, a rollback, faults and kills.
EnsureConverges ==
    (lock = Nil /\ file.kind = "stock")
        ~> (lock = Nil /\ (file.kind = "patched" \/ file.ver \in failed))

-----------------------------------------------------------------------------
(* Refinement.                                                             *)

AbstractAt(p) ==
    CASE loc[p].pc \in ExitPcs -> loc[p].pc
      [] loc[p].pc \in {"idle", "lock"} -> "out"
      [] loc[p].pc \in InsidePcs /\ loc[p].cmd \in {"ensure", "retry"} -> "ensure"
      [] loc[p].pc \in InsidePcs /\ loc[p].cmd \notin {"ensure", "retry"} -> "restore"

Running == proc = file

Status == [p \in Procs |-> AbstractAt(p)]

Contract == INSTANCE CoreContract WITH
    core <- file.kind,
    running <- Running,
    recorded <- Recorded,
    spoiled <- excused,
    at <- Status

\* Each step of the manager is a step of its contract or none at all.  In
\* particular a command that ends, with whatever result, leaves a core that
\* runs and that can be taken back, unless a process was killed or a rollback
\* failed in this container; a restore that reports success leaves the stock
\* core; and metadata is written for a patched core only.
ImplementsContract == Contract!Spec

-----------------------------------------------------------------------------
(* What the documentation says, and the code does not keep.                *)

\* README: an old binary is never carried over to a recreated container.
NoOldBinaryInjected ==
    [][gen' = gen /\ file' # file => file'.home = gen]_vars
=============================================================================
