-------------------------- MODULE CoreManagerProofs --------------------------
(***************************************************************************)
(* Theorems about CoreManager, for any set of processes and versions, any  *)
(* fate of the patch, and any number of recreations and faults.            *)
(***************************************************************************)
EXTENDS CoreManager, TLAPS

USE DEF vars, containerVars, diskVars, histVars

-----------------------------------------------------------------------------
(* The inductive invariant.                                                *)

Inside(p) == loc[p].pc \in InsidePcs

\* The program counters at which `ver' and `id' name what the command works on.
KeyPcs == {"gate", "except"} \cup DeployPcs \cup ReplacedPcs \cup RollbackPcs

\* The stock core of the container runs.
Fresh == file.kind = "stock" /\ proc = file

\* The container is as a command should leave it, and no restart changes that.
Sound ==
    /\ proc = file
    /\ file.kind = "patched" => Recorded /\ quality[file.ver] # "crash"

\* The lock is held by the process inside; the others have clean local states.
LockInv(p) ==
    /\ Inside(p) <=> lock = p
    /\ ~Inside(p) => loc[p].by = "command" /\ loc[p].error = Nil
    /\ loc[p].pc = "lock" => loc[p].cmd \in CommandNames

\* Only a deployment gets to the replacement and to its rollback.
CommandInv(p) ==
    /\ Inside(p) => loc[p].cmd \in CommandNames
    /\ loc[p].pc \in {"info", "infoid"} => loc[p].cmd # "rollback"
    /\ loc[p].pc \in {"gate", "unmark", "except"} \cup DeployPcs \cup ReplacedPcs =>
          loc[p].cmd \in {"ensure", "retry"}
    /\ loc[p].by = "deploy" =>
          /\ loc[p].pc \in RollbackPcs \cup {"except", "nonfatal"}
          /\ loc[p].cmd \in {"ensure", "retry"}
          /\ loc[p].error \in {"manager", "timeout"}
    /\ loc[p].pc \in {"except", "nonfatal"} => loc[p].error \in {"manager", "timeout"}
    /\ loc[p].pc = "infoid" => loc[p].ver \in Versions

\* The container a command works on is this one or an earlier one; metadata of
\* this one is never met by a command that works on an earlier one.
KeyInv(p) ==
    loc[p].pc \in KeyPcs =>
        /\ loc[p].ver \in Versions
        /\ loc[p].id \in 1..gen
        /\ Recorded => loc[p].id = gen

\* What a deployment has found out about the container remains true as long as
\* it is the same.
DeployInv(p) ==
    LET l == loc[p] IN
    /\ l.pc \in {"gate"} \cup DeployPcs => file.kind = "stock"
    /\ l.pc \in {"liveid", "copy", "validate", "compare", "mv"} /\ l.id = gen =>
          file.ver = l.ver
    /\ l.pc \in {"validate", "compare", "mv"} =>
          /\ backup[Key(p)] # Nil
          /\ l.id = gen => backup[Key(p)] = file
    /\ l.pc = "compare" => l.staged \in l.id..gen
    /\ l.pc = "mv" => l.staged = l.id

\* After the replacement: the same container with the patched core and the
\* backup of its stock core, or a new one.
ReplacedInv(p) ==
    LET l == loc[p] IN
    /\ \/ l.pc \in ReplacedPcs
       \/ l.pc \in {"rbid", "rbcp", "rbmv"} /\ l.by = "deploy"
       => backup[Key(p)] # Nil
    /\ l.pc \in ReplacedPcs =>
          \/ Fresh /\ l.id # gen
          \/ /\ l.id = gen
             /\ file.kind = "patched"
             /\ file.ver = l.ver
             /\ backup[Key(p)].ver = l.ver
    /\ l.pc = "meta" => proc = file

\* A rollback: the container still has what is taken back, or is a new one.
RollingInv(p) ==
    LET l == loc[p] IN
    /\ l.pc \in {"rbid", "rbcp", "rbmv"} /\ l.id = gen => file.ver = l.ver
    /\ l.pc \in {"rbcp", "rbmv"} => backup[Key(p)] # Nil
    /\ l.pc \in {"rbid", "rbcp"} /\ l.by = "deploy" => Fresh \/ l.id = gen
    /\ l.pc = "rbmv" /\ l.by = "deploy" => Fresh \/ l.staged = gen
    /\ l.pc = "rbrestart" => file.kind = "stock"
    /\ l.pc \in {"rbpostid", "rbhealth"} => Fresh

\* Where no replacement is under way the container is sound; a deployment that
\* is about to record its failure has put the stock core back.
SettledInv(p) ==
    LET l == loc[p] IN
    /\ \/ l.pc \in {"info", "infoid", "gate", "rbmeta", "unmark", "nonfatal"} \cup DeployPcs
       \/ l.pc \in {"rbid", "rbcp", "rbmv"} /\ l.by = "command"
       => Sound \/ excused
    /\ l.pc = "infoid" /\ l.kind = "stock" => file.kind = "stock"
    /\ l.pc = "except" => Fresh \/ excused

\* The metadata of this container leads back to the stock core it had.
MetaInv ==
    /\ meta # Nil => meta.id <= gen
    /\ Recorded =>
          /\ meta.ver = file.ver
          /\ meta.sum.ver = file.ver
          /\ file.kind = "stock" => file = meta.sum

BackupInv ==
    \A x \in Versions \X Gens : backup[x] # Nil => backup[x].kind = "stock"

\* A patched core that runs is one that comes up.
RunningInv == proc # Nil /\ proc.kind = "patched" => quality[proc.ver] # "crash"

FreeInv == lock = Nil => Sound \/ excused

GlobalInv ==
    /\ MetaInv
    /\ BackupInv
    /\ RunningInv
    /\ FreeInv
    /\ RollbackIsPossible

ProcInv(p) ==
    /\ LockInv(p)
    /\ CommandInv(p)
    /\ KeyInv(p)
    /\ DeployInv(p)
    /\ ReplacedInv(p)
    /\ RollingInv(p)
    /\ SettledInv(p)

IInv ==
    /\ TypeOK
    /\ GlobalInv
    /\ \A p \in Procs : ProcInv(p)
-----------------------------------------------------------------------------
(* Control.                                                                *)

\* A step of p leaves the local states of the others alone.
Only(p) ==
    /\ loc' \in [Procs -> Local]
    /\ \A q \in Procs \ {p} : loc'[q] = loc[q]

\* p keeps all of its local state but the program counter and the exception.
Keeps(p) ==
    /\ loc'[p].cmd = loc[p].cmd
    /\ loc'[p].ver = loc[p].ver
    /\ loc'[p].kind = loc[p].kind
    /\ loc'[p].id = loc[p].id
    /\ loc'[p].staged = loc[p].staged

LEMMA GotoEffect ==
    ASSUME TypeOK, NEW p \in Procs, NEW l \in OutsidePcs \cup InsidePcs, Goto(p, l)
    PROVE  /\ Only(p)
           /\ Keeps(p)
           /\ loc'[p].pc = l
           /\ loc'[p].by = loc[p].by
           /\ loc'[p].error = loc[p].error
           /\ lock' = lock
  BY DEF TypeOK, Local, Goto, Only, Keeps

LEMMA ExitEffect ==
    ASSUME TypeOK, NEW p \in Procs, NEW status \in ExitPcs, Exit(p, status)
    PROVE  /\ Only(p)
           /\ loc'[p].pc = status
           /\ loc'[p].by = "command"
           /\ loc'[p].error = Nil
           /\ lock' = IF lock = p THEN Nil ELSE lock
  BY ManagerAssumption DEF TypeOK, Local, Exit, Only, Idle, OutsidePcs

LEMMA FailEffect ==
    ASSUME TypeOK, NEW p \in Procs, NEW error \in {"manager", "timeout", Nil}, Fail(p, error)
    PROVE  \/ /\ Only(p)
              /\ Keeps(p)
              /\ loc'[p].pc = "nonfatal"
              /\ loc'[p].by = loc[p].by
              /\ loc'[p].error = error
              /\ lock' = lock
           \/ Exit(p, "failed")
  BY DEF TypeOK, Local, Fail, Only, Keeps, InsidePcs, OtherPcs

\* Where an exception leads to.
LEMMA RaiseEffect ==
    ASSUME TypeOK, NEW p \in Procs, NEW error \in {"manager", "timeout"}, Raise(p, error)
    PROVE  \/ /\ loc[p].pc \in ReplacedPcs
              /\ Only(p)
              /\ Keeps(p)
              /\ loc'[p].pc = "rbid"
              /\ loc'[p].by = "deploy"
              /\ loc'[p].error = error
              /\ lock' = lock
           \/ /\ loc[p].pc \notin ReplacedPcs
              /\ loc[p].pc \in DeployPcs \/ loc[p].by = "deploy"
              /\ Only(p)
              /\ Keeps(p)
              /\ loc'[p].pc = "except"
              /\ loc'[p].by = loc[p].by
              /\ loc'[p].error \in {"manager", "timeout"}
              /\ lock' = lock
           \/ /\ loc[p].pc \notin ReplacedPcs \cup DeployPcs
              /\ loc[p].by # "deploy"
              /\ Fail(p, error)
  <1>1. CASE loc[p].pc \in ReplacedPcs
    BY <1>1 DEF TypeOK, Local, Raise, Only, Keeps, InsidePcs, RollbackPcs
  <1>2. CASE loc[p].pc \notin ReplacedPcs /\ (loc[p].pc \in DeployPcs \/ loc[p].by = "deploy")
    BY <1>2 DEF TypeOK, Local, Raise, Only, Keeps, InsidePcs, OtherPcs
  <1>3. CASE loc[p].pc \notin ReplacedPcs \cup DeployPcs /\ loc[p].by # "deploy"
    BY <1>3 DEF Raise
  <1> QED
    BY <1>1, <1>2, <1>3

\* Only the process inside has to be looked at.
LEMMA OthersAreOutside ==
    ASSUME TypeOK, \A q \in Procs : ProcInv(q),
           NEW p \in Procs, lock = p, Only(p), lock' \in {p, Nil}, ProcInv(p)'
    PROVE  \A q \in Procs : ProcInv(q)'
  <1> SUFFICES ASSUME NEW q \in Procs, q # p
               PROVE  ProcInv(q)'
    OBVIOUS
  <1>1. loc'[q] = loc[q] /\ ~Inside(q) /\ lock' # q
    BY NilAssumption DEF Only, ProcInv, LockInv
  <1>2. loc[q].pc \in OutsidePcs
    BY <1>1 DEF TypeOK, Local, Inside
  <1> QED
    BY <1>1, <1>2 DEF ProcInv, LockInv, CommandInv, KeyInv, DeployInv, ReplacedInv,
       RollingInv, SettledInv, Inside, OutsidePcs, ExitPcs, KeyPcs, DeployPcs,
       ReplacedPcs, RollbackPcs

\* Nothing is claimed of a process that has ended its command.
LEMMA ExitKeeps ==
    ASSUME TypeOK, \A q \in Procs : ProcInv(q),
           NEW p \in Procs, lock = p, NEW status \in ExitPcs, Exit(p, status)
    PROVE  /\ \A q \in Procs : ProcInv(q)'
           /\ Only(p)
           /\ lock' = Nil
  <1>1. /\ Only(p)
        /\ loc'[p].pc = status
        /\ loc'[p].by = "command"
        /\ loc'[p].error = Nil
        /\ lock' = Nil
    BY ExitEffect
  <1>2. ProcInv(p)'
    BY <1>1, NilAssumption DEF ProcInv, LockInv, CommandInv, KeyInv, DeployInv, ReplacedInv,
       RollingInv, SettledInv, Inside, InsidePcs, OtherPcs, ExitPcs, KeyPcs, DeployPcs,
       ReplacedPcs, RollbackPcs
  <1> QED
    BY <1>1, <1>2, OthersAreOutside

LEMMA InsideHasLock ==
    ASSUME NEW p \in Procs, ProcInv(p), loc[p].pc \in InsidePcs
    PROVE  lock = p
  BY DEF ProcInv, LockInv, Inside

LEMMA KeyIsKey ==
    ASSUME TypeOK, NEW p \in Procs, ProcInv(p), loc[p].pc \in KeyPcs
    PROVE  Key(p) \in Versions \X Gens
  <1>1. loc[p].ver \in Versions /\ loc[p].id \in 1..gen /\ gen \in 1..MaxGen
    BY DEF TypeOK, Gens, ProcInv, KeyInv
  <1>2. loc[p].id \in 1..MaxGen
    BY <1>1, ManagerAssumption
  <1> QED
    BY <1>1, <1>2 DEF Key, Gens

\* An exception that leaves the version, the backup and the metadata alone: it
\* must find the container as the handler it leads to expects it.
LEMMA RaiseKeeps ==
    ASSUME TypeOK, \A q \in Procs : ProcInv(q),
           NEW p \in Procs, loc[p].pc \in InsidePcs \ {"unmark", "except", "nonfatal"},
           NEW error \in {"manager", "timeout"}, Raise(p, error),
           UNCHANGED <<gen, backup, meta>>,
           loc[p].pc \in ReplacedPcs =>
              \/ Fresh' /\ loc[p].id # gen
              \/ loc[p].id = gen /\ file'.ver = loc[p].ver,
           \/ loc[p].pc \in DeployPcs
           \/ loc[p].pc \in RollbackPcs /\ loc[p].by = "deploy"
           => Fresh' \/ excused',
           loc[p].pc \notin ReplacedPcs => Sound' \/ excused'
    PROVE  /\ \A q \in Procs : ProcInv(q)'
           /\ Only(p)
           /\ lock' \in {p, Nil}
           /\ FreeInv'
  <1> USE DEF InsidePcs, OtherPcs, DeployPcs, ReplacedPcs, RollbackPcs, OutsidePcs, ExitPcs
  <1>1. lock = p
    BY InsideHasLock
  <1>2. CASE /\ loc[p].pc \in ReplacedPcs
             /\ Only(p)
             /\ Keeps(p)
             /\ loc'[p].pc = "rbid"
             /\ loc'[p].by = "deploy"
             /\ loc'[p].error = error
             /\ lock' = lock
    <2>1. Key(p)' = Key(p) /\ (Recorded' <=> Recorded)
      BY <1>2 DEF Key, Keeps, Recorded
    <2>2. ProcInv(p)'
      BY <1>1, <1>2, <2>1 DEF ProcInv, LockInv, CommandInv, KeyInv, DeployInv, ReplacedInv,
         RollingInv, SettledInv, Inside, KeyPcs, Keeps
    <2> QED
      BY <1>1, <1>2, <2>2, OthersAreOutside, NilAssumption DEF FreeInv
  <1>3. CASE /\ loc[p].pc \notin ReplacedPcs
             /\ loc[p].pc \in DeployPcs \/ loc[p].by = "deploy"
             /\ Only(p)
             /\ Keeps(p)
             /\ loc'[p].pc = "except"
             /\ loc'[p].by = loc[p].by
             /\ loc'[p].error \in {"manager", "timeout"}
             /\ lock' = lock
    <2>1. /\ Fresh' \/ excused'
          /\ loc[p].pc \in KeyPcs
          /\ Recorded' <=> Recorded
      BY <1>3 DEF ProcInv, CommandInv, KeyPcs, Recorded
    <2>2. ProcInv(p)'
      BY <1>1, <1>3, <2>1 DEF ProcInv, LockInv, CommandInv, KeyInv, DeployInv, ReplacedInv,
         RollingInv, SettledInv, Inside, KeyPcs, Keeps
    <2> QED
      BY <1>1, <1>3, <2>2, OthersAreOutside, NilAssumption DEF FreeInv
  <1>4. CASE /\ loc[p].pc \notin ReplacedPcs \cup DeployPcs
             /\ loc[p].by # "deploy"
             /\ Fail(p, error)
    <2>1. CASE /\ Only(p)
               /\ Keeps(p)
               /\ loc'[p].pc = "nonfatal"
               /\ loc'[p].by = loc[p].by
               /\ loc'[p].error = error
               /\ lock' = lock
      <3>1. ProcInv(p)'
        BY <1>1, <1>4, <2>1 DEF ProcInv, LockInv, CommandInv, KeyInv, DeployInv, ReplacedInv,
           RollingInv, SettledInv, Inside, KeyPcs, Keeps
      <3> QED
        BY <1>1, <2>1, <3>1, OthersAreOutside, NilAssumption DEF FreeInv
    <2>2. CASE Exit(p, "failed")
      BY <1>1, <1>4, <2>2, ExitKeeps DEF FreeInv
    <2> QED
      BY <1>4, <2>1, <2>2, FailEffect
  <1> QED
    BY <1>2, <1>3, <1>4, RaiseEffect

\* A step that leaves the container, the backups and the metadata alone.
Looks ==
    /\ UNCHANGED <<quality, containerVars, backup, meta>>
    /\ failed' \subseteq Versions
    /\ artifacts' \subseteq Versions
    /\ faults' \in 0..MaxFaults
    /\ excused' \in BOOLEAN
    /\ excused => excused'

LEMMA LookKeeps ==
    ASSUME IInv, Looks,
           loc' \in [Procs -> Local], lock' \in Procs \cup {Nil},
           \A q \in Procs : ProcInv(q)', FreeInv'
    PROVE  IInv'
  <1>1. TypeOK'
    BY DEF IInv, TypeOK, Looks
  <1>2. GlobalInv'
    BY DEF IInv, Looks, GlobalInv, MetaInv, BackupInv, RunningInv, RollbackIsPossible, Recorded
  <1> QED
    BY <1>1, <1>2 DEF IInv

\* An exception without any effect on the container.
LEMMA RaiseLooks ==
    ASSUME IInv, NEW p \in Procs,
           loc[p].pc \in InsidePcs \ {"unmark", "except", "nonfatal"},
           NEW error \in {"manager", "timeout"}, Raise(p, error),
           Looks,
           loc[p].pc \in {"rbid", "rbcp", "rbmv"} /\ loc[p].by = "deploy" => Fresh \/ excused',
           loc[p].pc = "rbrestart" => excused'
    PROVE  IInv'
  <1>1. ProcInv(p)
    BY DEF IInv
  <1>2. /\ Fresh' <=> Fresh
        /\ Sound' <=> Sound
        /\ Fresh => Sound
    BY DEF Fresh, Sound, Recorded, Looks
  <1>3. loc[p].pc \in ReplacedPcs =>
              \/ Fresh' /\ loc[p].id # gen
              \/ loc[p].id = gen /\ file'.ver = loc[p].ver
    BY <1>1, <1>2 DEF ProcInv, ReplacedInv, Looks
  <1>4. \/ loc[p].pc \in DeployPcs
        \/ loc[p].pc \in RollbackPcs /\ loc[p].by = "deploy"
        => Fresh' \/ excused'
    <2>1. loc[p].pc \in DeployPcs => Fresh' \/ excused'
      BY <1>1, <1>2 DEF ProcInv, DeployInv, SettledInv, Fresh, Sound, Looks
    <2>2. loc[p].pc \in {"rbpostid", "rbhealth"} => Fresh'
      BY <1>1, <1>2 DEF ProcInv, RollingInv
    <2> QED
      BY <1>2, <2>1, <2>2 DEF RollbackPcs
  <1>5. loc[p].pc \notin ReplacedPcs => Sound' \/ excused'
    BY <1>1, <1>2 DEF ProcInv, RollingInv, SettledInv, InsidePcs, OtherPcs, RollbackPcs, IInv,
       TypeOK, Local, Looks
  <1>6. /\ \A q \in Procs : ProcInv(q)'
        /\ Only(p)
        /\ lock' \in {p, Nil}
        /\ FreeInv'
    BY <1>3, <1>4, <1>5, RaiseKeeps DEF IInv, Looks
  <1> QED
    BY <1>6, LookKeeps DEF Only

\* p goes on.
LEMMA GoingOnLooks ==
    ASSUME IInv, NEW p \in Procs, lock = p, Only(p), lock' = p,
           Looks, ProcInv(p)'
    PROVE  IInv'
  <1>1. \A q \in Procs : ProcInv(q)'
    BY OthersAreOutside DEF IInv
  <1>2. FreeInv'
    BY NilAssumption DEF FreeInv
  <1> QED
    BY <1>1, <1>2, LookKeeps DEF Only

\* p ends its command in a sound container.
LEMMA ExitLooks ==
    ASSUME IInv, NEW p \in Procs, lock = p, NEW status \in ExitPcs, Exit(p, status),
           Looks, Sound \/ excused'
    PROVE  IInv'
  <1>1. (\A q \in Procs : ProcInv(q)') /\ Only(p) /\ lock' = Nil
    BY ExitKeeps DEF IInv
  <1>2. FreeInv'
    BY DEF FreeInv, Sound, Recorded, Looks
  <1> QED
    BY <1>1, <1>2, LookKeeps DEF Only

LEMMA FailLooks ==
    ASSUME IInv, NEW p \in Procs, lock = p, loc[p].pc \in InsidePcs,
           NEW error \in {"manager", "timeout"}, Fail(p, error),
           Looks, Sound \/ excused'
    PROVE  IInv'
  <1>1. CASE /\ Only(p)
             /\ Keeps(p)
             /\ loc'[p].pc = "nonfatal"
             /\ loc'[p].by = loc[p].by
             /\ loc'[p].error = error
             /\ lock' = lock
    <2>1. Sound' \/ excused'
      BY DEF Sound, Recorded, Looks
    <2>2. ProcInv(p)'
      BY <1>1, <2>1 DEF IInv, Keeps, ProcInv, LockInv, CommandInv, KeyInv, DeployInv,
         ReplacedInv, RollingInv, SettledInv, Inside, KeyPcs,
         InsidePcs, OtherPcs, DeployPcs, ReplacedPcs, RollbackPcs
    <2> QED
      BY <1>1, <2>2, GoingOnLooks
  <1>2. CASE Exit(p, "failed")
    BY <1>2, ExitLooks DEF ExitPcs
  <1> QED
    BY <1>1, <1>2, FailEffect DEF IInv

-----------------------------------------------------------------------------
(* The steps.                                                              *)

LEMMA LooksKeep ==
    ASSUME IInv, NEW p \in Procs
    PROVE  /\ InfoStatement(p) => IInv'
           /\ InfoId(p) => IInv'
           /\ Gate(p) => IInv'
           /\ BuildFails(p) => IInv'
           /\ LiveStatement(p) => IInv'
           /\ LiveId(p) => IInv'
           /\ Validate(p) => IInv'
           /\ CompareId(p) => IInv'
           /\ StagedIsGone(p) => IInv'
           /\ PostId(p) => IInv'
           /\ Health(p) => IInv'
           /\ Nonfatal(p) => IInv'
           /\ ReadMetadata(p) => IInv'
           /\ RollbackId(p) => IInv'
           /\ RollbackCopy(p) => IInv'
           /\ RollbackPostId(p) => IInv'
           /\ RollbackHealth(p) => IInv'
  <1> USE DEF At, InsidePcs, OtherPcs, DeployPcs, ReplacedPcs, RollbackPcs, OutsidePcs, ExitPcs
  <1>0. TypeOK /\ ProcInv(p) /\ loc[p] \in Local /\ MetaInv /\ RunningInv
    BY DEF IInv, TypeOK, GlobalInv
  <1>b. UNCHANGED <<quality, containerVars, diskVars, histVars>> => Looks
    BY <1>0 DEF TypeOK, Looks
  <1>a. ASSUME UNCHANGED <<quality, containerVars, diskVars, histVars>>
        PROVE  /\ Fresh' <=> Fresh
               /\ Sound' <=> Sound
               /\ Recorded' <=> Recorded
    BY <1>a DEF Fresh, Sound, Recorded
  <1>1. ASSUME InfoStatement(p) PROVE IInv'
    <2>0. lock = p
      BY <1>0, <1>1, InsideHasLock DEF InfoStatement
    <2>1. /\ Only(p) /\ lock' = p
          /\ loc'[p].pc = "infoid" /\ loc'[p].ver = file.ver /\ loc'[p].kind = file.kind
          /\ loc'[p].cmd = loc[p].cmd /\ loc'[p].by = loc[p].by
      BY <2>0, <1>0, <1>1 DEF InfoStatement, Only, TypeOK, Local, Binary
    <2>2. ProcInv(p)'
      BY <2>1, <1>0, <1>1, <1>a DEF InfoStatement, TypeOK, Binary, ProcInv, LockInv,
         CommandInv, KeyInv, DeployInv, ReplacedInv, RollingInv, SettledInv, Inside, KeyPcs
    <2> QED
      BY <2>0, <2>1, <2>2, <1>1, <1>b, GoingOnLooks DEF InfoStatement
  <1>2. ASSUME InfoId(p) PROVE IInv'
    <2>0. lock = p
      BY <1>0, <1>2, InsideHasLock DEF InfoId
    <2>1. CASE Exit(p, "ok")
      BY <2>0, <2>1, <1>0, <1>2, <1>b, ExitLooks DEF InfoId, ProcInv, SettledInv
    <2>2. CASE ~Exit(p, "ok")
      <3>1. /\ Only(p) /\ lock' = p /\ loc'[p].id = gen /\ loc'[p].cmd = loc[p].cmd
            /\ loc'[p].ver = loc[p].ver /\ loc'[p].by = loc[p].by
            /\ \/ loc'[p].pc = "gate" /\ loc[p].kind = "stock" /\ loc[p].cmd # "restore"
               \/ loc'[p].pc = "rbmeta"
        BY <2>0, <2>2, <1>0, <1>2 DEF InfoId, Only, TypeOK, Local, Gens
      <3>2. ProcInv(p)'
        BY <2>0, <3>1, <1>0, <1>2, <1>a DEF InfoId, TypeOK, Gens, CommandNames, ProcInv,
           LockInv, CommandInv, KeyInv, DeployInv,
         ReplacedInv, RollingInv, SettledInv, Inside, KeyPcs
      <3> QED
        BY <2>0, <3>1, <3>2, <1>2, <1>b, GoingOnLooks DEF InfoId
    <2> QED
      BY <2>1, <2>2
  <1>3. ASSUME Gate(p) PROVE IInv'
    <2>0. lock = p
      BY <1>0, <1>3, InsideHasLock DEF Gate
    <2>1. Fail(p, "manager") => IInv'
      BY <2>0, <1>0, <1>3, <1>b, FailLooks DEF Gate, ProcInv, SettledInv
    <2>2. ASSUME Goto(p, "live") PROVE IInv'
      <3>1. Only(p) /\ Keeps(p) /\ loc'[p].pc = "live" /\ loc'[p].by = loc[p].by
            /\ loc'[p].error = loc[p].error /\ lock' = lock
        BY <2>2, <1>0, GotoEffect
      <3>2. ProcInv(p)'
        BY <3>1, <2>2, <2>0, <1>0, <1>3, <1>a DEF Gate, Keeps, Key, Fresh, ProcInv, LockInv,
           CommandInv, KeyInv, DeployInv, ReplacedInv, RollingInv, SettledInv, Inside, KeyPcs
      <3> QED
        BY <3>1, <3>2, <2>0, <1>3, <1>b, GoingOnLooks DEF Gate
    <2>3. ASSUME Goto(p, "build") PROVE IInv'
      <3>1. Only(p) /\ Keeps(p) /\ loc'[p].pc = "build" /\ loc'[p].by = loc[p].by
            /\ loc'[p].error = loc[p].error /\ lock' = lock
        BY <2>3, <1>0, GotoEffect
      <3>2. ProcInv(p)'
        BY <3>1, <2>3, <2>0, <1>0, <1>3, <1>a DEF Gate, Keeps, Key, Fresh, ProcInv, LockInv,
           CommandInv, KeyInv, DeployInv, ReplacedInv, RollingInv, SettledInv, Inside, KeyPcs
      <3> QED
        BY <3>1, <3>2, <2>0, <1>3, <1>b, GoingOnLooks DEF Gate
    <2> QED
      BY <2>1, <2>2, <2>3, <1>3 DEF Gate
  <1>4. ASSUME BuildFails(p) PROVE IInv'
    <2>0. lock = p
      BY <1>0, <1>4, InsideHasLock DEF BuildFails
    <2>1. ASSUME Raise(p, "manager") PROVE IInv'
      BY <2>1, <2>0, <1>0, <1>4, <1>b, RaiseLooks DEF BuildFails, ProcInv, RollingInv
    <2> QED
      BY <2>1, <1>4 DEF BuildFails
  <1>5. ASSUME LiveStatement(p) PROVE IInv'
    <2>0. lock = p
      BY <1>0, <1>5, InsideHasLock DEF LiveStatement
    <2>1. ASSUME Goto(p, "liveid"), file.ver = loc[p].ver /\ file.kind = "stock" PROVE IInv'
      <3>1. Only(p) /\ Keeps(p) /\ loc'[p].pc = "liveid" /\ loc'[p].by = loc[p].by
            /\ loc'[p].error = loc[p].error /\ lock' = lock
        BY <2>1, <1>0, GotoEffect
      <3>2. ProcInv(p)'
        BY <3>1, <2>1, <2>0, <1>0, <1>5, <1>a DEF LiveStatement, Keeps, Key, Fresh, ProcInv,
           LockInv, CommandInv, KeyInv, DeployInv,
         ReplacedInv, RollingInv, SettledInv, Inside, KeyPcs
      <3> QED
        BY <3>1, <3>2, <2>0, <1>5, <1>b, GoingOnLooks DEF LiveStatement
    <2>2. ASSUME Raise(p, "manager"), ~(file.ver = loc[p].ver /\ file.kind = "stock") PROVE IInv'
      BY <2>2, <2>0, <1>0, <1>5, <1>b, RaiseLooks DEF LiveStatement, ProcInv, RollingInv
    <2> QED
      BY <2>1, <2>2, <1>5 DEF LiveStatement, Require
  <1>6. ASSUME LiveId(p) PROVE IInv'
    <2>0. lock = p
      BY <1>0, <1>6, InsideHasLock DEF LiveId
    <2>1. ASSUME Goto(p, "copy"), gen = loc[p].id PROVE IInv'
      <3>1. Only(p) /\ Keeps(p) /\ loc'[p].pc = "copy" /\ loc'[p].by = loc[p].by
            /\ loc'[p].error = loc[p].error /\ lock' = lock
        BY <2>1, <1>0, GotoEffect
      <3>2. ProcInv(p)'
        BY <3>1, <2>1, <2>0, <1>0, <1>6, <1>a DEF LiveId, Keeps, Key, Fresh, ProcInv, LockInv,
           CommandInv, KeyInv, DeployInv, ReplacedInv, RollingInv, SettledInv, Inside, KeyPcs
      <3> QED
        BY <3>1, <3>2, <2>0, <1>6, <1>b, GoingOnLooks DEF LiveId
    <2>2. ASSUME Raise(p, "manager"), ~(gen = loc[p].id) PROVE IInv'
      BY <2>2, <2>0, <1>0, <1>6, <1>b, RaiseLooks DEF LiveId, ProcInv, RollingInv
    <2> QED
      BY <2>1, <2>2, <1>6 DEF LiveId, Require
  <1>7. ASSUME Validate(p) PROVE IInv'
    <2>0. lock = p
      BY <1>0, <1>7, InsideHasLock DEF Validate
    <2>1. ASSUME Raise(p, "manager") PROVE IInv'
      BY <2>1, <2>0, <1>0, <1>7, <1>b, RaiseLooks DEF Validate, ProcInv, RollingInv
    <2>2. CASE ~Raise(p, "manager")
      <3>1. /\ Only(p) /\ lock' = p /\ loc'[p].staged = gen
            /\ loc'[p].pc = "compare" /\ loc'[p].cmd = loc[p].cmd /\ loc'[p].by = loc[p].by
            /\ loc'[p].ver = loc[p].ver /\ loc'[p].id = loc[p].id
        BY <2>0, <2>2, <1>0, <1>7 DEF Validate, Only, TypeOK, Local, Gens
      <3>2. ProcInv(p)'
        BY <2>0, <3>1, <1>0, <1>7, <1>a DEF Validate, TypeOK, Gens, Key, ProcInv, LockInv,
           CommandInv, KeyInv, DeployInv, ReplacedInv, RollingInv, SettledInv, Inside, KeyPcs
      <3> QED
        BY <2>0, <3>1, <3>2, <1>7, <1>b, GoingOnLooks DEF Validate
    <2> QED
      BY <2>1, <2>2
  <1>8. ASSUME CompareId(p) PROVE IInv'
    <2>0. lock = p
      BY <1>0, <1>8, InsideHasLock DEF CompareId
    <2>1. ASSUME Goto(p, "mv"), gen = loc[p].id PROVE IInv'
      <3>1. Only(p) /\ Keeps(p) /\ loc'[p].pc = "mv" /\ loc'[p].by = loc[p].by
            /\ loc'[p].error = loc[p].error /\ lock' = lock
        BY <2>1, <1>0, GotoEffect
      <3>2. ProcInv(p)'
        BY <3>1, <2>1, <2>0, <1>0, <1>8, <1>a DEF CompareId, Keeps, Key, Fresh, ProcInv,
           LockInv, CommandInv, KeyInv, DeployInv,
         ReplacedInv, RollingInv, SettledInv, Inside, KeyPcs
      <3> QED
        BY <3>1, <3>2, <2>0, <1>8, <1>b, GoingOnLooks DEF CompareId
    <2>2. ASSUME Raise(p, "manager"), ~(gen = loc[p].id) PROVE IInv'
      BY <2>2, <2>0, <1>0, <1>8, <1>b, RaiseLooks DEF CompareId, ProcInv, RollingInv
    <2> QED
      BY <2>1, <2>2, <1>8 DEF CompareId, Require
  <1>9. ASSUME StagedIsGone(p) PROVE IInv'
    <2>0. lock = p
      BY <1>0, <1>9, InsideHasLock DEF StagedIsGone
    <2>1. ASSUME Raise(p, "manager") PROVE IInv'
      BY <2>1, <2>0, <1>0, <1>9, <1>b, RaiseLooks DEF StagedIsGone, ProcInv, RollingInv
    <2> QED
      BY <2>1, <1>9 DEF StagedIsGone
  <1>10. ASSUME PostId(p) PROVE IInv'
    <2>0. lock = p
      BY <1>0, <1>10, InsideHasLock DEF PostId
    <2>1. ASSUME Goto(p, "health"), gen = loc[p].id PROVE IInv'
      <3>1. Only(p) /\ Keeps(p) /\ loc'[p].pc = "health" /\ loc'[p].by = loc[p].by
            /\ loc'[p].error = loc[p].error /\ lock' = lock
        BY <2>1, <1>0, GotoEffect
      <3>2. ProcInv(p)'
        BY <3>1, <2>1, <2>0, <1>0, <1>10, <1>a DEF PostId, Keeps, Key, Fresh, ProcInv,
           LockInv, CommandInv, KeyInv, DeployInv,
         ReplacedInv, RollingInv, SettledInv, Inside, KeyPcs
      <3> QED
        BY <3>1, <3>2, <2>0, <1>10, <1>b, GoingOnLooks DEF PostId
    <2>2. ASSUME Raise(p, "manager"), ~(gen = loc[p].id) PROVE IInv'
      BY <2>2, <2>0, <1>0, <1>10, <1>b, RaiseLooks DEF PostId, ProcInv, RollingInv
    <2> QED
      BY <2>1, <2>2, <1>10 DEF PostId, Require
  <1>11. ASSUME Health(p) PROVE IInv'
    <2>0. lock = p
      BY <1>0, <1>11, InsideHasLock DEF Health
    <2>1. ASSUME Goto(p, "meta"), proc = file /\ file.kind = "patched" PROVE IInv'
      <3>1. Only(p) /\ Keeps(p) /\ loc'[p].pc = "meta" /\ loc'[p].by = loc[p].by
            /\ loc'[p].error = loc[p].error /\ lock' = lock
        BY <2>1, <1>0, GotoEffect
      <3>2. ProcInv(p)'
        BY <3>1, <2>1, <2>0, <1>0, <1>11, <1>a DEF Health, Keeps, Key, Fresh, ProcInv,
           LockInv, CommandInv, KeyInv, DeployInv,
         ReplacedInv, RollingInv, SettledInv, Inside, KeyPcs
      <3> QED
        BY <3>1, <3>2, <2>0, <1>11, <1>b, GoingOnLooks DEF Health
    <2>2. ASSUME Raise(p, "manager"), ~(proc = file /\ file.kind = "patched") PROVE IInv'
      BY <2>2, <2>0, <1>0, <1>11, <1>b, RaiseLooks DEF Health, ProcInv, RollingInv
    <2> QED
      BY <2>1, <2>2, <1>11 DEF Health, Require
  <1>12. ASSUME Nonfatal(p) PROVE IInv'
    <2>0. lock = p
      BY <1>0, <1>12, InsideHasLock DEF Nonfatal
    <2> QED
      BY <2>0, <1>0, <1>12, <1>b, ExitLooks DEF Nonfatal, ProcInv, SettledInv
  <1>13. ASSUME ReadMetadata(p) PROVE IInv'
    <2>0. lock = p
      BY <1>0, <1>13, InsideHasLock DEF ReadMetadata
    <2>1. ASSUME NEW error \in {"manager", "timeout"}, Fail(p, error) PROVE IInv'
      BY <2>0, <2>1, <1>0, <1>13, <1>b, FailLooks DEF ReadMetadata, ProcInv, SettledInv
    <2>2. CASE ~(Fail(p, "manager") \/ Fail(p, "timeout"))
      <3>1. /\ Recorded /\ meta \in Metadata
            /\ Only(p) /\ lock' = p /\ loc'[p].pc = "rbid" /\ loc'[p].ver = meta.ver
            /\ loc'[p].id = meta.id /\ loc'[p].cmd = loc[p].cmd /\ loc'[p].by = loc[p].by
        <4>1. Recorded /\ meta \in Metadata
          BY <2>2, <1>0, <1>13 DEF ReadMetadata, TypeOK, Recorded
        <4>2. meta.ver \in Versions /\ meta.id \in 0..MaxGen
          BY <4>1 DEF Metadata, Gens
        <4>3. /\ lock' = lock
              /\ loc' = [loc EXCEPT ![p].pc = "rbid", ![p].ver = meta.ver, ![p].id = meta.id]
          BY <2>2, <1>13 DEF ReadMetadata
        <4>4. loc' \in [Procs -> Local]
          BY <4>2, <4>3, <1>0, ZenonT(30) DEF TypeOK, Local
        <4> QED
          BY <4>1, <4>3, <4>4, <2>0, <1>0 DEF TypeOK, Local, Only
      <3>2. ProcInv(p)'
        BY <2>0, <3>1, <1>0, <1>13, <1>a DEF ReadMetadata, TypeOK, Gens, Metadata, MetaInv, Key,
           Recorded, ProcInv, LockInv, CommandInv, KeyInv, DeployInv,
         ReplacedInv, RollingInv, SettledInv, Inside, KeyPcs
      <3> QED
        BY <2>0, <3>1, <3>2, <1>13, <1>b, GoingOnLooks DEF ReadMetadata
    <2> QED
      BY <2>1, <2>2
  <1>14. ASSUME RollbackId(p) PROVE IInv'
    <2>0. lock = p
      BY <1>0, <1>14, InsideHasLock DEF RollbackId
    <2>1. ASSUME Goto(p, "rbcp"), backup[Key(p)] # Nil /\ gen = loc[p].id PROVE IInv'
      <3>1. Only(p) /\ Keeps(p) /\ loc'[p].pc = "rbcp" /\ loc'[p].by = loc[p].by
            /\ loc'[p].error = loc[p].error /\ lock' = lock
        BY <2>1, <1>0, GotoEffect
      <3>2. ProcInv(p)'
        BY <3>1, <2>1, <2>0, <1>0, <1>14, <1>a DEF RollbackId, Keeps, Key, Fresh, ProcInv,
           LockInv, CommandInv, KeyInv, DeployInv,
         ReplacedInv, RollingInv, SettledInv, Inside, KeyPcs
      <3> QED
        BY <3>1, <3>2, <2>0, <1>14, <1>b, GoingOnLooks DEF RollbackId
    <2>2. ASSUME Raise(p, "manager"), ~(backup[Key(p)] # Nil /\ gen = loc[p].id) PROVE IInv'
      BY <2>2, <2>0, <1>0, <1>14, <1>b, RaiseLooks DEF RollbackId, ProcInv,
         RollingInv, ReplacedInv
    <2> QED
      BY <2>1, <2>2, <1>14 DEF RollbackId, Require
  <1>15. ASSUME RollbackCopy(p) PROVE IInv'
    <2>0. lock = p
      BY <1>0, <1>15, InsideHasLock DEF RollbackCopy
    <2>1. /\ Only(p) /\ lock' = p /\ loc'[p].staged = gen
          /\ loc'[p].pc = "rbmv" /\ loc'[p].cmd = loc[p].cmd /\ loc'[p].by = loc[p].by
          /\ loc'[p].ver = loc[p].ver /\ loc'[p].id = loc[p].id
      <3>1. loc' = [loc EXCEPT ![p].pc = "rbmv", ![p].staged = gen] /\ lock' = lock
        BY <1>15 DEF RollbackCopy
      <3>2. gen \in 0..MaxGen
        BY <1>0 DEF TypeOK, Gens
      <3>3. loc' \in [Procs -> Local]
        BY <3>1, <3>2, <1>0, ZenonT(30) DEF TypeOK, Local
      <3> QED
        BY <3>1, <3>3, <2>0, <1>0 DEF TypeOK, Local, Only
    <2>2. ProcInv(p)'
      BY <2>0, <2>1, <1>0, <1>15, <1>a DEF RollbackCopy, TypeOK, Key, Fresh, ProcInv, LockInv,
         CommandInv, KeyInv, DeployInv, ReplacedInv, RollingInv, SettledInv, Inside, KeyPcs
    <2> QED
      BY <2>0, <2>1, <2>2, <1>15, <1>b, GoingOnLooks DEF RollbackCopy
  <1>16. ASSUME RollbackPostId(p) PROVE IInv'
    <2>0. lock = p
      BY <1>0, <1>16, InsideHasLock DEF RollbackPostId
    <2>1. ASSUME Goto(p, "rbhealth"), gen = loc[p].id PROVE IInv'
      <3>1. Only(p) /\ Keeps(p) /\ loc'[p].pc = "rbhealth" /\ loc'[p].by = loc[p].by
            /\ loc'[p].error = loc[p].error /\ lock' = lock
        BY <2>1, <1>0, GotoEffect
      <3>2. ProcInv(p)'
        BY <3>1, <2>1, <2>0, <1>0, <1>16, <1>a DEF RollbackPostId, Keeps, Key, Fresh, ProcInv,
           LockInv, CommandInv, KeyInv, DeployInv,
         ReplacedInv, RollingInv, SettledInv, Inside, KeyPcs
      <3> QED
        BY <3>1, <3>2, <2>0, <1>16, <1>b, GoingOnLooks DEF RollbackPostId
    <2>2. ASSUME Raise(p, "manager"), ~(gen = loc[p].id) PROVE IInv'
      BY <2>2, <2>0, <1>0, <1>16, <1>b, RaiseLooks DEF RollbackPostId, ProcInv, RollingInv
    <2> QED
      BY <2>1, <2>2, <1>16 DEF RollbackPostId, Require
  <1>17. ASSUME RollbackHealth(p) PROVE IInv'
    <2>0. lock = p
      BY <1>0, <1>17, InsideHasLock DEF RollbackHealth
    <2>a. Sound /\ Fresh
      BY <1>0, <1>17 DEF RollbackHealth, ProcInv, RollingInv, Fresh, Sound
    <2>1. ASSUME Raise(p, "manager") PROVE IInv'
      BY <2>1, <2>0, <1>0, <1>17, <1>b, RaiseLooks DEF RollbackHealth, ProcInv, RollingInv
    <2>2. ASSUME Goto(p, "except"), loc[p].by = "deploy" PROVE IInv'
      <3>1. Only(p) /\ Keeps(p) /\ loc'[p].pc = "except" /\ loc'[p].by = loc[p].by
            /\ loc'[p].error = loc[p].error /\ lock' = lock
        BY <2>2, <1>0, GotoEffect
      <3>2. ProcInv(p)'
        BY <3>1, <2>2, <2>0, <1>0, <1>17, <1>a, <2>a DEF RollbackHealth, Keeps, Key, Fresh,
           ProcInv, LockInv, CommandInv, KeyInv, DeployInv,
         ReplacedInv, RollingInv, SettledInv, Inside, KeyPcs
      <3> QED
        BY <3>1, <3>2, <2>0, <1>17, <1>b, GoingOnLooks DEF RollbackHealth
    <2>3. ASSUME Goto(p, "info"), loc[p].by # "deploy", loc[p].cmd \in {"ensure", "retry"}
          PROVE  IInv'
      <3>1. Only(p) /\ Keeps(p) /\ loc'[p].pc = "info" /\ loc'[p].by = loc[p].by
            /\ loc'[p].error = loc[p].error /\ lock' = lock
        BY <2>3, <1>0, GotoEffect
      <3>2. ProcInv(p)'
        BY <3>1, <2>3, <2>0, <1>0, <1>17, <1>a, <2>a DEF RollbackHealth, Keeps, Key, Fresh,
           ProcInv, LockInv, CommandInv, KeyInv, DeployInv,
         ReplacedInv, RollingInv, SettledInv, Inside, KeyPcs
      <3> QED
        BY <3>1, <3>2, <2>0, <1>17, <1>b, GoingOnLooks DEF RollbackHealth
    <2>4. Exit(p, "ok") => IInv'
      BY <2>0, <2>a, <1>17, <1>b, ExitLooks DEF RollbackHealth
    <2> QED
      BY <2>1, <2>2, <2>3, <2>4, <1>17 DEF RollbackHealth
  <1> QED
    BY <1>1, <1>2, <1>3, <1>4, <1>5, <1>6, <1>7, <1>8, <1>9, <1>10, <1>11, <1>12, <1>13,
       <1>14, <1>15, <1>16, <1>17

\* What comes up after a restart.
LEMMA StartedRuns ==
    ASSUME TypeOK, RunningInv
    PROVE  /\ Started \in Binary \cup {Nil}
           /\ Started # Nil /\ Started.kind = "patched" => quality[Started.ver] # "crash"
           /\ file.kind # "patched" => Started = file
           /\ proc = file => Started = file
           /\ Sound => Started = file
  BY NilAssumption DEF TypeOK, Binary, Started, Sound, RunningInv

\* p goes on in a changed container.
LEMMA GoingOnKeeps ==
    ASSUME IInv, NEW p \in Procs, lock = p, Only(p), lock' = p,
           UNCHANGED <<quality, gen, failed, artifacts, faults>>, excused' \in BOOLEAN,
           file' \in Binary, proc' \in Binary \cup {Nil},
           backup' \in [Versions \X Gens -> Binary \cup {Nil}],
           meta' \in Metadata \cup {Nil},
           MetaInv', BackupInv', RunningInv', RollbackIsPossible', ProcInv(p)'
    PROVE  IInv'
  <1>1. TypeOK'
    BY DEF IInv, TypeOK, Only
  <1>2. GlobalInv'
    BY NilAssumption DEF GlobalInv, FreeInv
  <1>3. \A q \in Procs : ProcInv(q)'
    BY OthersAreOutside DEF IInv
  <1> QED
    BY <1>1, <1>2, <1>3 DEF IInv

LEMMA ChangesKeep ==
    ASSUME IInv, NEW p \in Procs
    PROVE  /\ Build(p) => IInv'
           /\ CopyBackup(p) => IInv'
           /\ WriteMetadata(p) => IInv'
           /\ ClearFailure(p) => IInv'
           /\ RecordFailure(p) => IInv'
  <1> USE DEF At, InsidePcs, OtherPcs, DeployPcs, ReplacedPcs, RollbackPcs, OutsidePcs, ExitPcs
  <1>0. TypeOK /\ ProcInv(p) /\ loc[p] \in Local /\ GlobalInv
    BY DEF IInv, TypeOK
  <1>1. ASSUME Build(p) PROVE IInv'
    <2>0. lock = p
      BY <1>0, <1>1, InsideHasLock DEF Build
    <2>a. Looks
      <3>1. loc[p].ver \in Versions
        BY <1>0, <1>1 DEF Build, ProcInv, KeyInv, KeyPcs
      <3>2. faults' \in 0..MaxFaults
        BY <1>0, <1>1, ManagerAssumption DEF Build, TypeOK, GotoUnless, Fault
      <3> QED
        BY <3>1, <3>2, <1>0, <1>1 DEF Build, Looks, TypeOK
    <2>1. ASSUME Goto(p, "live") PROVE IInv'
      <3>1. Only(p) /\ Keeps(p) /\ loc'[p].pc = "live" /\ loc'[p].by = loc[p].by
            /\ loc'[p].error = loc[p].error /\ lock' = lock
        BY <2>1, <1>0, GotoEffect
      <3>2. ProcInv(p)'
        BY <3>1, <2>0, <2>a, <1>0, <1>1 DEF Build, Looks, Keeps, Sound, Recorded, ProcInv,
           LockInv,
           CommandInv, KeyInv, DeployInv, ReplacedInv, RollingInv, SettledInv, Inside, KeyPcs
      <3> QED
        BY <3>1, <3>2, <2>0, <2>a, GoingOnLooks
    <2>2. ASSUME NEW error \in Errors(p), Raise(p, error) PROVE IInv'
      BY <2>2, <2>a, <1>0, <1>1, RaiseLooks DEF Build, Errors
    <2> QED
      BY <2>1, <2>2, <1>1 DEF Build, GotoUnless
  <1>2. ASSUME CopyBackup(p) PROVE IInv'
    <2>0. lock = p
      BY <1>0, <1>2, InsideHasLock DEF CopyBackup
    <2>1. file.kind = "stock" /\ Key(p) \in Versions \X Gens /\ file \in Binary
      BY <1>0, <1>2, KeyIsKey DEF CopyBackup, ProcInv, DeployInv, KeyPcs, TypeOK
    <2>2. Goto(p, "validate") /\ backup' = [backup EXCEPT ![Key(p)] = file]
      BY <2>1, <1>2 DEF CopyBackup, Require
    <2>3. Only(p) /\ Keeps(p) /\ loc'[p].pc = "validate" /\ loc'[p].by = loc[p].by
          /\ loc'[p].error = loc[p].error /\ lock' = lock
      BY <2>2, <1>0, GotoEffect
    <2>4. /\ backup' \in [Versions \X Gens -> Binary \cup {Nil}]
          /\ backup'[Key(p)] = file
          /\ \A x \in Versions \X Gens : x # Key(p) => backup'[x] = backup[x]
      BY <2>1, <2>2, <1>0 DEF TypeOK
    <2>5. BackupInv'
      BY <2>1, <2>4, <1>0 DEF GlobalInv, BackupInv
    <2>6. RollbackIsPossible'
      <3>1. SUFFICES ASSUME Recorded
                     PROVE  backup'[<<meta.ver, meta.id>>] = meta.sum /\ meta.sum.kind = "stock"
        BY <1>2 DEF CopyBackup, Recorded, RollbackIsPossible
      <3>2. meta \in Metadata /\ <<meta.ver, meta.id>> \in Versions \X Gens
        BY <3>1, <1>0 DEF Recorded, TypeOK, Metadata
      <3>3. backup[<<meta.ver, meta.id>>] = meta.sum /\ meta.sum.kind = "stock"
        BY <3>1, <1>0 DEF Recorded, GlobalInv, RollbackIsPossible
      <3>4. file = meta.sum
        BY <3>1, <2>1, <1>0 DEF GlobalInv, MetaInv
      <3> QED
        BY <3>2, <3>3, <3>4, <2>4
    <2>7. MetaInv' /\ RunningInv'
      BY <1>0, <1>2 DEF CopyBackup, GlobalInv, MetaInv, RunningInv, Recorded
    <2>8. ProcInv(p)'
      BY <2>0, <2>1, <2>3, <2>4, <1>0, <1>2, NilAssumption DEF CopyBackup, Keeps, Key, Sound,
         Recorded, ProcInv, LockInv,
           CommandInv, KeyInv, DeployInv, ReplacedInv, RollingInv, SettledInv, Inside, KeyPcs
    <2> QED
      BY <2>0, <2>3, <2>4, <2>5, <2>6, <2>7, <2>8, <1>0, <1>2, GoingOnKeeps DEF CopyBackup,
         TypeOK
  <1>3. ASSUME WriteMetadata(p) PROVE IInv'
    <2>0. lock = p
      BY <1>0, <1>3, InsideHasLock DEF WriteMetadata
    <2>1. Only(p) /\ Keeps(p) /\ loc'[p].pc = "unmark" /\ loc'[p].by = loc[p].by
          /\ loc'[p].error = loc[p].error /\ lock' = lock
      BY <1>3, <1>0, GotoEffect DEF WriteMetadata
    <2>2. Key(p) \in Versions \X Gens /\ backup[Key(p)] # Nil /\ backup[Key(p)] \in Binary
      BY <1>0, <1>3, KeyIsKey DEF WriteMetadata, ProcInv, ReplacedInv, KeyPcs, TypeOK
    <2>3. meta' = [ver |-> loc[p].ver, id |-> loc[p].id, sum |-> backup[Key(p)]]
      BY <1>3 DEF WriteMetadata
    <2>4. /\ meta' \in Metadata
          /\ meta' # Nil
          /\ loc[p].id \in 1..gen
          /\ backup[Key(p)].kind = "stock"
      BY <2>2, <2>3, <1>0, <1>3, NilAssumption DEF WriteMetadata, ProcInv, KeyInv, KeyPcs, Key,
         Metadata, GlobalInv, BackupInv, TypeOK, Gens
    <2>5. Recorded' <=> loc[p].id = gen
      BY <2>3, <2>4, <1>3 DEF WriteMetadata, Recorded
    <2>6. loc[p].id = gen => /\ file.kind = "patched" /\ proc = file /\ file.ver = loc[p].ver
                             /\ backup[Key(p)].ver = loc[p].ver
      BY <1>0, <1>3 DEF WriteMetadata, ProcInv, ReplacedInv
    <2>7. MetaInv' /\ BackupInv' /\ RunningInv'
      BY <2>3, <2>4, <2>5, <2>6, <1>0, <1>3 DEF WriteMetadata, GlobalInv, MetaInv, BackupInv,
         RunningInv, TypeOK, Gens
    <2>8. RollbackIsPossible'
      BY <2>3, <2>4, <1>3 DEF WriteMetadata, RollbackIsPossible, Key
    <2>9. Sound'
      BY <2>5, <2>6, <1>0, <1>3, NilAssumption DEF WriteMetadata, ProcInv, ReplacedInv, Fresh,
         Sound, GlobalInv, RunningInv, TypeOK
    <2>10. ProcInv(p)'
      BY <2>0, <2>1, <2>9, <1>0, <1>3 DEF WriteMetadata, Keeps, ProcInv, LockInv,
           CommandInv, KeyInv, DeployInv, ReplacedInv, RollingInv, SettledInv, Inside, KeyPcs
    <2> QED
      BY <2>0, <2>1, <2>4, <2>7, <2>8, <2>10, <1>0, <1>3, GoingOnKeeps DEF WriteMetadata, TypeOK
  <1>4. ASSUME ClearFailure(p) PROVE IInv'
    <2>0. lock = p
      BY <1>0, <1>4, InsideHasLock DEF ClearFailure
    <2>1. Looks
      BY <1>0, <1>4 DEF ClearFailure, Looks, TypeOK
    <2> QED
      BY <2>0, <2>1, <1>0, <1>4, ExitLooks DEF ClearFailure, ProcInv, SettledInv
  <1>5. ASSUME RecordFailure(p) PROVE IInv'
    <2>0. lock = p
      BY <1>0, <1>5, InsideHasLock DEF RecordFailure
    <2>1. loc[p].error \in {"manager", "timeout"} /\ (Sound \/ excused)
      BY <1>0, <1>5 DEF RecordFailure, ProcInv, CommandInv, SettledInv, Fresh, Sound
    <2>2. CASE loc[p].ver \in Versions
      <3>1. Looks
        BY <2>2, <1>0, <1>5 DEF RecordFailure, Looks, TypeOK
      <3> QED
        BY <2>0, <2>1, <3>1, <1>5, FailLooks DEF RecordFailure
    <2> QED
      BY <2>2, <1>0, <1>5 DEF RecordFailure, ProcInv, KeyInv, KeyPcs
  <1> QED
    BY <1>1, <1>2, <1>3, <1>4, <1>5

\* p raises an exception in a changed container.
LEMMA RaisingKeeps ==
    ASSUME IInv, NEW p \in Procs, Only(p), lock' \in {p, Nil}, FreeInv',
           UNCHANGED <<quality, gen, backup, meta, failed, artifacts>>,
           excused' \in BOOLEAN, faults' \in 0..MaxFaults,
           file' \in Binary, proc' \in Binary \cup {Nil},
           MetaInv', RunningInv', \A q \in Procs : ProcInv(q)'
    PROVE  IInv'
  <1>1. TypeOK'
    BY DEF IInv, TypeOK, Only
  <1>2. BackupInv' /\ RollbackIsPossible'
    BY DEF IInv, GlobalInv, BackupInv, RollbackIsPossible
  <1> QED
    BY <1>1, <1>2 DEF IInv, GlobalInv

LEMMA ReplacementsKeep ==
    ASSUME IInv, NEW p \in Procs
    PROVE  /\ Replace(p) => IInv'
           /\ Restart(p) => IInv'
           /\ RollbackReplace(p) => IInv'
           /\ RollbackRestart(p) => IInv'
  <1> USE DEF At, InsidePcs, OtherPcs, DeployPcs, ReplacedPcs, RollbackPcs, OutsidePcs, ExitPcs
  <1>0. TypeOK /\ ProcInv(p) /\ loc[p] \in Local /\ GlobalInv
    BY DEF IInv, TypeOK
  <1>a. ASSUME Fault PROVE faults' \in 0..MaxFaults
    BY <1>a, <1>0, ManagerAssumption DEF Fault, TypeOK
  <1>b. Errors(p) \subseteq {"manager", "timeout"}
    BY DEF Errors
  <1>1. ASSUME Replace(p) PROVE IInv'
    <2>0. lock = p
      BY <1>0, <1>1, InsideHasLock DEF Replace
    <2>1. /\ loc[p].ver \in Versions
          /\ loc[p].id = gen /\ file.ver = loc[p].ver /\ file.kind = "stock"
          /\ backup[Key(p)] = file
      BY <1>0, <1>1 DEF Replace, ProcInv, KeyInv, KeyPcs, DeployInv, TypeOK, Gens
    <2>2. /\ file' = [kind |-> "patched", ver |-> loc[p].ver, home |-> gen]
          /\ file' \in Binary
      BY <2>1, <1>0, <1>1 DEF Replace, Core, Binary, TypeOK
    <2>3. MetaInv' /\ RunningInv' /\ BackupInv' /\ RollbackIsPossible'
      BY <2>1, <2>2, <1>0, <1>1 DEF Replace, GlobalInv, MetaInv, RunningInv, BackupInv,
         RollbackIsPossible, Recorded
    <2>4. ASSUME Goto(p, "restart"), UNCHANGED <<faults, excused>> PROVE IInv'
      <3>1. Only(p) /\ Keeps(p) /\ loc'[p].pc = "restart" /\ loc'[p].by = loc[p].by
            /\ loc'[p].error = loc[p].error /\ lock' = lock
        BY <2>4, <1>0, GotoEffect
      <3>2. ProcInv(p)'
        BY <3>1, <2>0, <2>1, <2>2, <1>0, <1>1 DEF Replace, Keeps, Key, Recorded, ProcInv,
           LockInv,
           CommandInv, KeyInv, DeployInv, ReplacedInv, RollingInv, SettledInv, Inside, KeyPcs
      <3> QED
        BY <3>1, <3>2, <2>0, <2>2, <2>3, <2>4, <1>0, <1>1, GoingOnKeeps DEF Replace, TypeOK
    <2>5. ASSUME NEW error \in Errors(p), Raise(p, error), Fault, excused' = TRUE PROVE IInv'
      <3>1. (\A q \in Procs : ProcInv(q)') /\ Only(p) /\ lock' \in {p, Nil} /\ FreeInv'
        BY <2>5, <1>0, <1>1, <1>b, RaiseKeeps DEF Replace, IInv
      <3> QED
        BY <3>1, <2>2, <2>3, <2>5, <1>0, <1>1, <1>a, RaisingKeeps DEF Replace, TypeOK
    <2> QED
      BY <2>4, <2>5, <1>0, <1>1 DEF Replace, GotoUnless, TypeOK
  <1>2. ASSUME Restart(p) PROVE IInv'
    <2>0. lock = p
      BY <1>0, <1>2, InsideHasLock DEF Restart
    <2>1. /\ proc' \in Binary \cup {Nil}
          /\ file' \in Binary
          /\ MetaInv' /\ RunningInv' /\ BackupInv' /\ RollbackIsPossible'
          /\ Fresh => Fresh'
      BY <1>0, <1>2, StartedRuns DEF Restart, GlobalInv, MetaInv, RunningInv, BackupInv,
         RollbackIsPossible, Recorded, Fresh, TypeOK
    <2>4. ASSUME Goto(p, "postid"), UNCHANGED faults PROVE IInv'
      <3>1. Only(p) /\ Keeps(p) /\ loc'[p].pc = "postid" /\ loc'[p].by = loc[p].by
            /\ loc'[p].error = loc[p].error /\ lock' = lock
        BY <2>4, <1>0, GotoEffect
      <3>2. ProcInv(p)'
        BY <3>1, <2>0, <2>1, <1>0, <1>2 DEF Restart, Keeps, Key, Recorded, ProcInv, LockInv,
           CommandInv, KeyInv, DeployInv, ReplacedInv, RollingInv, SettledInv, Inside, KeyPcs
      <3> QED
        BY <3>1, <3>2, <2>0, <2>1, <2>4, <1>0, <1>2, GoingOnKeeps DEF Restart, TypeOK
    <2>5. ASSUME NEW error \in Errors(p), Raise(p, error), Fault PROVE IInv'
      <3>1. \/ Fresh' /\ loc[p].id # gen
            \/ loc[p].id = gen /\ file'.ver = loc[p].ver
        BY <2>1, <1>0, <1>2 DEF Restart, ProcInv, ReplacedInv
      <3>2. (\A q \in Procs : ProcInv(q)') /\ Only(p) /\ lock' \in {p, Nil} /\ FreeInv'
        BY <2>5, <3>1, <1>0, <1>2, <1>b, RaiseKeeps DEF Restart, IInv
      <3> QED
        BY <3>2, <2>1, <2>5, <1>0, <1>2, <1>a, RaisingKeeps DEF Restart, TypeOK
    <2> QED
      BY <2>4, <2>5, <1>2 DEF Restart, GotoUnless
  <1>3. ASSUME RollbackReplace(p) PROVE IInv'
    <2>0. lock = p
      BY <1>0, <1>3, InsideHasLock DEF RollbackReplace
    <2>1. /\ Key(p) \in Versions \X Gens
          /\ file' = backup[Key(p)]
          /\ file' \in Binary
          /\ file'.kind = "stock"
      BY <1>0, <1>3, KeyIsKey DEF RollbackReplace, ProcInv, RollingInv, KeyPcs, GlobalInv,
         BackupInv, TypeOK
    <2>2. Recorded => file' = meta.sum
      <3>1. Recorded => Key(p) = <<meta.ver, meta.id>>
        BY <1>0, <1>3 DEF RollbackReplace, ProcInv, KeyInv, KeyPcs, RollingInv, Key, GlobalInv,
           MetaInv, Recorded
      <3> QED
        BY <3>1, <2>1, <1>0 DEF GlobalInv, RollbackIsPossible, Recorded
    <2>3. MetaInv' /\ RunningInv' /\ BackupInv' /\ RollbackIsPossible'
      BY <2>1, <2>2, <1>0, <1>3 DEF RollbackReplace, GlobalInv, MetaInv, RunningInv, BackupInv,
         RollbackIsPossible, Recorded
    <2>4. ASSUME Goto(p, "rbrestart"), UNCHANGED <<faults, excused>> PROVE IInv'
      <3>1. Only(p) /\ Keeps(p) /\ loc'[p].pc = "rbrestart" /\ loc'[p].by = loc[p].by
            /\ loc'[p].error = loc[p].error /\ lock' = lock
        BY <2>4, <1>0, GotoEffect
      <3>2. ProcInv(p)'
        BY <3>1, <2>0, <2>1, <1>0, <1>3 DEF RollbackReplace, Keeps, Key, Recorded, ProcInv,
           LockInv,
           CommandInv, KeyInv, DeployInv, ReplacedInv, RollingInv, SettledInv, Inside, KeyPcs
      <3> QED
        BY <3>1, <3>2, <2>0, <2>1, <2>3, <2>4, <1>0, <1>3, GoingOnKeeps
           DEF RollbackReplace, TypeOK
    <2>5. ASSUME NEW error \in Errors(p), Raise(p, error), Fault, excused' = TRUE PROVE IInv'
      <3>1. (\A q \in Procs : ProcInv(q)') /\ Only(p) /\ lock' \in {p, Nil} /\ FreeInv'
        BY <2>5, <1>0, <1>3, <1>b, RaiseKeeps DEF RollbackReplace, IInv
      <3> QED
        BY <3>1, <2>1, <2>3, <2>5, <1>0, <1>3, <1>a, RaisingKeeps DEF RollbackReplace, TypeOK
    <2> QED
      BY <2>4, <2>5, <1>0, <1>3 DEF RollbackReplace, GotoUnless, TypeOK
  <1>4. ASSUME RollbackRestart(p) PROVE IInv'
    <2>0. lock = p
      BY <1>0, <1>4, InsideHasLock DEF RollbackRestart
    <2>1. /\ proc' \in Binary \cup {Nil}
          /\ file' \in Binary
          /\ MetaInv' /\ RunningInv' /\ BackupInv' /\ RollbackIsPossible'
          /\ Fresh' /\ Sound'
      BY <1>0, <1>4, StartedRuns DEF RollbackRestart, ProcInv, RollingInv, GlobalInv, MetaInv,
         RunningInv, BackupInv, RollbackIsPossible, Recorded, Fresh, Sound, TypeOK
    <2>4. ASSUME Goto(p, "rbpostid"), UNCHANGED faults PROVE IInv'
      <3>1. Only(p) /\ Keeps(p) /\ loc'[p].pc = "rbpostid" /\ loc'[p].by = loc[p].by
            /\ loc'[p].error = loc[p].error /\ lock' = lock
        BY <2>4, <1>0, GotoEffect
      <3>2. ProcInv(p)'
        BY <3>1, <2>0, <2>1, <1>0, <1>4 DEF RollbackRestart, Keeps, Key, Recorded, ProcInv,
           LockInv,
           CommandInv, KeyInv, DeployInv, ReplacedInv, RollingInv, SettledInv, Inside, KeyPcs
      <3> QED
        BY <3>1, <3>2, <2>0, <2>1, <2>4, <1>0, <1>4, GoingOnKeeps DEF RollbackRestart, TypeOK
    <2>5. ASSUME NEW error \in Errors(p), Raise(p, error), Fault PROVE IInv'
      <3>2. (\A q \in Procs : ProcInv(q)') /\ Only(p) /\ lock' \in {p, Nil} /\ FreeInv'
        BY <2>1, <2>5, <1>0, <1>4, <1>b, RaiseKeeps DEF RollbackRestart, IInv
      <3> QED
        BY <3>2, <2>1, <2>5, <1>0, <1>4, <1>a, RaisingKeeps DEF RollbackRestart, TypeOK
    <2> QED
      BY <2>4, <2>5, <1>4 DEF RollbackRestart, GotoUnless
  <1> QED
    BY <1>1, <1>2, <1>3, <1>4

\* Somebody outside begins, ends or waits: only his own state changes.
LEMMA OutsideKeeps ==
    ASSUME IInv, NEW p \in Procs, Only(p), lock' \in Procs \cup {Nil}, FreeInv',
           UNCHANGED <<quality, containerVars, diskVars, histVars>>,
           \/ lock' = lock
           \/ lock = Nil /\ lock' = p,
           ProcInv(p)'
    PROVE  IInv'
  <1>1. ASSUME NEW q \in Procs \ {p} PROVE ProcInv(q)'
    <2>1. loc'[q] = loc[q] /\ (lock' = q <=> lock = q) /\ ProcInv(q)
      BY <1>1, NilAssumption DEF Only, IInv
    <2>2. Key(q)' = Key(q) /\ (Inside(q)' <=> Inside(q))
      BY <2>1 DEF Key, Inside
    <2>3. /\ Fresh' <=> Fresh
          /\ Sound' <=> Sound
          /\ Recorded' <=> Recorded
      BY DEF Fresh, Sound, Recorded
    <2> QED
      BY <2>1, <2>2, <2>3 DEF ProcInv, LockInv, CommandInv, KeyInv, DeployInv, ReplacedInv,
         RollingInv, SettledInv
  <1>2. Looks
    BY DEF IInv, TypeOK, Looks
  <1> QED
    BY <1>1, <1>2, LookKeeps DEF Only

LEMMA EnvironmentKeeps ==
    ASSUME IInv
    PROVE  /\ \A p \in Procs :
                 /\ \A cmd \in CommandNames : Begin(p, cmd) => IInv'
                 /\ Collect(p) => IInv'
                 /\ Acquire(p) => IInv'
                 /\ CommandFails(p) => IInv'
                 /\ Killed(p) => IInv'
           /\ ContainerRestarts => IInv'
           /\ \A v \in Versions : ContainerRecreated(v) => IInv'
  <1> USE DEF At, InsidePcs, OtherPcs, DeployPcs, ReplacedPcs, RollbackPcs, OutsidePcs, ExitPcs
  <1>0. TypeOK /\ GlobalInv /\ \A p \in Procs : ProcInv(p) /\ loc[p] \in Local
    BY DEF IInv, TypeOK
  <1>a. FreeInv /\ UNCHANGED <<lock, quality, containerVars, diskVars, histVars>> => FreeInv'
    BY DEF FreeInv, Sound, Recorded
  <1>1. ASSUME NEW p \in Procs, NEW cmd \in CommandNames, Begin(p, cmd) PROVE IInv'
    <2>1. /\ Only(p) /\ lock' = lock
          /\ loc'[p].pc = "lock" /\ loc'[p].cmd = cmd
          /\ loc'[p].by = loc[p].by /\ loc'[p].error = loc[p].error
      <3>1. loc' = [loc EXCEPT ![p].pc = "lock", ![p].cmd = cmd] /\ lock' = lock
        BY <1>1 DEF Begin
      <3>2. loc' \in [Procs -> Local]
        <4>1. [loc[p] EXCEPT !.pc = "lock", !.cmd = cmd] \in Local
          BY <1>0, <1>1, ZenonT(30) DEF Local
        <4> QED
          BY <3>1, <4>1, <1>0 DEF TypeOK
      <3> QED
        BY <3>1, <3>2, <1>0 DEF Only, TypeOK, Local
    <2>2. ProcInv(p)'
      BY <2>1, <1>0, <1>1 DEF Begin, ProcInv, LockInv,
           CommandInv, KeyInv, DeployInv, ReplacedInv, RollingInv, SettledInv, Inside, KeyPcs
    <2> QED
      BY <2>1, <2>2, <1>0, <1>1, <1>a, OutsideKeeps DEF Begin, GlobalInv, TypeOK
  <1>2. ASSUME NEW p \in Procs, Collect(p) PROVE IInv'
    <2>1. Only(p) /\ Keeps(p) /\ loc'[p].pc = "idle" /\ loc'[p].by = loc[p].by
          /\ loc'[p].error = loc[p].error /\ lock' = lock
      BY <1>0, <1>2, GotoEffect DEF Collect
    <2>2. ProcInv(p)'
      BY <2>1, <1>0, <1>2 DEF Collect, ProcInv, LockInv,
           CommandInv, KeyInv, DeployInv, ReplacedInv, RollingInv, SettledInv, Inside, KeyPcs
    <2> QED
      BY <2>1, <2>2, <1>0, <1>2, <1>a, OutsideKeeps DEF Collect, GlobalInv, TypeOK
  <1>3. ASSUME NEW p \in Procs, Acquire(p) PROVE IInv'
    <2>1. /\ Only(p) /\ lock = Nil /\ lock' = p
          /\ loc'[p].pc = IF loc[p].cmd = "rollback" THEN "rbmeta" ELSE "info"
          /\ loc'[p].cmd = loc[p].cmd
          /\ loc'[p].by = loc[p].by /\ loc'[p].error = loc[p].error
      BY <1>0, <1>3 DEF Acquire, Only, TypeOK, Local
    <2>2. Sound' \/ excused'
      BY <2>1, <1>0, <1>3 DEF Acquire, GlobalInv, FreeInv, Sound, Recorded
    <2>3. ProcInv(p)'
      BY <2>1, <2>2, <1>0, <1>3 DEF Acquire, ProcInv, LockInv,
           CommandInv, KeyInv, DeployInv, ReplacedInv, RollingInv, SettledInv, Inside, KeyPcs
    <2> QED
      BY <2>1, <2>2, <2>3, <1>3, OutsideKeeps DEF Acquire, FreeInv
  <1>4. ASSUME NEW p \in Procs, CommandFails(p) PROVE IInv'
    <2>0. lock = p
      BY <1>0, <1>4, InsideHasLock DEF CommandFails, TypeOK, Local
    <2>1. Looks
      BY <1>0, <1>4, ManagerAssumption DEF CommandFails, Fault, Looks, TypeOK
    <2>2. CASE At(p, "nonfatal")
      BY <2>0, <2>1, <2>2, <1>0, <1>4, ExitLooks DEF CommandFails, ProcInv, SettledInv, Looks,
         Sound, Recorded
    <2>3. CASE ~At(p, "nonfatal")
      <3>1. PICK error \in {"manager", "timeout"} : Raise(p, error)
        BY <2>3, <1>4 DEF CommandFails, Errors
      <3>2. loc[p].pc \in InsidePcs \ {"unmark", "except", "nonfatal"}
        BY <2>3, <1>0, <1>4 DEF CommandFails, TypeOK, Local
      <3>3. loc[p].pc \in RollbackPcs => excused'
        BY <1>4 DEF CommandFails
      <3> QED
        BY <2>1, <3>1, <3>2, <3>3, RaiseLooks
    <2> QED
      BY <2>2, <2>3
  <1>5. ASSUME NEW p \in Procs, Killed(p) PROVE IInv'
    <2>0. lock = p
      BY <1>0, <1>5, InsideHasLock DEF Killed, TypeOK, Local
    <2>1. Looks
      BY <1>0, <1>5, ManagerAssumption DEF Killed, Fault, Looks, TypeOK
    <2> QED
      BY <2>0, <2>1, <1>5, ExitLooks DEF Killed
  <1>6. ASSUME ContainerRestarts PROVE IInv'
    <2>1. /\ proc' \in Binary \cup {Nil}
          /\ RunningInv'
          /\ proc # file /\ ~Fresh /\ ~Sound
      BY <1>0, <1>6, StartedRuns DEF ContainerRestarts, GlobalInv, RunningInv, Fresh, Sound
    <2>2. TypeOK'
      BY <2>1, <1>0, <1>6 DEF ContainerRestarts, TypeOK
    <2>3. GlobalInv'
      BY <2>1, <1>0, <1>6 DEF ContainerRestarts, GlobalInv, MetaInv, BackupInv,
         RollbackIsPossible, Recorded, FreeInv
    <2>4. ASSUME NEW q \in Procs PROVE ProcInv(q)'
      BY <2>1, <1>0, <1>6 DEF ContainerRestarts, Key, Recorded, ProcInv, LockInv,
           CommandInv, KeyInv, DeployInv, ReplacedInv, RollingInv, SettledInv, Inside, KeyPcs
    <2> QED
      BY <2>2, <2>3, <2>4 DEF IInv
  <1>7. ASSUME NEW v \in Versions, ContainerRecreated(v) PROVE IInv'
    <2>1. /\ gen' = gen + 1 /\ gen' \in Gens /\ gen \in 1..MaxGen
          /\ file' \in Binary /\ proc' = file' /\ file'.kind = "stock"
      BY <1>0, <1>7, ManagerAssumption DEF ContainerRecreated, Stock, Binary, Gens, TypeOK
    <2>2. TypeOK'
      BY <2>1, <1>0, <1>7 DEF ContainerRecreated, TypeOK
    <2>3. Fresh' /\ Sound' /\ ~Recorded' /\ (meta # Nil => meta.id <= gen /\ meta.id \in Nat)
      BY <2>1, <1>0, <1>7 DEF ContainerRecreated, Fresh, Sound, Recorded, GlobalInv, MetaInv,
         TypeOK, Metadata, Gens
    <2>4. GlobalInv'
      <3>1. MetaInv' /\ BackupInv'
        BY <2>1, <2>3, <1>0, <1>7 DEF ContainerRecreated, GlobalInv, MetaInv, BackupInv
      <3>2. RunningInv' /\ FreeInv'
        BY <2>1, <2>3 DEF RunningInv, FreeInv
      <3>3. RollbackIsPossible'
        BY <2>3 DEF RollbackIsPossible, Recorded
      <3> QED
        BY <3>1, <3>2, <3>3 DEF GlobalInv
    <2>5. ASSUME NEW q \in Procs PROVE ProcInv(q)'
      <3>1. loc[q].id \in Nat /\ loc[q].staged \in Nat /\ Key(q)' = Key(q)
        BY <1>0, <1>7 DEF ContainerRecreated, Key, Local
      <3> QED
        BY <2>1, <2>3, <3>1, <1>0, <1>7 DEF ContainerRecreated, ProcInv, LockInv,
           CommandInv, KeyInv, DeployInv, ReplacedInv, RollingInv, SettledInv, Inside, KeyPcs
    <2> QED
      BY <2>2, <2>4, <2>5 DEF IInv
  <1> QED
    BY <1>1, <1>2, <1>3, <1>4, <1>5, <1>6, <1>7

-----------------------------------------------------------------------------
(* Invariance.                                                             *)

LEMMA InitHolds == Init => IInv
  <1> SUFFICES ASSUME Init PROVE IInv
    OBVIOUS
  <1>1. PICK v \in Versions, k \in {"stock", "legacy"}, lost \in BOOLEAN :
          LET original == IF k = "legacy" /\ ~lost THEN Stock(v, 1) ELSE Nil
          IN  /\ file = Core(k, v, 1)
              /\ backup = [x \in Versions \X Gens |->
                             IF x = <<v, 1>> THEN original ELSE Nil]
              /\ meta = IF original = Nil THEN Nil
                        ELSE [ver |-> v, id |-> 1, sum |-> original]
    BY DEF Init
  <1> DEFINE original == IF k = "legacy" /\ ~lost THEN Stock(v, 1) ELSE Nil
  <1>2. /\ file = [kind |-> k, ver |-> v, home |-> 1]
        /\ backup = [x \in Versions \X Gens |-> IF x = <<v, 1>> THEN original ELSE Nil]
        /\ meta = IF original = Nil THEN Nil ELSE [ver |-> v, id |-> 1, sum |-> original]
    BY <1>1 DEF Core
  <1>3. /\ 1 \in Gens
        /\ Stock(v, 1) = [kind |-> "stock", ver |-> v, home |-> 1]
        /\ Stock(v, 1) \in Binary /\ file \in Binary
    BY <1>2, ManagerAssumption DEF Gens, Stock, Binary
  <1>4. /\ original \in Binary \cup {Nil}
        /\ original # Nil => original = Stock(v, 1) /\ k = "legacy"
    BY <1>3
  <1>c. k # "patched" /\ (file.kind = "stock" => original = Nil)
    BY <1>2, <1>4
  <1>5. TypeOK
    <2>1. Idle \in Local
      BY ManagerAssumption DEF Idle, Local, OutsidePcs
    <2>2. meta \in Metadata \cup {Nil}
      BY <1>2, <1>3, <1>4 DEF Metadata
    <2>3. backup \in [Versions \X Gens -> Binary \cup {Nil}]
      BY <1>2, <1>4
    <2> QED
      <3>1. /\ quality \in [Versions -> Qualities]
            /\ gen = 1 /\ proc = file /\ lock = Nil /\ loc = [p \in Procs |-> Idle]
            /\ failed = {} /\ artifacts = {} /\ faults = 0 /\ excused = FALSE
        BY DEF Init
      <3>2. faults \in 0..MaxFaults
        BY <3>1, ManagerAssumption
      <3> QED
        BY <1>3, <2>1, <2>2, <2>3, <3>1, <3>2 DEF TypeOK
  <1>6. GlobalInv
    <2>1. original # Nil => /\ meta = [ver |-> v, id |-> 1, sum |-> Stock(v, 1)]
                            /\ backup[<<v, 1>>] = Stock(v, 1)
      BY <1>2, <1>3, <1>4
    <2>2. original = Nil => meta = Nil
      BY <1>2
    <2>3. gen = 1 /\ proc = file /\ file.kind = k /\ file.ver = v
      BY <1>2 DEF Init
    <2>4. MetaInv
      BY <1>3, <1>c, <2>1, <2>2, <2>3 DEF MetaInv, Recorded
    <2>5. BackupInv
      BY <1>2, <1>3, <1>4 DEF BackupInv
    <2>6. RunningInv /\ FreeInv
      BY <2>3 DEF RunningInv, FreeInv, Sound
    <2>7. RollbackIsPossible
      BY <1>3, <2>1, <2>2 DEF RollbackIsPossible
    <2> QED
      BY <2>4, <2>5, <2>6, <2>7 DEF GlobalInv
  <1>7. ASSUME NEW p \in Procs PROVE ProcInv(p)
    <2>1. loc[p] = Idle /\ lock # p
      BY NilAssumption DEF Init
    <2>2. loc[p].pc = "idle" /\ loc[p].by = "command" /\ loc[p].error = Nil
      BY <2>1 DEF Idle
    <2> QED
      BY <2>1, <2>2 DEF ProcInv, LockInv, CommandInv, KeyInv, DeployInv, ReplacedInv,
         RollingInv,
         SettledInv, Inside, KeyPcs, InsidePcs, OtherPcs, DeployPcs, ReplacedPcs, RollbackPcs
  <1> QED
    BY <1>5, <1>6, <1>7 DEF IInv

LEMMA StepKeeps == IInv /\ [Next]_vars => IInv'
  <1> SUFFICES ASSUME IInv, [Next]_vars PROVE IInv'
    OBVIOUS
  <1>1. CASE UNCHANGED vars
    <2>1. TypeOK' /\ GlobalInv'
      BY <1>1 DEF IInv, TypeOK, GlobalInv, MetaInv, BackupInv, RunningInv, FreeInv,
         RollbackIsPossible, Recorded, Sound
    <2>2. ASSUME NEW p \in Procs PROVE ProcInv(p)'
      BY <1>1 DEF IInv, ProcInv, LockInv, CommandInv, KeyInv, DeployInv, ReplacedInv,
         RollingInv, SettledInv, Inside, Key, Recorded, Fresh, Sound
    <2> QED
      BY <2>1, <2>2 DEF IInv
  <1>2. ASSUME NEW p \in Procs, Continue(p) PROVE IInv'
    BY <1>2, LooksKeep, ChangesKeep, ReplacementsKeep DEF Continue
  <1> QED
    BY <1>1, <1>2, EnvironmentKeeps DEF Next

\* The manager keeps its inductive invariant, whatever Docker, the kernel and the
\* owner of the container do.
THEOREM Invariance == Spec => []IInv
  BY InitHolds, StepKeeps, PTL DEF Spec

\* The types of the variables of the manager.
THEOREM TypeCorrect == Spec => []TypeOK
  <1>1. IInv => TypeOK
    BY DEF IInv
  <1> QED
    BY <1>1, Invariance, PTL

\* One command at a time: the flock is held exactly as long as its command runs.
THEOREM OneInside ==
    Spec => [](\A p, q \in Procs : Inside(p) /\ Inside(q) => p = q)
  <1>1. IInv => \A p, q \in Procs : Inside(p) /\ Inside(q) => p = q
    BY DEF IInv, ProcInv, LockInv
  <1> QED
    BY <1>1, Invariance, PTL

\* deployment.json of the present container never points to a backup that is
\* missing, changed, or itself patched: `rollback' has what it needs.
THEOREM RollbackAlwaysPossible == Spec => []RollbackIsPossible
  <1>1. IInv => RollbackIsPossible
    BY DEF IInv, GlobalInv
  <1> QED
    BY <1>1, Invariance, PTL

-----------------------------------------------------------------------------
(* What a step never does.                                                 *)

\* Only a replacement, a rollback and a new container change the binary.
LEMMA BinaryChanges ==
    ASSUME Next
    PROVE  \/ UNCHANGED file
           \/ \E p \in Procs : Replace(p) \/ RollbackReplace(p)
           \/ \E v \in Versions : ContainerRecreated(v)
  <1>1. ASSUME NEW p \in Procs, Continue(p), ~Replace(p), ~RollbackReplace(p)
        PROVE  UNCHANGED file
    BY <1>1 DEF Continue, InfoStatement, InfoId, Gate, Build, BuildFails, LiveStatement, LiveId,
       CopyBackup, Validate, CompareId, StagedIsGone, Restart, PostId, Health, WriteMetadata,
       ClearFailure, RecordFailure, ReadMetadata, RollbackId, RollbackCopy, RollbackRestart,
       RollbackPostId, RollbackHealth, Nonfatal
  <1> QED
    BY <1>1 DEF Next, Begin, Acquire, Collect, CommandFails, Killed, ContainerRestarts

\* A patched core only ever takes the place of the stock core of its own version
\* in the same container, however often the container is replaced meanwhile.
THEOREM PatchesOnlyItsStock == Spec => PatchReplacesItsStock
  <1> DEFINE A == file'.kind = "patched" /\ file' # file =>
                      gen' = gen /\ file.kind = "stock" /\ file.ver = file'.ver
  <1>1. IInv /\ [Next]_vars => [A]_vars
    <2> SUFFICES ASSUME IInv, Next PROVE A
      OBVIOUS
    <2>1. ASSUME NEW p \in Procs, Replace(p) PROVE A
      <3>1. loc[p].id = gen /\ file.ver = loc[p].ver /\ file.kind = "stock"
        BY <2>1 DEF Replace, At, IInv, ProcInv, KeyInv, KeyPcs, DeployInv, DeployPcs, TypeOK,
           Gens
      <3> QED
        BY <2>1, <3>1 DEF Replace, Core
    <2>2. ASSUME NEW p \in Procs, RollbackReplace(p) PROVE A
      <3>1. /\ Key(p) \in Versions \X Gens
            /\ backup[Key(p)] # Nil
        BY <2>2, KeyIsKey DEF RollbackReplace, At, IInv, ProcInv, RollingInv, KeyPcs,
           RollbackPcs
      <3> QED
        BY <2>2, <3>1 DEF RollbackReplace, IInv, GlobalInv, BackupInv
    <2>3. ASSUME NEW v \in Versions, ContainerRecreated(v) PROVE A
      BY <2>3 DEF ContainerRecreated, Stock
    <2> QED
      BY <2>1, <2>2, <2>3, BinaryChanges
  <1> QED
    BY <1>1, Invariance, PTL DEF Spec, PatchReplacesItsStock

\* Only the handler of a failed deployment records a failure.
LEMMA FailuresAreRecorded ==
    ASSUME Next, NEW v \in failed' \ failed
    PROVE  \E p \in Procs : RecordFailure(p)
  <1>1. ASSUME NEW p \in Procs, Continue(p), ~RecordFailure(p)
        PROVE  failed' \subseteq failed
    BY <1>1 DEF Continue, InfoStatement, InfoId, Gate, Build, BuildFails, LiveStatement, LiveId,
       CopyBackup, Validate, CompareId, Replace, StagedIsGone, Restart, PostId, Health,
       WriteMetadata, ClearFailure, ReadMetadata, RollbackId, RollbackCopy, RollbackReplace,
       RollbackRestart, RollbackPostId, RollbackHealth, Nonfatal
  <1> QED
    BY <1>1 DEF Next, Begin, Acquire, Collect, CommandFails, Killed, ContainerRestarts,
       ContainerRecreated

\* A version is marked as failed only when its container has the stock core back,
\* unless the rollback itself met a fault.
THEOREM FailuresLeaveStock == Spec => FailureLeavesStock
  <1> DEFINE A == \A v \in failed' \ failed : file.kind # "patched" \/ excused
  <1>1. IInv /\ [Next]_vars => [A]_vars
    <2> SUFFICES ASSUME IInv, Next, NEW v \in failed' \ failed
                 PROVE  file.kind # "patched" \/ excused
      OBVIOUS
    <2>1. PICK p \in Procs : RecordFailure(p)
      BY FailuresAreRecorded
    <2> QED
      BY <2>1 DEF RecordFailure, At, IInv, ProcInv, SettledInv, Fresh
  <1> QED
    BY <1>1, Invariance, PTL DEF Spec, FailureLeavesStock

-----------------------------------------------------------------------------
(* The refinement: every step of the manager is one of its contract.       *)

CommandAt(p) == IF loc[p].cmd \in {"ensure", "retry"} THEN "ensure" ELSE "restore"

LEMMA StatusOf ==
    ASSUME TypeOK, NEW p \in Procs
    PROVE  /\ Status[p] = AbstractAt(p)
           /\ Inside(p) => Status[p] = CommandAt(p)
           /\ loc[p].pc \in ExitPcs => Status[p] = loc[p].pc
           /\ loc[p].pc \in {"idle", "lock"} => Status[p] = "out"
  <1>1. Status[p] = AbstractAt(p)
    BY DEF Status
  <1>2. Inside(p) => AbstractAt(p) = CommandAt(p)
    BY DEF AbstractAt, CommandAt, Inside, InsidePcs, OtherPcs, DeployPcs, ReplacedPcs,
       RollbackPcs, ExitPcs
  <1>3. loc[p].pc \in ExitPcs => AbstractAt(p) = loc[p].pc
    BY DEF AbstractAt, ExitPcs, InsidePcs, OtherPcs, DeployPcs, ReplacedPcs, RollbackPcs
  <1>4. loc[p].pc \in {"idle", "lock"} => AbstractAt(p) = "out"
    BY DEF AbstractAt, ExitPcs, InsidePcs, OtherPcs, DeployPcs, ReplacedPcs, RollbackPcs
  <1> QED
    BY <1>1, <1>2, <1>3, <1>4

LEMMA StatusOfNext ==
    ASSUME TypeOK', NEW p \in Procs
    PROVE  /\ Status'[p] = AbstractAt(p)'
           /\ Inside(p)' => Status'[p] = CommandAt(p)'
           /\ loc'[p].pc \in ExitPcs => Status'[p] = loc'[p].pc
           /\ loc'[p].pc \in {"idle", "lock"} => Status'[p] = "out"
  <1>1. Status'[p] = AbstractAt(p)'
    BY DEF Status
  <1>2. Inside(p)' => AbstractAt(p)' = CommandAt(p)'
    BY DEF AbstractAt, CommandAt, Inside, InsidePcs, OtherPcs, DeployPcs, ReplacedPcs,
       RollbackPcs, ExitPcs
  <1>3. loc'[p].pc \in ExitPcs => AbstractAt(p)' = loc'[p].pc
    BY DEF AbstractAt, ExitPcs, InsidePcs, OtherPcs, DeployPcs, ReplacedPcs, RollbackPcs
  <1>4. loc'[p].pc \in {"idle", "lock"} => AbstractAt(p)' = "out"
    BY DEF AbstractAt, ExitPcs, InsidePcs, OtherPcs, DeployPcs, ReplacedPcs, RollbackPcs
  <1> QED
    BY <1>1, <1>2, <1>3, <1>4

\* A step of p changes the status of p at most.
LEMMA StatusChanges ==
    ASSUME NEW p \in Procs, Only(p), NEW s, AbstractAt(p)' = s
    PROVE  Status' = [Status EXCEPT ![p] = s]
  <1>1. \A q \in Procs \ {p} : AbstractAt(q)' = AbstractAt(q)
    BY DEF Only, AbstractAt
  <1> QED
    BY <1>1 DEF Status

\* The command of p goes on, or ends with an error.
GoesOnOrFails(p) ==
    \/ Status' = Status
    \/ lock' = Nil /\ Status' = [Status EXCEPT ![p] = "failed"]

LEMMA GotoStatus ==
    ASSUME TypeOK, TypeOK', NEW p \in Procs, Inside(p), Only(p), Keeps(p), Inside(p)'
    PROVE  Status' = Status
  <1>1. AbstractAt(p) = Status[p] /\ AbstractAt(p)' = Status[p]
    BY StatusOf, StatusOfNext DEF CommandAt, Keeps
  <1> QED
    BY <1>1, StatusChanges DEF Status

LEMMA ExitStatus ==
    ASSUME TypeOK, TypeOK', NEW p \in Procs, lock = p, NEW status \in ExitPcs, Exit(p, status)
    PROVE  lock' = Nil /\ Status' = [Status EXCEPT ![p] = status]
  <1>1. Only(p) /\ loc'[p].pc = status /\ lock' = Nil
    BY ExitEffect
  <1>2. AbstractAt(p)' = status
    BY <1>1, StatusOfNext DEF ExitPcs
  <1> QED
    BY <1>1, <1>2, StatusChanges

LEMMA FailStatus ==
    ASSUME TypeOK, TypeOK', NEW p \in Procs, Inside(p), lock = p,
           NEW error \in {"manager", "timeout"}, Fail(p, error)
    PROVE  GoesOnOrFails(p)
  <1>1. CASE Exit(p, "failed")
    BY <1>1, ExitStatus DEF GoesOnOrFails, ExitPcs
  <1>2. CASE Only(p) /\ Keeps(p) /\ loc'[p].pc = "nonfatal"
    BY <1>2, GotoStatus DEF GoesOnOrFails, Inside, InsidePcs, OtherPcs
  <1> QED
    BY <1>1, <1>2, FailEffect

LEMMA RaiseStatus ==
    ASSUME TypeOK, TypeOK', NEW p \in Procs, Inside(p), lock = p,
           NEW error \in {"manager", "timeout"}, Raise(p, error)
    PROVE  /\ GoesOnOrFails(p)
           /\ loc[p].pc \in DeployPcs \cup ReplacedPcs => Status' = Status
  <1>1. CASE Only(p) /\ Keeps(p) /\ loc'[p].pc \in {"rbid", "except"}
    BY <1>1, GotoStatus DEF GoesOnOrFails, Inside, InsidePcs, OtherPcs, RollbackPcs
  <1>2. CASE loc[p].pc \notin ReplacedPcs \cup DeployPcs /\ Fail(p, error)
    BY <1>2, FailStatus
  <1> QED
    BY <1>1, <1>2, RaiseEffect

\* Who is inside, in the terms of the contract.
LEMMA InsideMaps ==
    ASSUME TypeOK, NEW p \in Procs, Inside(p)
    PROVE  p \in Contract!Inside
  BY StatusOf DEF CommandAt, Contract!Inside, Contract!Commands

LEMMA NobodyMaps ==
    ASSUME IInv, lock = Nil
    PROVE  Contract!Inside = {}
  <1> SUFFICES ASSUME NEW p \in Procs, Status[p] \in {"ensure", "restore"}
               PROVE  FALSE
    BY DEF Contract!Inside, Contract!Commands
  <1>1. ~Inside(p) /\ TypeOK
    BY NilAssumption DEF IInv, ProcInv, LockInv
  <1>2. loc[p].pc \in OutsidePcs
    BY <1>1 DEF Inside, TypeOK, Local
  <1> QED
    BY <1>1, <1>2, StatusOf DEF OutsidePcs, ExitPcs

\* Whoever releases the lock leaves a settled container behind.
LEMMA ReleaseSettles ==
    ASSUME IInv', lock' = Nil
    PROVE  Contract!Settled' \/ excused'
  BY DEF IInv, GlobalInv, FreeInv, Sound, Running, Contract!Settled

\* A step that leaves the container alone is none of the contract, or the end of
\* a command, or a fault.
LEMMA LooksMap ==
    ASSUME IInv, IInv', NEW p \in Procs, Inside(p), Looks, GoesOnOrFails(p)
    PROVE  [Contract!Next]_(Contract!vars)
  <1>1. /\ UNCHANGED <<file, Running, Recorded>>
        /\ excused' \in {excused, TRUE}
        /\ Contract!Settled' <=> Contract!Settled
        /\ p \in Contract!Inside
    BY InsideMaps DEF Looks, Running, Recorded, Contract!Settled, IInv, TypeOK
  <1>2. CASE excused' = excused /\ Status' = Status
    BY <1>1, <1>2 DEF Contract!vars
  <1>3. CASE excused' = excused /\ lock' = Nil /\ Status' = [Status EXCEPT ![p] = "failed"]
    <2>1. Contract!Leave(p, "failed")
      BY <1>1, <1>3, ReleaseSettles DEF Contract!Leave
    <2> QED
      BY <2>1 DEF Contract!Next, Contract!Statuses
  <1>4. CASE excused' = TRUE
    <2>1. Contract!Spoil(p)
      BY <1>1, <1>4 DEF GoesOnOrFails, Contract!Spoil, Contract!MayFail
    <2> QED
      BY <2>1 DEF Contract!Next
  <1> QED
    BY <1>1, <1>2, <1>3, <1>4 DEF GoesOnOrFails

\* A successful end of the command of p.
LEMMA SuccessMaps ==
    ASSUME IInv, IInv', NEW p \in Procs, Inside(p), lock = p, Exit(p, "ok"),
           UNCHANGED <<containerVars, backup, meta, excused>>,
           loc[p].cmd \notin {"ensure", "retry"} => file.kind = "stock"
    PROVE  [Contract!Next]_(Contract!vars)
  <1>1. lock' = Nil /\ Status' = [Status EXCEPT ![p] = "ok"]
    BY ExitStatus DEF IInv, ExitPcs
  <1>2. /\ UNCHANGED <<file, Running, Recorded, excused>>
        /\ Contract!Settled' <=> Contract!Settled
        /\ p \in Contract!Inside
    BY InsideMaps DEF Running, Recorded, Contract!Settled, IInv
  <1>3. Status[p] = "restore" => file.kind = "stock"
    BY StatusOf DEF CommandAt, IInv
  <1>4. Contract!Leave(p, "ok")
    BY <1>1, <1>2, <1>3, ReleaseSettles DEF Contract!Leave
  <1> QED
    BY <1>4 DEF Contract!Next, Contract!Statuses

\* p goes on in the same container, and may have learned something.
LEMMA LearnMaps ==
    ASSUME IInv, IInv', NEW p \in Procs, Inside(p), Only(p), loc'[p].cmd = loc[p].cmd, Inside(p)',
           UNCHANGED <<file, proc, gen, meta, excused>>
    PROVE  [Contract!Next]_(Contract!vars)
  <1>1. AbstractAt(p) = Status[p] /\ AbstractAt(p)' = Status[p]
    BY StatusOf, StatusOfNext DEF CommandAt, IInv
  <1>2. Status' = Status
    BY <1>1, StatusChanges DEF Status
  <1> QED
    BY <1>2 DEF Contract!vars, Running, Recorded

LEMMA LooksMapAll ==
    ASSUME IInv, IInv', NEW p \in Procs
    PROVE  /\ InfoStatement(p) => [Contract!Next]_(Contract!vars)
           /\ InfoId(p) => [Contract!Next]_(Contract!vars)
           /\ Gate(p) => [Contract!Next]_(Contract!vars)
           /\ BuildFails(p) => [Contract!Next]_(Contract!vars)
           /\ LiveStatement(p) => [Contract!Next]_(Contract!vars)
           /\ LiveId(p) => [Contract!Next]_(Contract!vars)
           /\ Validate(p) => [Contract!Next]_(Contract!vars)
           /\ CompareId(p) => [Contract!Next]_(Contract!vars)
           /\ StagedIsGone(p) => [Contract!Next]_(Contract!vars)
           /\ PostId(p) => [Contract!Next]_(Contract!vars)
           /\ Health(p) => [Contract!Next]_(Contract!vars)
           /\ Nonfatal(p) => [Contract!Next]_(Contract!vars)
           /\ ReadMetadata(p) => [Contract!Next]_(Contract!vars)
           /\ RollbackId(p) => [Contract!Next]_(Contract!vars)
           /\ RollbackCopy(p) => [Contract!Next]_(Contract!vars)
           /\ RollbackPostId(p) => [Contract!Next]_(Contract!vars)
           /\ RollbackHealth(p) => [Contract!Next]_(Contract!vars)
           /\ Build(p) => [Contract!Next]_(Contract!vars)
           /\ CopyBackup(p) => [Contract!Next]_(Contract!vars)
  <1> USE DEF At, InsidePcs, OtherPcs, DeployPcs, ReplacedPcs, RollbackPcs, ExitPcs
  <1>0. TypeOK /\ TypeOK' /\ ProcInv(p) /\ loc[p] \in Local /\ loc \in [Procs -> Local]
    BY DEF IInv, TypeOK
  <1>a. Inside(p) => lock = p
    BY <1>0 DEF ProcInv, LockInv
  <1>b. UNCHANGED <<quality, containerVars, diskVars, histVars>> => Looks
    BY <1>0 DEF TypeOK, Looks
  <1>c. ASSUME NEW l \in InsidePcs, Inside(p), Goto(p, l),
               UNCHANGED <<file, proc, gen, meta, excused>>
        PROVE  [Contract!Next]_(Contract!vars)
    <2>1. Only(p) /\ Keeps(p) /\ loc'[p].pc = l
      BY <1>0, <1>c, GotoEffect
    <2> QED
      BY <2>1, <1>c, LearnMaps DEF Keeps, Inside
  <1>d. ASSUME Inside(p), NEW error \in {"manager", "timeout"}, Raise(p, error), Looks
        PROVE  [Contract!Next]_(Contract!vars)
    BY <1>0, <1>a, <1>d, RaiseStatus, LooksMap
  <1>e. ASSUME NEW error \in {"manager", "timeout"}, Inside(p), Fail(p, error), Looks
        PROVE  [Contract!Next]_(Contract!vars)
    BY <1>0, <1>a, <1>e, FailStatus, LooksMap
  <1>f. ASSUME Inside(p), Exit(p, "failed"), Looks
        PROVE  [Contract!Next]_(Contract!vars)
    BY <1>0, <1>a, <1>f, ExitStatus, LooksMap DEF GoesOnOrFails
  <1>1. ASSUME InfoStatement(p) PROVE [Contract!Next]_(Contract!vars)
    <2>1. Only(p) /\ loc'[p].cmd = loc[p].cmd /\ Inside(p) /\ Inside(p)'
      BY <1>0, <1>1 DEF InfoStatement, Only, Inside, Local, TypeOK
    <2> QED
      BY <2>1, <1>1, LearnMaps DEF InfoStatement
  <1>2. ASSUME InfoId(p) PROVE [Contract!Next]_(Contract!vars)
    <2> DEFINE done == loc[p].kind = IF loc[p].cmd = "restore" THEN "stock" ELSE "patched"
    <2>1. CASE done
      <3>1. Inside(p) /\ Exit(p, "ok") /\ loc[p].pc = "infoid"
        BY <1>2, <2>1 DEF InfoId, Inside
      <3>2. loc[p].cmd \notin {"ensure", "retry"} => file.kind = "stock"
        BY <2>1, <3>1, <1>0 DEF ProcInv, CommandInv, SettledInv, CommandNames
      <3>3. UNCHANGED <<containerVars, backup, meta, excused>>
        BY <1>2 DEF InfoId
      <3> QED
        BY <3>1, <3>2, <3>3, <1>a, SuccessMaps
    <2>2. CASE ~done
      <3>1. loc' = [loc EXCEPT ![p].id = gen,
                              ![p].pc = IF loc[p].kind = "stock" THEN "gate" ELSE "rbmeta"]
        BY <1>2, <2>2 DEF InfoId
      <3>2. loc'[p] = [loc[p] EXCEPT !.id = gen,
                                     !.pc = IF loc[p].kind = "stock" THEN "gate" ELSE "rbmeta"]
        BY <3>1, <1>0
      <3>3. loc'[p].cmd = loc[p].cmd /\ loc'[p].pc \in {"gate", "rbmeta"}
        BY <3>2, <1>0 DEF Local
      <3>4. Only(p) /\ Inside(p) /\ Inside(p)'
        BY <3>1, <3>3, <1>0, <1>2 DEF InfoId, Only, Inside, TypeOK
      <3> QED
        BY <3>3, <3>4, <1>2, LearnMaps DEF InfoId
    <2> QED
      BY <2>1, <2>2
  <1>3. ASSUME Gate(p) PROVE [Contract!Next]_(Contract!vars)
    <2>1. Inside(p) /\ Looks /\ (Fail(p, "manager") \/ Goto(p, "live") \/ Goto(p, "build"))
      BY <1>3, <1>b DEF Gate, Inside
    <2> QED
      BY <2>1, <1>c, <1>e, <1>3 DEF Gate
  <1>4. ASSUME BuildFails(p) PROVE [Contract!Next]_(Contract!vars)
    BY <1>4, <1>b, <1>d DEF BuildFails, Inside
  <1>5. ASSUME LiveStatement(p) PROVE [Contract!Next]_(Contract!vars)
    <2>1. Inside(p) /\ Looks /\ (Goto(p, "liveid") \/ Raise(p, "manager"))
      BY <1>5, <1>b DEF LiveStatement, Require, Inside
    <2> QED
      BY <2>1, <1>c, <1>d, <1>5 DEF LiveStatement
  <1>6. ASSUME LiveId(p) PROVE [Contract!Next]_(Contract!vars)
    <2>1. Inside(p) /\ Looks /\ (Goto(p, "copy") \/ Raise(p, "manager"))
      BY <1>6, <1>b DEF LiveId, Require, Inside
    <2> QED
      BY <2>1, <1>c, <1>d, <1>6 DEF LiveId
  <1>7. ASSUME Validate(p) PROVE [Contract!Next]_(Contract!vars)
    <2>1. CASE Raise(p, "manager")
      BY <2>1, <1>7, <1>b, <1>d DEF Validate, Inside
    <2>2. CASE ~Raise(p, "manager")
      <3>1. Only(p) /\ loc'[p].cmd = loc[p].cmd /\ Inside(p) /\ Inside(p)'
        BY <1>0, <1>7, <2>2 DEF Validate, Only, Inside, Local, TypeOK
      <3> QED
        BY <3>1, <1>7, LearnMaps DEF Validate
    <2> QED
      BY <2>1, <2>2
  <1>8. ASSUME CompareId(p) PROVE [Contract!Next]_(Contract!vars)
    <2>1. Inside(p) /\ Looks /\ (Goto(p, "mv") \/ Raise(p, "manager"))
      BY <1>8, <1>b DEF CompareId, Require, Inside
    <2> QED
      BY <2>1, <1>c, <1>d, <1>8 DEF CompareId
  <1>9. ASSUME StagedIsGone(p) PROVE [Contract!Next]_(Contract!vars)
    BY <1>9, <1>b, <1>d DEF StagedIsGone, Inside
  <1>10. ASSUME PostId(p) PROVE [Contract!Next]_(Contract!vars)
    <2>1. Inside(p) /\ Looks /\ (Goto(p, "health") \/ Raise(p, "manager"))
      BY <1>10, <1>b DEF PostId, Require, Inside
    <2> QED
      BY <2>1, <1>c, <1>d, <1>10 DEF PostId
  <1>11. ASSUME Health(p) PROVE [Contract!Next]_(Contract!vars)
    <2>1. Inside(p) /\ Looks /\ (Goto(p, "meta") \/ Raise(p, "manager"))
      BY <1>11, <1>b DEF Health, Require, Inside
    <2> QED
      BY <2>1, <1>c, <1>d, <1>11 DEF Health
  <1>12. ASSUME Nonfatal(p) PROVE [Contract!Next]_(Contract!vars)
    <2>1. CASE Exit(p, "ok") /\ StockRuns
      BY <2>1, <1>0, <1>12, <1>a, SuccessMaps DEF Nonfatal, Inside, StockRuns
    <2>2. CASE Exit(p, "failed")
      BY <2>2, <1>12, <1>b, <1>f DEF Nonfatal, Inside
    <2> QED
      BY <2>1, <2>2, <1>12 DEF Nonfatal
  <1>13. ASSUME ReadMetadata(p) PROVE [Contract!Next]_(Contract!vars)
    <2>1. CASE Fail(p, "manager") \/ Fail(p, "timeout")
      BY <2>1, <1>13, <1>b, <1>e DEF ReadMetadata, Inside
    <2>2. CASE ~(Fail(p, "manager") \/ Fail(p, "timeout"))
      <3>1. Only(p) /\ loc'[p].cmd = loc[p].cmd /\ Inside(p) /\ Inside(p)'
        BY <1>0, <1>13, <2>2 DEF ReadMetadata, Only, Inside, Local, TypeOK
      <3> QED
        BY <3>1, <1>13, LearnMaps DEF ReadMetadata
    <2> QED
      BY <2>1, <2>2
  <1>14. ASSUME RollbackId(p) PROVE [Contract!Next]_(Contract!vars)
    <2>1. Inside(p) /\ Looks /\ (Goto(p, "rbcp") \/ Raise(p, "manager"))
      BY <1>14, <1>b DEF RollbackId, Require, Inside
    <2> QED
      BY <2>1, <1>c, <1>d, <1>14 DEF RollbackId
  <1>15. ASSUME RollbackCopy(p) PROVE [Contract!Next]_(Contract!vars)
    <2>1. Only(p) /\ loc'[p].cmd = loc[p].cmd /\ Inside(p) /\ Inside(p)'
      BY <1>0, <1>15 DEF RollbackCopy, Only, Inside, Local, TypeOK
    <2> QED
      BY <2>1, <1>15, LearnMaps DEF RollbackCopy
  <1>16. ASSUME RollbackPostId(p) PROVE [Contract!Next]_(Contract!vars)
    <2>1. Inside(p) /\ Looks /\ (Goto(p, "rbhealth") \/ Raise(p, "manager"))
      BY <1>16, <1>b DEF RollbackPostId, Require, Inside
    <2> QED
      BY <2>1, <1>c, <1>d, <1>16 DEF RollbackPostId
  <1>17. ASSUME RollbackHealth(p) PROVE [Contract!Next]_(Contract!vars)
    <2>1. /\ Inside(p) /\ Looks /\ file.kind = "stock"
          /\ Raise(p, "manager") \/ Goto(p, "except") \/ Goto(p, "info") \/ Exit(p, "ok")
      BY <1>0, <1>17, <1>b DEF RollbackHealth, Inside, ProcInv, RollingInv, Fresh
    <2> QED
      BY <2>1, <1>a, <1>c, <1>d, <1>17, SuccessMaps DEF RollbackHealth
  <1>18. ASSUME Build(p) PROVE [Contract!Next]_(Contract!vars)
    <2>1. Inside(p) /\ Looks
      <3>1. loc[p].ver \in Versions
        BY <1>0, <1>18 DEF Build, ProcInv, KeyInv, KeyPcs
      <3>2. artifacts' \subseteq Versions /\ faults' \in 0..MaxFaults
        BY <1>0 DEF TypeOK
      <3> QED
        BY <3>1, <3>2, <1>0, <1>18 DEF Build, Looks, TypeOK, Inside
    <2>2. Goto(p, "live") \/ \E error \in {"manager", "timeout"} : Raise(p, error)
      BY <1>18 DEF Build, GotoUnless, Errors
    <2> QED
      BY <2>1, <2>2, <1>c, <1>d, <1>18 DEF Build
  <1>19. ASSUME CopyBackup(p) PROVE [Contract!Next]_(Contract!vars)
    <2>1. Inside(p) /\ Goto(p, "validate")
      BY <1>0, <1>19 DEF CopyBackup, Require, Inside, ProcInv, DeployInv
    <2> QED
      BY <2>1, <1>c, <1>19 DEF CopyBackup
  <1> QED
    BY <1>1, <1>2, <1>3, <1>4, <1>5, <1>6, <1>7, <1>8, <1>9, <1>10, <1>11, <1>12, <1>13,
       <1>14, <1>15, <1>16, <1>17, <1>18, <1>19
\* The status after a step that goes on, or raises an exception late.
LEMMA GotoUnlessStatus ==
    ASSUME IInv, IInv', NEW p \in Procs, loc[p].pc \in {"mv", "restart", "rbmv", "rbrestart"},
           NEW late \in BOOLEAN, NEW l \in {"restart", "postid", "rbrestart", "rbpostid"},
           GotoUnless(p, late, l)
    PROVE  /\ GoesOnOrFails(p)
           /\ loc[p].pc = "mv" => Status' = Status
  <1> USE DEF InsidePcs, OtherPcs, DeployPcs, ReplacedPcs, RollbackPcs
  <1>0. TypeOK /\ TypeOK' /\ Inside(p) /\ lock = p
    BY InsideHasLock DEF IInv, Inside
  <1>1. CASE late
    <2>1. PICK error \in {"manager", "timeout"} : Raise(p, error)
      BY <1>1 DEF GotoUnless, Errors
    <2> QED
      BY <2>1, <1>0, RaiseStatus
  <1>2. CASE ~late
    <2>1. Goto(p, l) /\ l \in InsidePcs
      BY <1>2 DEF GotoUnless
    <2>2. Only(p) /\ Keeps(p) /\ loc'[p].pc = l
      BY <2>1, <1>0, GotoEffect
    <2>3. Inside(p)'
      BY <2>1, <2>2 DEF Inside
    <2> QED
      BY <2>2, <2>3, <1>0, GotoStatus DEF GoesOnOrFails
  <1> QED
    BY <1>1, <1>2

\* The end of a command that fails, as the contract sees it.
LEMMA MayFailMaps ==
    ASSUME IInv, IInv', NEW p \in Procs, GoesOnOrFails(p)
    PROVE  Contract!MayFail(p)
  BY ReleaseSettles DEF GoesOnOrFails, Contract!MayFail

LEMMA ReplaceMaps ==
    ASSUME IInv, IInv', NEW p \in Procs, Replace(p)
    PROVE  [Contract!Next]_(Contract!vars)
  <1>1. PICK late \in BOOLEAN : /\ GotoUnless(p, late, "restart")
                                /\ excused' = (excused \/ late)
    BY DEF Replace
  <1>2. loc[p].pc = "mv" /\ Inside(p) /\ TypeOK /\ ProcInv(p)
    BY DEF Replace, At, Inside, InsidePcs, DeployPcs, IInv
  <1>3. Status' = Status
    BY <1>1, <1>2, GotoUnlessStatus
  <1>4. Status[p] = "ensure"
    BY <1>2, StatusOf DEF CommandAt, ProcInv, CommandInv, DeployPcs
  <1>5. file.kind = "stock" /\ file'.kind = "patched"
    BY <1>2 DEF ProcInv, DeployInv, DeployPcs, Replace, Core
  <1>6. UNCHANGED Recorded
    BY DEF Replace, Recorded
  <1>7. excused' \in {excused, TRUE} /\ Running' \in BOOLEAN
    BY <1>1, <1>2 DEF TypeOK, Running
  <1> QED
    BY <1>3, <1>4, <1>5, <1>6, <1>7 DEF Contract!Next, Contract!Replace

LEMMA RestartsMap ==
    ASSUME IInv, IInv', NEW p \in Procs, Restart(p) \/ RollbackRestart(p)
    PROVE  [Contract!Next]_(Contract!vars)
  <1>1. PICK late \in BOOLEAN, l \in {"postid", "rbpostid"} : GotoUnless(p, late, l)
    BY DEF Restart, RollbackRestart
  <1>2. loc[p].pc \in {"restart", "rbrestart"} /\ Inside(p) /\ TypeOK
    BY DEF Restart, RollbackRestart, At, Inside, InsidePcs, ReplacedPcs, RollbackPcs, IInv
  <1>3. p \in Contract!Inside
    BY <1>2, InsideMaps
  <1>4. Contract!MayFail(p)
    BY <1>1, <1>2, GotoUnlessStatus, MayFailMaps
  <1>5. UNCHANGED <<file, Recorded, excused>>
    BY DEF Restart, RollbackRestart, Recorded
  <1>6. Running' \in BOOLEAN
    BY DEF Running
  <1>7. Contract!Restart(p)
    BY <1>3, <1>4, <1>5, <1>6 DEF Contract!Restart
  <1> QED
    BY <1>7 DEF Contract!Next

LEMMA RollbackReplaceMaps ==
    ASSUME IInv, IInv', NEW p \in Procs, RollbackReplace(p)
    PROVE  [Contract!Next]_(Contract!vars)
  <1>1. PICK late \in BOOLEAN : /\ GotoUnless(p, late, "rbrestart")
                                /\ excused' = (excused \/ late)
    BY DEF RollbackReplace
  <1>2. loc[p].pc = "rbmv" /\ Inside(p) /\ TypeOK /\ ProcInv(p)
    BY DEF RollbackReplace, At, Inside, InsidePcs, RollbackPcs, IInv
  <1>3. p \in Contract!Inside
    BY <1>2, InsideMaps
  <1>4. Contract!MayFail(p)
    BY <1>1, <1>2, GotoUnlessStatus, MayFailMaps
  <1>5. file'.kind = "stock"
    <2>1. Key(p) \in Versions \X Gens
      BY <1>2, KeyIsKey DEF KeyPcs, RollbackPcs
    <2> QED
      BY <2>1, <1>2 DEF RollbackReplace, IInv, GlobalInv, BackupInv, ProcInv, RollingInv
  <1>6. UNCHANGED Recorded
    BY DEF RollbackReplace, Recorded
  <1>7. excused' \in {excused, TRUE} /\ Running' \in BOOLEAN
    BY <1>1, <1>2 DEF TypeOK, Running
  <1>8. Contract!Restore(p)
    BY <1>3, <1>4, <1>5, <1>6, <1>7 DEF Contract!Restore
  <1> QED
    BY <1>8 DEF Contract!Next

\* Metadata is recorded for the container that was patched; written for one that
\* is gone it means nothing.
LEMMA WriteMetadataMaps ==
    ASSUME IInv, IInv', NEW p \in Procs, WriteMetadata(p)
    PROVE  [Contract!Next]_(Contract!vars)
  <1>1. loc[p].pc = "meta" /\ Inside(p) /\ TypeOK /\ TypeOK' /\ ProcInv(p) /\ Goto(p, "unmark")
    BY DEF WriteMetadata, At, Inside, InsidePcs, ReplacedPcs, IInv
  <1>2. Status' = Status
    <2>1. Only(p) /\ Keeps(p) /\ loc'[p].pc = "unmark"
      BY <1>1, GotoEffect DEF InsidePcs, OtherPcs
    <2> QED
      BY <2>1, <1>1, GotoStatus DEF Inside, InsidePcs, OtherPcs
  <1>3. UNCHANGED <<file, Running, excused>>
    BY DEF WriteMetadata, Running
  <1>4. Recorded' <=> loc[p].id = gen
    <2>1. meta' # Nil /\ meta'.id = loc[p].id
      <3>1. Key(p) \in Versions \X Gens
        BY <1>1, KeyIsKey DEF KeyPcs, ReplacedPcs
      <3>2. backup[Key(p)] \in Binary
        BY <1>1, <3>1 DEF ProcInv, ReplacedInv, ReplacedPcs, TypeOK
      <3>3. meta' \in Metadata /\ meta'.id = loc[p].id
        BY <3>1, <3>2 DEF WriteMetadata, Metadata, Key
      <3> QED
        BY <3>3, NilAssumption
    <2> QED
      BY <2>1 DEF Recorded, WriteMetadata
  <1>5. CASE loc[p].id = gen
    <2>1. Status[p] = "ensure"
      BY <1>1, StatusOf DEF CommandAt, ProcInv, CommandInv, ReplacedPcs
    <2>2. file.kind = "patched" /\ Running /\ Recorded' = TRUE
      BY <1>1, <1>4, <1>5 DEF ProcInv, ReplacedInv, ReplacedPcs, Running, Recorded
    <2>3. Contract!Record(p)
      BY <1>2, <1>3, <2>1, <2>2 DEF Contract!Record
    <2> QED
      BY <2>3 DEF Contract!Next
  <1>6. CASE loc[p].id # gen
    <2>1. ~Recorded /\ ~Recorded'
      BY <1>1, <1>4, <1>6 DEF ProcInv, KeyInv, KeyPcs, ReplacedPcs
    <2>2. UNCHANGED Recorded
      BY <2>1 DEF Recorded
    <2> QED
      BY <1>2, <1>3, <2>2 DEF Contract!vars
  <1> QED
    BY <1>5, <1>6

\* The last step of a deployment, and the handler of one that has failed.
LEMMA MarkersMap ==
    ASSUME IInv, IInv', NEW p \in Procs, ClearFailure(p) \/ RecordFailure(p)
    PROVE  [Contract!Next]_(Contract!vars)
  <1>1. /\ loc[p].pc \in {"unmark", "except"} /\ Inside(p) /\ lock = p
        /\ TypeOK /\ TypeOK' /\ ProcInv(p)
    BY InsideHasLock DEF ClearFailure, RecordFailure, At, Inside, InsidePcs, OtherPcs, IInv
  <1>2. CASE ClearFailure(p)
    <2>1. loc[p].cmd \in {"ensure", "retry"}
      BY <1>1, <1>2 DEF ClearFailure, At, ProcInv, CommandInv
    <2> QED
      BY <1>1, <1>2, <2>1, SuccessMaps DEF ClearFailure
  <1>3. CASE RecordFailure(p)
    <2>1. GoesOnOrFails(p)
      BY <1>1, <1>3, FailStatus DEF RecordFailure, At, ProcInv, CommandInv
    <2>2. Looks
      BY <1>1, <1>3 DEF RecordFailure, At, Looks, TypeOK
    <2> QED
      BY <1>1, <2>1, <2>2, LooksMap
  <1> QED
    BY <1>2, <1>3

LEMMA FaultsMap ==
    ASSUME IInv, IInv', NEW p \in Procs, CommandFails(p) \/ Killed(p)
    PROVE  [Contract!Next]_(Contract!vars)
  <1>1. Inside(p) /\ lock = p /\ TypeOK /\ TypeOK'
    <2>1. TypeOK /\ loc[p].pc \in InsidePcs
      BY DEF CommandFails, Killed, IInv, TypeOK, Local
    <2> QED
      BY <2>1, InsideHasLock DEF Inside, IInv
  <1>2. GoesOnOrFails(p)
    <2>1. CASE Exit(p, "failed")
      BY <1>1, <2>1, ExitStatus DEF GoesOnOrFails, ExitPcs
    <2>2. ASSUME NEW error \in {"manager", "timeout"}, Raise(p, error)
          PROVE  GoesOnOrFails(p)
      BY <1>1, <2>2, RaiseStatus
    <2> QED
      BY <2>1, <2>2 DEF CommandFails, Killed, Errors
  <1>3. Looks
    <2>1. UNCHANGED <<quality, containerVars, backup, meta, failed, artifacts>>
      BY DEF CommandFails, Killed
    <2>2. excused' = TRUE \/ excused' = (excused \/ loc[p].pc \in RollbackPcs)
      BY DEF CommandFails, Killed
    <2>3. faults' \in 0..MaxFaults
      BY <1>1 DEF TypeOK
    <2> QED
      BY <1>1, <2>1, <2>2, <2>3 DEF Looks, TypeOK
  <1> QED
    BY <1>1, <1>2, <1>3, LooksMap

\* A command begins, waits for the lock, enters, and hands over its exit status.
LEMMA LifecycleMaps ==
    ASSUME IInv, IInv', NEW p \in Procs,
           (\E cmd \in CommandNames : Begin(p, cmd)) \/ Acquire(p) \/ Collect(p)
    PROVE  [Contract!Next]_(Contract!vars)
  <1>1. TypeOK /\ TypeOK' /\ loc[p] \in Local
    BY DEF IInv, TypeOK
  <1>2. UNCHANGED <<file, Running, Recorded, excused>>
    BY DEF Begin, Acquire, Collect, Running, Recorded
  <1>3. Only(p)
    BY <1>1 DEF Only, Begin, Acquire, Collect, Goto, TypeOK
  <1>4. CASE \E cmd \in CommandNames : Begin(p, cmd)
    <2>1. loc[p].pc = "idle" /\ loc'[p].pc = "lock"
      BY <1>1, <1>4, ZenonT(30) DEF Begin, TypeOK, Local
    <2>2. AbstractAt(p) = Status[p] /\ AbstractAt(p)' = Status[p]
      BY <1>1, <2>1, StatusOf, StatusOfNext
    <2>3. Status' = Status
      BY <1>3, <2>2, StatusChanges DEF Status
    <2> QED
      BY <1>2, <2>3 DEF Contract!vars
  <1>5. CASE Acquire(p)
    <2>1. /\ loc[p].pc = "lock" /\ lock = Nil
          /\ loc'[p].pc \in {"info", "rbmeta"} /\ loc'[p].cmd = loc[p].cmd
      BY <1>1, <1>5 DEF Acquire, TypeOK
    <2>2. Status[p] = "out" /\ Contract!Inside = {}
      BY <1>1, <2>1, StatusOf, NobodyMaps
    <2>3. PICK c \in {"ensure", "restore"} : AbstractAt(p)' = c
      BY <1>1, <2>1, StatusOfNext DEF Inside, InsidePcs, OtherPcs, CommandAt
    <2>4. Contract!Enter(p, c)
      BY <1>2, <1>3, <2>2, <2>3, StatusChanges DEF Contract!Enter
    <2> QED
      BY <2>2, <2>4 DEF Contract!Next, Contract!Commands
  <1>6. CASE Collect(p)
    <2>1. loc[p].pc \in ExitPcs /\ loc'[p].pc = "idle"
      BY <1>1, <1>6 DEF Collect, Goto, TypeOK
    <2>2. Status[p] \in Contract!Statuses /\ AbstractAt(p)' = "out"
      BY <1>1, <2>1, StatusOf, StatusOfNext DEF ExitPcs, Contract!Statuses
    <2>3. Contract!Collect(p)
      BY <1>2, <1>3, <2>2, StatusChanges DEF Contract!Collect
    <2> QED
      BY <2>3 DEF Contract!Next
  <1> QED
    BY <1>4, <1>5, <1>6

\* Whatever happens to the container without the manager.
LEMMA EnvironmentMaps ==
    ASSUME IInv, IInv', ContainerRestarts \/ \E v \in Versions : ContainerRecreated(v)
    PROVE  [Contract!Next]_(Contract!vars)
  <1>1. UNCHANGED Status
    <2>1. UNCHANGED loc
      BY DEF ContainerRestarts, ContainerRecreated
    <2> QED
      BY <2>1 DEF Status, AbstractAt
  <1>2. CASE ContainerRestarts
    <2>1. UNCHANGED <<file, Recorded, excused>> /\ Running' \in BOOLEAN
      BY <1>2 DEF ContainerRestarts, Recorded, Running
    <2> QED
      BY <1>1, <2>1 DEF Contract!Next, Contract!RestartBySomebody
  <1>3. ASSUME NEW v \in Versions, ContainerRecreated(v)
        PROVE  [Contract!Next]_(Contract!vars)
    <2>1. file'.kind = "stock" /\ Running' = TRUE /\ excused' = FALSE
      BY <1>3 DEF ContainerRecreated, Stock, Running
    <2>2. Recorded' = FALSE
      <3>1. meta # Nil => meta.id <= gen /\ meta.id \in Nat
        BY DEF IInv, TypeOK, GlobalInv, MetaInv, Metadata, Gens
      <3>2. gen \in Nat /\ gen' = gen + 1 /\ meta' = meta
        BY <1>3 DEF ContainerRecreated, IInv, TypeOK, Gens
      <3> QED
        BY <3>1, <3>2 DEF Recorded
    <2> QED
      BY <1>1, <2>1, <2>2 DEF Contract!Next, Contract!Recreate
  <1> QED
    BY <1>2, <1>3

LEMMA ContractInit == Init => Contract!Init
  <1> SUFFICES ASSUME Init PROVE Contract!Init
    OBVIOUS
  <1>1. file.kind \in {"stock", "legacy"} /\ Running = TRUE /\ excused = FALSE
    BY DEF Init, Core, Running
  <1>2. Recorded \in BOOLEAN
    BY DEF Recorded
  <1>3. Status = [p \in Procs |-> "out"]
    BY DEF Init, Idle, Status, AbstractAt, ExitPcs, InsidePcs, OtherPcs, DeployPcs,
       ReplacedPcs, RollbackPcs
  <1> QED
    BY <1>1, <1>2, <1>3 DEF Contract!Init

LEMMA ContractNext == IInv /\ IInv' /\ [Next]_vars => [Contract!Next]_(Contract!vars)
  <1> SUFFICES ASSUME IInv, IInv', [Next]_vars
               PROVE  [Contract!Next]_(Contract!vars)
    OBVIOUS
  <1>1. CASE UNCHANGED vars
    BY <1>1 DEF Contract!vars, Running, Recorded, Status, AbstractAt
  <1>2. ASSUME NEW p \in Procs, Continue(p)
        PROVE  [Contract!Next]_(Contract!vars)
    BY <1>2, LooksMapAll, ReplaceMaps, RestartsMap, RollbackReplaceMaps, WriteMetadataMaps,
       MarkersMap DEF Continue
  <1>3. ASSUME NEW p \in Procs, CommandFails(p) \/ Killed(p)
        PROVE  [Contract!Next]_(Contract!vars)
    BY <1>3, FaultsMap
  <1>4. ASSUME NEW p \in Procs,
               (\E cmd \in CommandNames : Begin(p, cmd)) \/ Acquire(p) \/ Collect(p)
        PROVE  [Contract!Next]_(Contract!vars)
    BY <1>4, LifecycleMaps
  <1> QED
    BY <1>1, <1>2, <1>3, <1>4, EnvironmentMaps DEF Next

\* The manager implements its contract: a command that ends, with whatever
\* result, leaves a core that runs and that can be taken back, unless a process
\* was killed or a rollback failed in this container.
THEOREM Implements == Spec => ImplementsContract
  <1>1. Init => Contract!Init
    BY ContractInit
  <1>2. IInv /\ IInv' /\ [Next]_vars => [Contract!Next]_(Contract!vars)
    BY ContractNext
  <1> QED
    BY <1>1, <1>2, Invariance, PTL DEF Spec, ImplementsContract, Contract!Spec
=============================================================================
