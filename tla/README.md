# A TLA+ model of remnanode-xhttp-cleaner

The repository keeps a `remnanode` container (Xray core plus a Node.js control
process) from accumulating dead sessions.  It does so in two places: it patches
the Xray core so that the core releases its own XHTTP and Hysteria sessions and
its heap, and it runs a worker from outside that destroys leaked sockets of the
core.  A core manager builds, installs and takes back the patched core.

This directory models those parts in TLA+, checks them with TLC on small
instances and proves some of their properties with TLAPS.  Paths such as
`xray-core-manager.py:540` are relative to `src/`.

## 1. Inventory

| part | source | state it keeps | operations | model |
|---|---|---|---|---|
| XHTTP session reaper | `xray_patch/xhttp_cleaner_reaper.go`, hooks in `patch_xray.py:42-338` | `sessions` (sync.Map), activity time, `isFullyConnected`, queue closed, ticker, `reaperStop` | upsert, Push, connect, transfer, end of a GET; tick, check, CompareAndDelete, close; preconnect expiry; `stopXHTTPReaper` | `XhttpReaper` |
| Hysteria UDP session guard | `xray_patch/hysteria_memory_guard.go`, hooks in `patch_xray.py:372-514` | manager map, `closed`, RWMutex; per session mutex, activity time, channel | feed, read, write, close; scan, recheck; end of the connection; the configured timeout, its cap and the expiry | `HysteriaGuard`, `UdpIdleTimeout` |
| Core memory optimizer | `xray_patch/core_memory_optimizer.go` | batch counter, observed timeouts, two wake channels, two timers, time of the last forced run | record, observe; the cases of the loop's select | `MemoryReclaim` |
| Core manager | `xray-core-manager.py` | `core-manager.lock`, artifacts, backups, `deployment.json`, failure markers; the container | ensure (with and without retry, nonfatal), deploy, rollback, restore-if-patched | `CoreManager`, which implements `CoreContract` |
| External socket cleaner | `remnanode-xhttp-clean.py` (worker, netlink, container lookup, listener discovery and matching) | one sweep: owned inodes, listening ports, XHTTP listeners, candidates | dump, recheck pause, ownership refresh, exact query, `SOCK_DESTROY` | `SocketCleaner` |
| Installer, timer, uninstaller, menu | `install.sh`, `remnanode-xhttp-clean.py:920-1006`, `xhttp-cleaner-menu.sh:179-230` | unit files and timer, installed programs, configuration, state and cache directories, the lock file | install, `ensure` as `ExecStartPre`, sweep; enable, disable, update, rollback, uninstall | `Maintenance` on `CoreContract` |
| Configuration | `remnanode-xhttp-clean.py` (`Config`), `install.sh:107-171` | the JSON file | load, validate, migrate | states of the file in `Maintenance`, its choices in `SocketCleaner` |
| Source patcher | `patch_xray.py` | the text of the upstream files | exact replacements computed before the first write | not modelled; what it produces is |
| Counting, status | `remnanode-xhttp-clean.py` | none | pure functions of text | not modelled |

### How the parts interact

* The two session guards and the optimizer are compiled into one core.  The
  Hysteria guard tells the optimizer of each released session
  (`recordHysteria`) and both guards of the timeouts they use
  (`observeTimeout`); these calls are atomics and non-blocking sends, so they
  never hold the guard up.  The models meet there: `RecordAdd`/`RecordWake` and
  `ObserveTimeout`/`ObserveSend` of `MemoryReclaim` are the optimizer's side of
  those calls, by any number of callers at any time.
* The core manager touches the core only through Docker commands, addressed by
  container *name*, while the container may be restarted or recreated.
* The socket cleaner touches the core only through the kernel: it knows the
  core's sockets by inode numbers, and destroys by address tuple and cookie.
* The timer runs the core manager (`ExecStartPre`) and then the cleaner; the
  installer, the menu and the uninstaller run the same commands by hand, and
  one `flock` serialises the core manager's.  The lock is a file in the
  directory the uninstaller removes, and the flock belongs to the file, not to
  its name.  Disabling the timer does not stop a service that is active.

### What is hard here

* Check and act are separate steps nearly everywhere: idle check and
  CompareAndDelete, scan and recheck, `docker inspect` and `docker exec mv`,
  socket query and destroy.
* Names are reused: session IDs by clients, UDP ids by peers, container names
  by `docker compose`, inodes and address tuples by the kernel.
* Two-step removals (unregister, then close) by four different actors.
* Wakeups that are coalesced, stale or late, with counters taken and put back.
* Programs that share files and a lock, and remove them.
* Durations that are multiplied and added near the end of their range.
* Commands that fail, that fail after having taken effect, and processes that
  are killed between two of them.

Each of these is listed, with the line where it bites and the properties that
cover it, under `hazards` in `PROJECT.json`.

### What makes each part correct

* **Reaper**: a session is removed only for its own sake; it is unregistered
  before it is closed and never left open afterwards; idle and unconnected
  sessions go; shutdown forgets no session that existed before it.
* **Guard**: the map is exactly the set of open sessions; no send on a closed
  channel; activity near the deadline wins over the cleaner; no lock cycle; a
  session expires when its configuration says, whatever the numbers.
* **Optimizer**: no full batch and no shorter timeout is ever forgotten; an early
  run keeps its distance to the forced run before it.
* **Core manager**: a patch replaces only the stock core it was built for; it
  can always be taken back; a failure ends with the stock core running; it
  keeps its contract towards those who call it.
* **Maintenance**: all of them together keep that contract; an uninstall leaves
  nothing behind; a failed build does not cost the sweep; the configuration of
  release 3 is never used by this one.
* **Cleaner**: only idle sockets of the core are destroyed; accepted
  connections are not taken for outgoing ones, nor those of one inbound for
  those of another; an idle socket that the configuration asks to close goes in
  the end, but for those of an XHTTP inbound on `0.0.0.0` (section 3).

## 2. Modules, and how they correspond to the code

| module | role |
|---|---|
| `XhttpReaper`, `MCXhttpReaper`, `XhttpReaperProofs` | reaper; symmetry and view for TLC; theorems |
| `HysteriaGuard`, `HysteriaGuardProofs` | guard; theorems |
| `UdpIdleTimeout`, `UdpIdleTimeoutProofs` | the guard's arithmetic, with wrapping integers, and its reference; lemmas |
| `MemoryReclaim`, `MemoryReclaimProofs` | optimizer; theorems |
| `CoreContract` | what the core manager promises its callers, the abstract specification |
| `CoreManager`, `MCCoreManager`, `CoreManagerProofs` | core manager, an implementation of `CoreContract`; symmetry; theorems and the proof of the refinement |
| `Maintenance`, `MaintenanceProofs` | timer, service, installer, menu and uninstaller around `CoreContract`; theorems |
| `SocketCleaner`, `MCSocketCleaner`, `SocketCleanerProofs` | cleaner; tuples and configurations; theorems |

Definitions keep the source's names where there is one; `PROJECT.json` gives
the lines of each.  Definitions whose comment starts with "Bug:" are plausible
mistakes; none of them is part of a specification.  They exist to show that
each property notices at least one of them.

**XhttpReaper.**  One step is one atomic operation of one goroutine: a sync.Map
operation, an atomic, a channel operation.  Requests are upstream code; the
model has what the patched lines and their neighbours do.  `reapSess` and `stopSess`
are the local variables of the Range callbacks, so every window between check,
removal and close is open to all other goroutines.  The ticker buffers one tick and
drops more.  A sync.Map Range visits each key at most once, in any order, and
sees each key's value at the moment it gets there.  `late` is a history
variable: the sessions stored after the stop signal.

**HysteriaGuard.**  `wlock`/`rlock` are the manager's RWMutex, `mutex` that of
each session.  What a lock makes indivisible is one step; taking a lock and
waiting for a session's mutex while holding it are steps of their own, because that
is where a cycle would be.  `WriteBegin`/`WriteReturns` span a QUIC write that
may block.  `queue` counts the datagrams in a session's channel.

**UdpIdleTimeout.**  `Wrap` is what an int64 does with a result that does not
fit; `Largest` is its bound, and `Second`, `Minute`, `Grace`, `MinCap` and `MaxCap`
are durations in the unit of the model's clock, ordered as in the code.
`ExactAt` compares the composition of clamp, default, cap and expiry test with
integers that do not wrap.  The guard's `Timeout` is the result for the
instance's `Seconds` and `EnvCap`, so the sessions of `HysteriaGuard` expire by
these definitions; `ExpiryIsExact` quantifies over all other seconds, and all ages
at the present clock.

**MemoryReclaim.**  Time is relative (time *left* per timer, age of the last
forced run), so no clock bound is needed.  An age of `Configured` or more
stands for every older one and for "never".  `taken` is the local result of
`Swap(0)`.  `PeriodicCycle(FALSE)` and `HysteriaCycle(FALSE)` are cycles that do
nothing because the footprint is below the minimum.

**CoreManager.**  Each Docker command and each file write is a step; `loc`
holds a process's local variables.  `gen` is the container's id: recreation
makes a new one, with the same name.  `staged` is the container that has
the file of `docker cp`; `mv` in another container fails.  `quality` says how
the patch fares with a version (good, does not build, rejects the configuration,
crashes), fixed but unknown to the manager.  A *late* fault is a command
reported as failed (a timeout) after it took effect.  `home` of a binary is
history: the container it was made for.  `excused` is history too: in this
container a process was killed, a replacement was reported as failed although
it happened, or the rollback failed.  The code has no way to mend these, and
the README of the program documents the manual one; the properties that speak
of the state between commands exclude them and nothing else.  `nonfatal` is the
last look of `ensure --nonfatal`, which turns a `CoreManagerError` into success
when the stock core runs, but not a timeout, which is another exception.

**CoreContract.**  The installed core, whether the container runs it, whether the
metadata leads back, and each process's command or exit status.  No builds,
versions, files or containers: `Leave` says that a command that ends, with
whatever result, leaves a core that runs and can be taken back (or a container
marked `spoiled`), and that a restore that reports success leaves the stock
core.  `CoreManager` maps `core` to the kind of the installed binary, `running` to
"process and file agree", `recorded` to "the metadata is of this container",
`spoiled` to `excused`; everything it does before a replacement is a stutter.

**Maintenance.**  The processes are the service (started by the timer, by the
installer or the menu) and one administrator, who does one thing at a time.  A
command of the core manager is what its callers and files see of it: it opens the
lock file, waits, looks, builds, takes a backup, stages, replaces, restarts,
records, or takes back.  It keeps the contract only if those around it let it;
`KeepsContract` says they do.  `lockfile` is the inode under the lock's name and
`opened` the one a process has open: after the uninstaller has removed the
directory they differ.  `conf` tells the states of the configuration file that the
code tells apart: no file, one of release 3 (without the switch release 4
introduced), own choices, values `Config.load` refuses, and no JSON at all.
`torn` is history: an uninstall that found the service active has removed the
state; `quiet` is the opposite case.  Recreation of the container and faults of
single Docker commands are in `CoreManager` and not repeated here; a rollback
brings the stock core up.  Commands of the core manager run as this release's
code from the start, also on a host with release 3, whose own manager is not in
the repository.  `command_install` stops at an invalid configuration or a container
that does not run (`InstallUnits`); an install killed anywhere is `AdminKilled`.

**SocketCleaner.**  A socket is a kernel cookie.  Each system call of the worker is a
step, with the kernel free to move between any two.  Other processes of the container
have outgoing connections only; the core removes and adds inbounds at any moment, and
`reopened` is history, the ports it has added since the worker read its descriptors; the
configuration is fixed per behaviour and may be any of `Configs`.  Candidates are taken
in any order (the code sorts them; no property depends on it).  Answers that come late
are dropped by sequence number in the code and so are not modelled.  A core that
vanishes is a failed read (`ReadFails`), and so is an error of the kernel other than "no
such socket".  A query that finds the socket in another state, and one that finds
nothing, both skip the candidate.  Sockets open in the order of their cookies and the
first inode used is fixed: both are alike until then.

An inbound of the rendered configuration has a network, a port, an address and
may be on a unix socket; `parse_xhttp_listeners` picks the TCP ones of XHTTP, and
`xhttp_listener_matches` compares an address `[version, ip]`, where version 6 with
an IPv4 `ip` is its mapped form.  Which inbound accepted a connection is a fact of
the kernel (`by` of a tuple) that the code must infer.  `TupleAssumption` says what
the kernel reports: a listener on one address has connections with that address;
Go opens both wildcards as dual-stack IPv6 sockets (where the kernel has IPv6),
whose IPv4 connections are mapped.  `loopback` of a tuple is what `is_loopback`
says.  For a mapped loopback address that depends on Python: 3.13 and later say
yes, earlier versions no, so there `exclude_loopback` does not protect a dual-stack
listener's local connections; the model takes either.

## 3. What is checked

| run | states it explores | what it shows |
|---|---|---|
| `xhttp_safety` | one ID used by two sessions in turn, two requests, the whole shutdown | removals are justified; no dead session is registered; no young one is held; shutdown leaves late ones only |
| `xhttp_live` | one session, two requests, fairness | idle and unconnected sessions leave the map; whatever leaves is closed |
| `hysteria` | one id, two sessions, two users | map = open sessions; no send on a closed channel; activity wins; no close during a write; no lock cycle; inactive sessions go; the cleaner ends |
| `reclaim` | two recorders, one observer, a batch of two, two timeouts | no lost wakeup, no lost timeout, cooldown; a batch is collected and a timeout takes effect |
| `core` | timer and one other process, two versions, one recreation, two faults | patch replaces its stock; rollback is possible; failures leave stock; the manager implements its contract |
| `core_live` | the same with fairness, one fault | commands end; ensure converges to a patched core or a failure marker |
| `socket` | two sockets, three tuples, two inodes, inbounds that come and go, one fault, fairness | only idle core sockets go; accepted ones of other inbounds are protected; what is to be closed is closed |
| `maintenance` | a host without the program or with release 3, any sequence of the administrator's commands and edits, one uninstall beside other lock files, one kill or timeout | the contract is kept; a quiet uninstall is clean; sweeps use a migrated configuration; sweeps go on |

`hysteria` also checks the arithmetic, for all seconds and ages of a 15-value
duration.

### Where the program's documentation says more than the code does

Four runs end in a counterexample on purpose; each states a sentence of the
repository's documentation or comments.

* `hysteria_blocking` / `WriteBlocksOnlyItsSession`.  The comment at
  `patch_xray.py:402` says the per-session mutex never blocks unrelated
  sessions.  The cleaner waits for it under the manager lock, and the feeder
  waits for the cleaner.
* `core_injected` / `NoOldBinaryInjected`.  `README.md:246`: an old binary is
  never carried over to a recreated container.  `rollback_binary` compares the
  id and then copies by name.
* `socket_wildcard` / `DualStackLeaksAreClosed`.  The comment at
  `remnanode-xhttp-clean.py:434` says that IPv4 connections of a dual-stack listener
  have mapped addresses, which `xhttp_listener_matches` is to recognise.  For an
  unspecified listen address the function compares IP versions instead (line 429).
  Go's listener on `0.0.0.0` is dual-stack, all its connections are reported as
  IPv6, and none is recognised: they count as plain inbound sockets and, unless
  `include_inbound` is on, are never closed.  An inbound on `::` or without an
  address is recognised; the branch the comment explains is reached only for a
  listener on one IPv4 address, whose connections are not mapped.
* `uninstall_race` / `MetadataOutlivesPatch`.  The comment at
  `remnanode-xhttp-clean.py:989`: rollback metadata is not removed while a
  patched binary is in the container.  A service that was active when uninstall
  disabled the timer has its `ensure` wait for the lock; once the uninstaller's
  restore has released it, that `ensure` patches the core again, and the
  uninstaller removes metadata, backup and lock file under it.  The container is
  left with a patched core and no way back but to recreate it.  TLC's trace starts
  from a host with release 3, but the race needs nothing of it: the service is
  waiting when the uninstaller restores, with this release as well.

Three sentences of the README are stronger than the code in a narrower way, and no run
is spent on them. `README.md:337`, an active stream is never released as old: payload
that arrives between the reaper's check (`xhttp_cleaner_reaper.go:73`) and its
CompareAndDelete does not save the session, nor does a GET that connects between the
expiry's check (`xhttp_cleaner_reaper.go:83`) and its own; what holds is
`RemovalJustified`.  `README.md:58`, an early run only after a whole batch: a periodic
cycle takes the batch while the grace timer runs, and the early run starts for whatever
came since.  `README.md:277`, by default inbound and loopback sockets are not touched:
the `CLOSE_WAIT` branch of `candidate_kind` (line 462) comes before those tests, so an
idle one whose peer has closed goes, as its comment explains; hence
`AcceptedAreProtected` speaks of established connections.

### Bounds, and why they are enough

* **Pointers and IDs**: one ID with two pointers is the reuse every hazard of
  the reaper and the guard needs: the old owner, the new one, and a third
  goroutine that holds the old.  Requests and users: two, so that one can act
  inside the other's window.
* **`MaxTime`**: the clock stops there, which stands for "then or later" (the
  ticker goes on firing).  Timeouts of 1 and a grace of 1 leave room before,
  at and after each boundary.  New XHTTP sessions need room for their preconnect
  timer, hence that guard in `UpsertMiss`.
* **`ChanSize` 1**: full and empty are the two cases.  With all pointers of
  `Conns` used up a datagram for an unknown id is lost (`FeedLost`).
* **`MaxPending`** (3, a batch of 2): a batch, one more, and sessions that
  arrive while others are taken.
* **`MaxGen` 2, `MaxFaults` 2**: a recreation between any two commands; a fault and
  a fault of the recovery from it.
* **`Idle` 2, `Recheck` 1**: the recheck is shorter than the idle time, as
  `Config.validate` guarantees (at least 300 s, against 30 s).
* In `socket` four inbounds share a port: XHTTP on `::`, on one IPv4 address and on
  a unix socket, and a raw one on another IPv4 address (one port on several addresses
  at once needs `SO_REUSEPORT`).  The connections are one of a local proxy to `::`,
  in mapped form, so that the address to match is not the listener's own and the
  exemption of loopback must not apply; one of the raw inbound, which must match no
  listener; and outgoing ones, of the core or of another process.  The configuration
  has both fallback modes.
* **`Largest` 14, `Second` 2, `Minute` 5, `Grace` 1, `MaxCap` 9**: room for products
  that wrap, for a minute, for every cap, and for timeouts beyond the largest
  duration; the theorem covers the real values.
* **`MaxLocks` 2**: the lock file from before the uninstall, and the one an `ensure`
  creates after it.  **`MaxFaults` 1** in `maintenance`: one kill of the
  administrator's shell or one timeout; the menu may stop the service at any
  moment besides.
* `xhttp_safety` uses symmetry on pointers and requests and a view that forgets
  times nobody can read any more; `core` uses symmetry on versions.  Runs with
  liveness use neither.

`CHECK_DEADLOCK FALSE` stands in the reaper's and the guard's configurations:
all goroutines may have ended and all pointers be used up, with the clock at its
bound.

### Fairness

* **XhttpReaper**: weak fairness of the clock and of the cleaner's goroutines.
  Clients owe nothing; of a request only its deferred removal is sure to run.
* **HysteriaGuard**: strong fairness of whoever waits for a lock.  Go's mutexes
  starve nobody: a waiter of a `Mutex` gets it after a millisecond, a waiting
  writer of an `RWMutex` keeps new readers out.  A write returns sooner or later
  because the QUIC connection has an idle timeout of its own.
* **MemoryReclaim**: weak fairness of the clock and of the loop between two
  selects, strong fairness of the wake, config and reclaim cases, because a select
  chooses among ready cases at random.  Nothing is assumed of the periodic
  case, so `BatchIsCollected` does not rest on it.
* **CoreManager**: weak fairness of the timer's next `ensure` and of each step of a
  process under the lock (builds, tests, the validation and restarts have timeouts;
  short commands such as `docker cp`, `exec` and `inspect` have none and are taken to
  return), strong fairness of taking the `flock`.
* **Maintenance**: weak fairness of the timer (every five minutes), of the service
  and of the administrator's programs once begun, strong fairness of taking the
  `flock`.  Nobody owes a new command, an edit or a fault.  `SweepsGoOn` excuses
  what the code cannot mend by itself (`Stuck`): a legacy patch without a way back,
  a stock core that is down, a configuration that does not load.
* **SocketCleaner**: weak fairness of the clock, the timer and the worker.
  `MaxFaults` bounds the failures; with failures for ever no sweep would end.

## 4. What is proved

The theorems hold for every value of the constants that satisfies the
assumptions named in the modules: any number of IDs, sessions, requests and
reporters, processes, versions, containers, sockets and faults, any durations.
Every invariant and action property of a passing run is stated by a theorem, and
so are both refinements, `ImplementsContract` and `KeepsContract`.  Each
inductive invariant was first checked by TLC with the constants of its run.

**`XhttpReaperProofs`.**  `Invariance` is `Spec => []IInv`; the others follow
from it.  `IInv` consists of

* `TypeOK`;
* `KeyInv`: a session is registered under the ID it was created for.
  CompareAndDelete uses that ID, so it removes its own session or nothing;
* `AllocInv`: whoever works on a session works on an allocated one, and
  only allocated sessions are closed;
* `ClosingInv`: whoever is about to close a queue has unregistered its session.
  It stays unregistered (`UnregisteredForGood`), since pointers are never stored
  twice, and this makes `RegisteredIsOpen` inductive;
* `TimeInv`: no time lies in the future and none before a session's creation;
* `FoundInv`: what the reaper and an expiry goroutine found remains true, but
  for payload after the check.  `ReaperHoldsOnlyOld` and `RemovalJustified` need
  it, because both speak of a moment later than the check;
* `StopInv`: while shutdown runs, the sessions from before are those its Range
  has still to visit or is visiting.

`MapChanges` is the lemma that keeps the proofs short: every step leaves the
map alone, adds one session, or compares and deletes one.

**`HysteriaGuardProofs`.**  Again one `IInv`.  Its core is `LockInv`, which ties each
lock to the control state of the goroutine that holds it: two goroutines cannot both be
in their critical sections.  With `MapInv` (a registered session is registered under its
own id) it makes `OpenIffRegistered` inductive, and from it follow `NoSendOnClosed`
(nobody can close while the feeder is between lookup and send) and `ClosedIsDrained`
(nobody can fill a closed channel). `ActivityWins` needs that the cleaner's time is not
in the future, since recheck and close are under both locks, and that timeout and grace
do not overflow (`ExpiredIsOld`).  `LocksAreOrdered` is the part of deadlock freedom
that is safety: with `MutexInv` (a session's mutex is held by a user inside its Write) a
chain of goroutines that wait for each other has at most two links, whatever the number
of users, so it is no cycle; that the last one goes on is left to the liveness
properties.  The theorems on `ClosedIsDrained` and `ManagerCloseReleasesAll` are proved
and not run separately.  `SessionChanges` plays the part of `MapChanges`.

**`UdpIdleTimeoutProofs`.**  `MaximumSecondsFit`: the clamp is the largest number of
seconds whose product leaves room for the grace, since division rounds down.
`TimeoutFits`, by cases (none configured, up to the clamp, beyond it): the
timeout is the meant one or loses less than a second.  `ExactForAll` adds the
expiry test.  `ExpiryExact` in `HysteriaGuardProofs` follows for every state, from
`DurationAssumption` alone: the real constants satisfy it (a cap of at most
ten minutes, a minute and a grace of 30 s against 292 years).

**`MemoryReclaimProofs`.**  Each property has its own strengthening on top of
`TypeCorrect`.  `WakeupNeverLost` is inductive by itself.  `ConfigNeverLost`
adds what the interval about to be armed promises: it suits the shortest timeout
or a change is on its way (a reported timeout that arrives between snapshot and
reset has left its token).  `EarlyRunCoolsDown` needs `IntervalMonotone`: a
shorter timeout never lengthens the interval, so a check made against an older
snapshot remains valid.

**`CoreManagerProofs`.**  `IInv` has a part for what is global and one for each
process:

* `LockInv`: a process is past the lock exactly if it holds it, so that only one
  process works (`OneInside`);
* `CommandInv`: which commands get to which step; only a deployment reaches a
  replacement and the rollback of one;
* `KeyInv`: the container a command has read is this one or an earlier one,
  never a later one, and metadata of this container is never met by a command that
  works on an earlier one.  It is what makes writing `deployment.json` at the
  end of a deployment safe: what it overwrites is not needed;
* `DeployInv`, `ReplacedInv`, `RollingInv`: what a deployment or a rollback has found
  out about the container *remains true or the container is another one*.
  All of the checks of the code have this form, and `PatchReplacesItsStock` needs
  it up to `mv`, where the staged file decides (`staged = id`): a copy made into a
  container that has been recreated since is gone with it;
* `SettledInv`, `FreeInv`: where no replacement is under way, the process and the file
  agree and a patched core has its metadata, or the container is `excused`;
* `MetaInv`, `BackupInv`, `RunningInv`: metadata leads to the stock core of its
  version; no backup is ever a patched core; a patched core that runs comes up
  again when its container restarts.

The proof has one step per action.  `Goto`, `Exit`, `Fail` and `Raise` have
lemmas of their own on what they do to local state and which parts of `IInv`
survive them, because nearly every action ends in one of them.

`Implements` is the refinement.  `InsideMaps` and `NobodyMaps` say where the
abstract program counter is; `LooksMap` that everything before a replacement is a
stutter; `ReplaceMaps` that `mv` is `Replace` of the contract;
`RollbackReplaceMaps` and `WriteMetadataMaps` treat the two steps after which the
manager may be interrupted; `EnvironmentMaps` maps restarts and
recreations, a recreation to the contract's loss of patch and metadata at once.
The proof found one error in the model: `AbstractAt` was a CASE with guards that
overlapped.  TLC takes the first one that holds; the logic does not say which.
The guards are disjoint now, with the meaning TLC had given them.  It also asks
that `Nil` is no process, version, binary or metadata (`NilAssumption`).

**`MaintenanceProofs`.**  `IInv` says of each process whether it is inside the lock
and with which command (`ControlInv`), that the manager outlives the cleaner
while files are installed and removed (`FilesInv`), that release 3 and its choices
go together (`MigrationInv`), what a quiet uninstall has achieved after each of
its steps (`QuietInv`), and the contract: as long as nothing is `torn`, whoever
waits or works has the lock file that is there open, so flocks exclude each
other (`ContractInv`).  This last part is conditional because it fails
otherwise, which is what the run `uninstall_race` shows; `QuietInv` does not
depend on it.  `InodesInv` is about the bound `MaxLocks` alone.
`HostKeepsContract` maps each step that does not tear the state to one step of
`CoreContract`.

**`SocketCleanerProofs`.**  `OnlyCoreSockets` rests on two facts.  Live sockets have
different inodes (`InodeInv`); and a candidate was alive *before* the second reading
of the core's inodes (`CandidateInv`), so if its inode is among those read and it
is still alive, it is the core's, though the inode may since have passed to other
sockets.  `CurrentInv` carries this from the exact query to the destruction.
`IdleSocketsOnly` allows data after the query, and nothing else (`touched`).

`AcceptedStay` has a hypothesis, `AddressesTell`: no XHTTP listener matches
a connection that another inbound has accepted.  The code compares addresses and
ports only; `0.0.0.0` and `::` match any address of their version.  Were an
XHTTP inbound on `0.0.0.0` and another one on one address of the same host with the
same port, which Linux allows only if both set `SO_REUSEPORT`, the cleaner would take
the connections of the second for those of the first.  The instance of the run
has inbounds on one port of different addresses and satisfies it.
`PortsInv` completes the argument: the ports read in a sweep include all that are
listening and have been since, if the sweep is one that asks for them.  A port that
opens later is missing among them, so the property exempts it (`reopened`): until the
next sweep the connections on it count as outgoing.

**Only model-checked**: all liveness properties (fairness and ENABLED are out of
the prover's reach), and that the four sentences of the documentation do not hold,
which a counterexample shows.

## 5. What is not modelled

* The text side of the patcher (which anchors a release of Xray has is data; it
  replaces all or nothing before it writes), the transport counts, the status
  and diagnostics output and the menu's dashboard: pure functions or output, no
  state of their own.
* Limits of the optimizer derived from cgroups and environment and the walk over
  the configuration: computation without concurrency; the model starts from the
  resulting values.
* Of the installer: the checks before its first change, packages, and the copy of
  single files.  An install that stops anywhere is `AdminKilled`.
* The client side of the Hysteria session manager, and the change of the default
  buffer size (`patch_xray.py:341-369`), a constant.
* A core manager killed between `mv` and its metadata leaves a patched core
  without metadata.  `CoreManager` has the kill (`Killed`) and the state after it,
  and marks it `excused`; the program's README describes the manual way out
  (recreate the container).

## 6. Plan

Done, in the order of importance: (1) `XhttpReaper` with proofs, (2)
`HysteriaGuard` with proofs, (3) `MemoryReclaim` with proofs, (4) `CoreManager`, (5)
`SocketCleaner`, (6) `CoreContract` and the refinement, (7) `Maintenance` on it, (8)
`UdpIdleTimeout` with proofs, (9) listeners and addresses in `SocketCleaner`, (10)
proofs about `CoreManager` with the refinement of `CoreContract`, (11) about
`Maintenance`, (12) about `SocketCleaner`, (13) inbounds that come and go, and
dual-stack listeners, in `SocketCleaner`.

Next:

1. `SessionStore`, an abstract registry of sessions with unique owners: what both
   `XhttpReaper` and `HysteriaGuard` promise to whoever looks a session up, with
   the refinements checked and proved.
