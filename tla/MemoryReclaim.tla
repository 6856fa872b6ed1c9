--------------------------- MODULE MemoryReclaim ---------------------------
(***************************************************************************)
(* The memory optimizer of the patched Xray core                           *)
(* (src/xray_patch/core_memory_optimizer.go): the tracker that transports  *)
(* report released UDP sessions and observed timeouts to, and the one      *)
(* goroutine that decides when to call runtime.GC and debug.FreeOSMemory.  *)
(*                                                                         *)
(* Time is relative: each timer holds the time left, `sinceForced' the age *)
(* of the last forced run, so the clock needs no bound.  An age of         *)
(* Configured or more is past every cooldown and stands for "never" too.   *)
(***************************************************************************)
EXTENDS Integers, FiniteSets

CONSTANTS
    Recorders,   \* goroutines that report released sessions
    Observers,   \* goroutines that report timeouts
    Names,       \* names of observed timeouts
    Timeouts,    \* the timeouts they may report
    Configured,  \* config.interval
    Floor,       \* memoryOptimizerAdaptiveFloor
    Grace,       \* memoryOptimizerActivityGrace
    Batch,       \* tracker.batch
    MaxPending,  \* bound on the sessions pending or taken
    Prompt       \* the loop serves ready cases before any time passes

ASSUME OptimizerAssumption ==
    /\ Timeouts \subseteq Nat \ {0}
    /\ Configured \in Nat \ {0}
    /\ Floor \in Nat \ {0}
    /\ Grace \in Nat \ {0}
    /\ Batch \in Nat \ {0}
    /\ MaxPending \in Nat
    /\ Prompt \in BOOLEAN

VARIABLES
    pending,       \* tracker.pendingSessions
    wake,          \* a token in tracker.wake (capacity 1)
    recorder,      \* pc of each recorder
    timeouts,      \* tracker.timeouts, 0 for an unknown name
    configChanged, \* a token in tracker.configChanged (capacity 1)
    observer,      \* pc of each observer
    loop,          \* pc of runMemoryOptimizerLoop
    interval,      \* the interval the loop is about to arm `periodic' with
    periodic,      \* time left of the periodic timer
    reclaim,       \* time left of the reclaim timer, -1 when reclaimC is nil
    taken,         \* sessions the loop has taken out of `pending'
    sinceForced    \* age of the last forced run, at most Configured

trackerVars == <<pending, wake, recorder>>
configVars  == <<timeouts, configChanged, observer>>
timerVars   == <<periodic, reclaim>>
vars == <<trackerVars, configVars, loop, interval, timerVars, taken, sinceForced>>

Reported == {n \in Names : timeouts[n] # 0}

\* timeoutSnapshot: the shortest observed timeout, 0 when there is none.
IsShortest(t) ==
    \/ Reported = {} /\ t = 0
    \/ /\ \E n \in Reported : t = timeouts[n]
       /\ \A n \in Reported : t <= timeouts[n]

AdaptiveInterval(shortest) ==
    LET raw       == shortest \div 2 + Grace
        candidate == IF raw < Floor THEN Floor ELSE raw
    IN  IF shortest <= 0 \/ candidate > Configured THEN Configured ELSE candidate

TypeOK ==
    /\ pending \in Nat
    /\ wake \in BOOLEAN
    /\ recorder \in [Recorders -> {"idle", "send"}]
    /\ timeouts \in [Names -> Timeouts \cup {0}]
    /\ configChanged \in BOOLEAN
    /\ observer \in [Observers -> {"idle", "send"}]
    /\ loop \in {"select", "wake", "config", "periodic", "take", "rearm",
                 "reset", "reclaim", "decide", "hysteria"}
    /\ interval \in 0..Configured
    /\ periodic \in 0..Configured
    /\ reclaim \in Nat \cup {-1}
    /\ taken \in Nat
    /\ sinceForced \in 0..Configured

Init ==
    /\ pending = 0
    /\ wake = FALSE
    /\ recorder = [r \in Recorders |-> "idle"]
    /\ timeouts = [n \in Names |-> 0]
    /\ configChanged = FALSE
    /\ observer = [o \in Observers |-> "idle"]
    /\ loop = "select"
    /\ interval = 0
    /\ periodic = Configured
    /\ reclaim = -1
    /\ taken = 0
    /\ sinceForced = Configured

Ready == wake \/ configChanged \/ periodic = 0 \/ reclaim = 0

\* With Prompt, time passes only while the loop has nothing to do or collects.
Tick ==
    /\ Prompt => loop \in {"periodic", "hysteria"} \/ (loop = "select" /\ ~Ready)
    /\ periodic' = IF periodic > 0 THEN periodic - 1 ELSE 0
    /\ reclaim' = IF reclaim > 0 THEN reclaim - 1 ELSE reclaim
    /\ sinceForced' = IF sinceForced < Configured THEN sinceForced + 1
                      ELSE sinceForced
    /\ UNCHANGED <<trackerVars, configVars, loop, interval, taken>>

-----------------------------------------------------------------------------
(* recordHysteria: an atomic Add, then a non-blocking send.                *)

RecordAdd(r) ==
    /\ recorder[r] = "idle"
    /\ pending + taken < MaxPending
    /\ pending' = pending + 1
    /\ recorder' = [recorder EXCEPT
                      ![r] = IF pending' >= Batch THEN "send" ELSE "idle"]
    /\ UNCHANGED <<wake, configVars, loop, interval, timerVars, taken,
                   sinceForced>>

RecordWake(r) ==
    /\ recorder[r] = "send"
    /\ wake' = TRUE
    /\ recorder' = [recorder EXCEPT ![r] = "idle"]
    /\ UNCHANGED <<pending, configVars, loop, interval, timerVars, taken,
                   sinceForced>>

(* observeTimeout: the shortest value per name, then a non-blocking send.  *)

(* An operator marked "Bug:" is a plausible mistake in the code; it replaces *)
(* the definition after it only to show that some property notices.        *)

\* Bug: only a new name is announced.
ObserveSilently(o, n, t) ==
    /\ observer[o] = "idle"
    /\ timeouts[n] = 0 \/ t < timeouts[n]
    /\ timeouts' = [timeouts EXCEPT ![n] = t]
    /\ observer' = [observer EXCEPT ![o] = IF timeouts[n] = 0 THEN "send" ELSE @]
    /\ UNCHANGED <<trackerVars, configChanged, loop, interval, timerVars,
                   taken, sinceForced>>

ObserveTimeout(o, n, t) ==
    /\ observer[o] = "idle"
    /\ timeouts[n] = 0 \/ t < timeouts[n]
    /\ timeouts' = [timeouts EXCEPT ![n] = t]
    /\ observer' = [observer EXCEPT ![o] = "send"]
    /\ UNCHANGED <<trackerVars, configChanged, loop, interval, timerVars,
                   taken, sinceForced>>

ObserveSend(o) ==
    /\ observer[o] = "send"
    /\ configChanged' = TRUE
    /\ observer' = [observer EXCEPT ![o] = "idle"]
    /\ UNCHANGED <<trackerVars, timeouts, loop, interval, timerVars, taken,
                   sinceForced>>

-----------------------------------------------------------------------------
(* runMemoryOptimizerLoop: the cases of its select.                        *)

PeriodicFires ==
    /\ loop = "select"
    /\ periodic = 0
    /\ loop' = "periodic"
    /\ UNCHANGED <<trackerVars, configVars, interval, timerVars, taken,
                   sinceForced>>

\* runMemoryOptimizerCycle runs, or the footprint is below the minimum.
PeriodicCycle(ran) ==
    /\ loop = "periodic"
    /\ loop' = IF ran THEN "take" ELSE "rearm"
    /\ sinceForced' = IF ran THEN 0 ELSE sinceForced
    /\ UNCHANGED <<trackerVars, configVars, interval, timerVars, taken>>

PeriodicTake ==
    /\ loop = "take"
    /\ pending' = 0
    /\ loop' = "rearm"
    /\ UNCHANGED <<wake, recorder, configVars, interval, timerVars, taken,
                   sinceForced>>

\* Bug: the token is received and nothing done.
ConfigIgnored ==
    /\ loop = "select"
    /\ configChanged
    /\ configChanged' = FALSE
    /\ UNCHANGED <<trackerVars, timeouts, observer, loop, interval, timerVars,
                   taken, sinceForced>>

ConfigReceive ==
    /\ loop = "select"
    /\ configChanged
    /\ configChanged' = FALSE
    /\ loop' = "config"
    /\ UNCHANGED <<trackerVars, timeouts, observer, interval, timerVars, taken,
                   sinceForced>>

\* Both the periodic and the configChanged case: take a snapshot ...
Snapshot ==
    /\ loop \in {"rearm", "config"}
    /\ \E t \in Timeouts \cup {0} :
          IsShortest(t) /\ interval' = AdaptiveInterval(t)
    /\ loop' = "reset"
    /\ UNCHANGED <<trackerVars, configVars, timerVars, taken, sinceForced>>

\* ... and arm the periodic timer, which drains an expiry nobody has read.
ResetPeriodic ==
    /\ loop = "reset"
    /\ periodic' = interval
    /\ interval' = 0
    /\ loop' = "select"
    /\ UNCHANGED <<trackerVars, configVars, reclaim, taken, sinceForced>>

WakeReceive ==
    /\ loop = "select"
    /\ wake
    /\ wake' = FALSE
    /\ loop' = "wake"
    /\ UNCHANGED <<pending, recorder, configVars, interval, timerVars, taken,
                   sinceForced>>

\* A stale or repeated wakeup is ignored, otherwise the grace timer starts.
WakeCheck ==
    /\ loop = "wake"
    /\ reclaim' = IF pending < Batch \/ reclaim # -1 THEN reclaim ELSE Grace
    /\ loop' = "select"
    /\ UNCHANGED <<trackerVars, configVars, interval, periodic, taken,
                   sinceForced>>

ReclaimFires ==
    /\ loop = "select"
    /\ reclaim = 0
    /\ reclaim' = -1
    /\ loop' = "reclaim"
    /\ UNCHANGED <<trackerVars, configVars, interval, periodic, taken,
                   sinceForced>>

ReclaimTake ==
    /\ loop = "reclaim"
    /\ taken' = pending
    /\ pending' = 0
    /\ loop' = IF pending = 0 THEN "select" ELSE "decide"
    /\ UNCHANGED <<wake, recorder, configVars, interval, timerVars,
                   sinceForced>>

\* Bug: the remaining time is not looked at before it is used.
PostponeUnchecked ==
    /\ loop = "decide"
    /\ \E t \in Timeouts \cup {0} :
          IsShortest(t) /\ reclaim' = AdaptiveInterval(t) - sinceForced
    /\ pending' = pending + taken
    /\ taken' = 0
    /\ loop' = "select"
    /\ UNCHANGED <<wake, recorder, configVars, interval, periodic,
                   sinceForced>>

\* Bug: the sessions are put back, the timer is not armed.
PostponeForGood ==
    /\ loop = "decide"
    /\ \E t \in Timeouts \cup {0} :
          IsShortest(t) /\ sinceForced < AdaptiveInterval(t)
    /\ pending' = pending + taken
    /\ taken' = 0
    /\ loop' = "select"
    /\ UNCHANGED <<wake, recorder, configVars, interval, timerVars,
                   sinceForced>>

\* Bug: the sessions are not put back.
PostponeDrops ==
    /\ loop = "decide"
    /\ \E t \in Timeouts \cup {0} :
          /\ IsShortest(t)
          /\ sinceForced < AdaptiveInterval(t)
          /\ reclaim' = AdaptiveInterval(t) - sinceForced
    /\ taken' = 0
    /\ loop' = "select"
    /\ UNCHANGED <<trackerVars, configVars, interval, periodic, sinceForced>>

\* Within the cooldown: put the sessions back and wait for what remains of it.
ReclaimPostpone ==
    /\ loop = "decide"
    /\ \E t \in Timeouts \cup {0} :
          /\ IsShortest(t)
          /\ sinceForced < AdaptiveInterval(t)
          /\ reclaim' = AdaptiveInterval(t) - sinceForced
    /\ pending' = pending + taken
    /\ taken' = 0
    /\ loop' = "select"
    /\ UNCHANGED <<wake, recorder, configVars, interval, periodic,
                   sinceForced>>

\* Bug: no cooldown.
DecideAtOnce ==
    /\ loop = "decide"
    /\ loop' = "hysteria"
    /\ UNCHANGED <<trackerVars, configVars, interval, timerVars, taken,
                   sinceForced>>

ReclaimDecide ==
    /\ loop = "decide"
    /\ \E t \in Timeouts \cup {0} :
          IsShortest(t) /\ sinceForced >= AdaptiveInterval(t)
    /\ loop' = "hysteria"
    /\ UNCHANGED <<trackerVars, configVars, interval, timerVars, taken,
                   sinceForced>>

\* The cycle; its result is ignored, the taken sessions are forgotten.
HysteriaCycle(ran) ==
    /\ loop = "hysteria"
    /\ sinceForced' = IF ran THEN 0 ELSE sinceForced
    /\ taken' = 0
    /\ loop' = "select"
    /\ UNCHANGED <<trackerVars, configVars, interval, timerVars>>

LoopContinues ==
    \/ \E ran \in BOOLEAN : PeriodicCycle(ran) \/ HysteriaCycle(ran)
    \/ PeriodicTake \/ Snapshot \/ ResetPeriodic \/ WakeCheck
    \/ ReclaimTake \/ ReclaimPostpone \/ ReclaimDecide

Next ==
    \/ Tick
    \/ \E r \in Recorders : RecordAdd(r) \/ RecordWake(r)
    \/ \E o \in Observers :
          ObserveSend(o) \/ \E n \in Names, t \in Timeouts : ObserveTimeout(o, n, t)
    \/ PeriodicFires \/ ConfigReceive \/ WakeReceive \/ ReclaimFires
    \/ LoopContinues

Spec == Init /\ [][Next]_vars

(***************************************************************************)
(* Time passes and goroutines run.  A select with several ready cases      *)
(* picks one at random, hence strong fairness of the cases that early      *)
(* reclaim needs.  Nothing is assumed of the periodic timer: a batch must  *)
(* not depend on it.                                                       *)
(***************************************************************************)
Fairness ==
    /\ WF_vars(Tick)
    /\ WF_vars(LoopContinues)
    /\ SF_vars(WakeReceive)
    /\ SF_vars(ReclaimFires)
    /\ SF_vars(ConfigReceive)
    /\ \A r \in Recorders : WF_vars(RecordWake(r))
    /\ \A o \in Observers : WF_vars(ObserveSend(o))

FairSpec == Spec /\ Fairness

-----------------------------------------------------------------------------
(* Safety.                                                                 *)

\* No lost wakeup: as long as a full batch is pending, somebody is bound to
\* deal with it.  Tokens are coalesced, stale ones ignored and sessions taken
\* and put back, all without a lock.
NoLostWakeup ==
    pending >= Batch =>
        \/ wake
        \/ reclaim # -1
        \/ loop \in {"wake", "reclaim"}
        \/ \E r \in Recorders : recorder[r] = "send"

\* No lost configuration: the periodic timer never waits for longer than the
\* shortest observed timeout asks for, unless the change is still on its way.
NoLostConfig ==
    \A t \in Timeouts \cup {0} : IsShortest(t) =>
        \/ periodic <= AdaptiveInterval(t)
        \/ configChanged
        \/ loop \in {"periodic", "take", "rearm", "config", "reset"}
        \/ \E o \in Observers : observer[o] = "send"

\* An early run never comes closer to any other forced run than the cooldown,
\* although the timeout it depends on may change between check and run.
HysteriaRunCoolsDown ==
    loop = "hysteria" =>
        \A t \in Timeouts \cup {0} :
            IsShortest(t) => sinceForced >= AdaptiveInterval(t)

(* Liveness.                                                               *)

\* A full batch leads to a collection (early, or by the periodic timer),
\* without the help of the periodic timer.
BatchIsCollected ==
    (pending >= Batch) ~> (loop \in {"hysteria", "take"})

\* A reported timeout takes effect on the periodic timer.
ConfigTakesEffect == configChanged ~> (loop = "reset")

=============================================================================
