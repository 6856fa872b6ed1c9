------------------------ MODULE MemoryReclaimProofs ------------------------
(***************************************************************************)
(* Theorems about MemoryReclaim, for any number of recorders, observers    *)
(* and names, any batch and any timeouts.                                  *)
(***************************************************************************)
EXTENDS MemoryReclaim, TLAPS

USE DEF vars, trackerVars, configVars, timerVars

LEMMA TimeoutType == \A t \in Timeouts \cup {0} : t \in Nat
  BY OptimizerAssumption

\* The interval never exceeds the configured one.
LEMMA IntervalType ==
    ASSUME NEW t \in Timeouts \cup {0}
    PROVE  AdaptiveInterval(t) \in 1..Configured
  BY OptimizerAssumption DEF AdaptiveInterval

\* A shorter timeout never makes the interval longer; a timeout where there was
\* none never does either.
LEMMA IntervalMonotone ==
    ASSUME NEW s \in Timeouts \cup {0}, NEW t \in Timeouts \cup {0},
           (s <= t /\ s # 0) \/ t = 0
    PROVE  AdaptiveInterval(s) <= AdaptiveInterval(t)
  <1>1. CASE t = 0
    BY <1>1, IntervalType, OptimizerAssumption DEF AdaptiveInterval
  <1>2. CASE s <= t /\ s # 0
    <2>1. s \in Nat /\ t \in Nat /\ s \div 2 <= t \div 2
      BY <1>2, OptimizerAssumption
    <2>2. s \div 2 \in Nat /\ t \div 2 \in Nat /\ s > 0 /\ t > 0
      BY <1>2, <2>1
    <2> QED
      BY <2>1, <2>2, OptimizerAssumption DEF AdaptiveInterval
  <1> QED
    BY <1>1, <1>2

-----------------------------------------------------------------------------

\* Every step preserves the types.
LEMMA TypeStep ==
    ASSUME TypeOK, [Next]_vars
    PROVE  TypeOK'
  <1> USE OptimizerAssumption DEF TypeOK
  <1>1. CASE Tick
    <2>1. periodic' \in 0..Configured
      BY <1>1 DEF Tick
    <2>2. sinceForced' \in 0..Configured
      BY <1>1 DEF Tick
    <2>3. reclaim' \in Nat \cup {-1}
      BY <1>1 DEF Tick
    <2> QED
      BY <1>1, <2>1, <2>2, <2>3 DEF Tick
  <1>2. ASSUME NEW r \in Recorders, RecordAdd(r) \/ RecordWake(r)
        PROVE  TypeOK'
    <2>1. recorder' \in [Recorders -> {"idle", "send"}]
      BY <1>2 DEF RecordAdd, RecordWake
    <2>2. pending' \in Nat
      BY <1>2 DEF RecordAdd, RecordWake
    <2> QED
      BY <1>2, <2>1, <2>2 DEF RecordAdd, RecordWake
  <1>3. ASSUME NEW o \in Observers, NEW n \in Names, NEW t \in Timeouts,
               ObserveTimeout(o, n, t)
        PROVE  TypeOK'
    BY <1>3 DEF ObserveTimeout
  <1>4. ASSUME NEW o \in Observers, ObserveSend(o)
        PROVE  TypeOK'
    BY <1>4 DEF ObserveSend
  <1>5. CASE PeriodicFires \/ ConfigReceive \/ WakeReceive \/ ReclaimFires
    BY <1>5 DEF PeriodicFires, ConfigReceive, WakeReceive, ReclaimFires
  <1>6. ASSUME NEW ran \in BOOLEAN, PeriodicCycle(ran) \/ HysteriaCycle(ran)
        PROVE  TypeOK'
    BY <1>6 DEF PeriodicCycle, HysteriaCycle
  <1>7. CASE PeriodicTake \/ ResetPeriodic \/ WakeCheck
    BY <1>7 DEF PeriodicTake, ResetPeriodic, WakeCheck
  <1>8. CASE Snapshot
    BY <1>8, IntervalType DEF Snapshot
  <1>9. CASE ReclaimTake \/ ReclaimDecide
    BY <1>9 DEF ReclaimTake, ReclaimDecide
  <1>10. CASE ReclaimPostpone
    <2> PICK t \in Timeouts \cup {0} :
           /\ sinceForced < AdaptiveInterval(t)
           /\ reclaim' = AdaptiveInterval(t) - sinceForced
      BY <1>10 DEF ReclaimPostpone
    <2>1. reclaim' \in Nat
      BY IntervalType
    <2> QED
      BY <1>10, <2>1 DEF ReclaimPostpone
  <1>11. CASE UNCHANGED vars
    BY <1>11
  <1> QED
    BY <1>1, <1>2, <1>3, <1>4, <1>5, <1>6, <1>7, <1>8, <1>9, <1>10, <1>11
    DEF Next, LoopContinues

\* Type correctness of the optimizer and its tracker.
THEOREM TypeCorrect == Spec => []TypeOK
  <1>1. Init => TypeOK
    <2> SUFFICES ASSUME Init PROVE TypeOK
      OBVIOUS
    <2>1. periodic \in 0..Configured /\ interval \in 0..Configured
          /\ sinceForced \in 0..Configured
      BY OptimizerAssumption DEF Init
    <2> QED
      BY <2>1 DEF Init, TypeOK
  <1>2. TypeOK /\ [Next]_vars => TypeOK'
    BY TypeStep
  <1> QED
    BY <1>1, <1>2, PTL DEF Spec

-----------------------------------------------------------------------------

\* No wakeup is ever lost: a full batch always has a token, an armed timer, a
\* sender or the loop itself on its way to it.
THEOREM WakeupNeverLost == Spec => []NoLostWakeup
  <1>1. Init => NoLostWakeup
    BY OptimizerAssumption DEF Init, NoLostWakeup
  <1>2. TypeOK /\ NoLostWakeup /\ [Next]_vars => NoLostWakeup'
    <2> SUFFICES ASSUME TypeOK, NoLostWakeup, [Next]_vars PROVE NoLostWakeup'
      OBVIOUS
    <2> USE OptimizerAssumption DEF TypeOK, NoLostWakeup
    <2>1. CASE Tick
      BY <2>1 DEF Tick
    <2>2. ASSUME NEW r \in Recorders, RecordAdd(r)
          PROVE  NoLostWakeup'
      BY <2>2 DEF RecordAdd
    <2>3. ASSUME NEW r \in Recorders, RecordWake(r)
          PROVE  NoLostWakeup'
      BY <2>3 DEF RecordWake
    <2>4. ASSUME NEW o \in Observers, NEW n \in Names, NEW t \in Timeouts,
                 ObserveTimeout(o, n, t)
          PROVE  NoLostWakeup'
      BY <2>4 DEF ObserveTimeout
    <2>12. ASSUME NEW o \in Observers, ObserveSend(o)
           PROVE  NoLostWakeup'
      BY <2>12 DEF ObserveSend
    <2>5. CASE PeriodicFires \/ ConfigReceive \/ WakeReceive \/ ReclaimFires
      BY <2>5 DEF PeriodicFires, ConfigReceive, WakeReceive, ReclaimFires
    <2>6. ASSUME NEW ran \in BOOLEAN, PeriodicCycle(ran) \/ HysteriaCycle(ran)
          PROVE  NoLostWakeup'
      BY <2>6 DEF PeriodicCycle, HysteriaCycle
    <2>7. CASE PeriodicTake \/ Snapshot \/ ResetPeriodic
      BY <2>7 DEF PeriodicTake, Snapshot, ResetPeriodic
    <2>8. CASE WakeCheck
      BY <2>8 DEF WakeCheck
    <2>9. CASE ReclaimTake \/ ReclaimDecide
      BY <2>9 DEF ReclaimTake, ReclaimDecide
    <2>10. CASE ReclaimPostpone
      <3>1. reclaim' # -1
        BY <2>10, IntervalType DEF ReclaimPostpone
      <3> QED
        BY <2>10, <3>1 DEF ReclaimPostpone
    <2>11. CASE UNCHANGED vars
      BY <2>11
    <2> QED
      BY <2>1, <2>2, <2>3, <2>4, <2>5, <2>6, <2>7, <2>8, <2>9, <2>10, <2>11,
         <2>12
      DEF Next, LoopContinues
  <1> QED
    BY <1>1, <1>2, TypeCorrect, PTL DEF Spec

-----------------------------------------------------------------------------

\* A change of the timeouts that the loop has not been told of yet.
OnItsWay == configChanged \/ \E o \in Observers : observer[o] = "send"

\* NoLostConfig is inductive together with the same fact about the interval
\* the loop has computed and not armed yet.
ConfigInv ==
    \A t \in Timeouts \cup {0} : IsShortest(t) =>
        /\ \/ periodic <= AdaptiveInterval(t)
           \/ OnItsWay
           \/ loop \in {"periodic", "take", "rearm", "config", "reset"}
        /\ loop = "reset" => interval <= AdaptiveInterval(t) \/ OnItsWay

\* There is one shortest timeout.
LEMMA ShortestUnique ==
    ASSUME TypeOK, NEW s \in Timeouts \cup {0}, NEW t \in Timeouts \cup {0},
           IsShortest(s), IsShortest(t)
    PROVE  s = t
  BY OptimizerAssumption DEF TypeOK, IsShortest, Reported

LEMMA ShortestStable ==
    ASSUME NEW t \in Timeouts \cup {0}, UNCHANGED timeouts
    PROVE  IsShortest(t)' = IsShortest(t)
  BY DEF IsShortest, Reported

\* No configuration change is lost: the periodic timer never waits longer than
\* the shortest observed timeout asks for, unless the change is on its way.
THEOREM ConfigNeverLost == Spec => []NoLostConfig
  <1>1. Init => ConfigInv
    BY IntervalType, OptimizerAssumption
    DEF Init, ConfigInv, IsShortest, Reported, AdaptiveInterval
  <1>2. TypeOK /\ ConfigInv /\ [Next]_vars => ConfigInv'
    <2> SUFFICES ASSUME TypeOK, ConfigInv, [Next]_vars PROVE ConfigInv'
      OBVIOUS
    <2>1. CASE Tick
      <3>1. periodic' <= periodic /\ periodic' \in Nat /\ periodic \in Nat
        BY <2>1, OptimizerAssumption DEF Tick, TypeOK
      <3>2. UNCHANGED <<loop, interval, timeouts, configChanged, observer>>
        BY <2>1 DEF Tick
      <3>3. \A t \in Timeouts \cup {0} : AdaptiveInterval(t) \in Nat
        BY IntervalType, OptimizerAssumption
      <3> QED
        BY <3>1, <3>2, <3>3, ShortestStable DEF ConfigInv, OnItsWay
    <2>2. ASSUME NEW r \in Recorders, RecordAdd(r) \/ RecordWake(r)
          PROVE  ConfigInv'
      BY <2>2, ShortestStable DEF RecordAdd, RecordWake, ConfigInv, OnItsWay
    <2>3. ASSUME NEW o \in Observers, NEW n \in Names, NEW t \in Timeouts,
                 ObserveTimeout(o, n, t)
          PROVE  ConfigInv'
      BY <2>3 DEF ObserveTimeout, ConfigInv, OnItsWay, TypeOK
    <2>4. ASSUME NEW o \in Observers, ObserveSend(o)
          PROVE  ConfigInv'
      BY <2>4 DEF ObserveSend, ConfigInv, OnItsWay
    <2>5. CASE PeriodicFires \/ ConfigReceive \/ WakeReceive \/ ReclaimFires
      BY <2>5, ShortestStable
      DEF PeriodicFires, ConfigReceive, WakeReceive, ReclaimFires, ConfigInv,
          OnItsWay
    <2>6. ASSUME NEW ran \in BOOLEAN, PeriodicCycle(ran) \/ HysteriaCycle(ran)
          PROVE  ConfigInv'
      BY <2>6, ShortestStable
      DEF PeriodicCycle, HysteriaCycle, ConfigInv, OnItsWay
    <2>7. CASE PeriodicTake \/ WakeCheck \/ ReclaimTake \/ ReclaimPostpone
               \/ ReclaimDecide
      BY <2>7, ShortestStable
      DEF PeriodicTake, WakeCheck, ReclaimTake, ReclaimPostpone,
          ReclaimDecide, ConfigInv, OnItsWay
    <2>8. CASE Snapshot
      <3> PICK t \in Timeouts \cup {0} :
             IsShortest(t) /\ interval' = AdaptiveInterval(t)
        BY <2>8 DEF Snapshot
      <3>1. \A s \in Timeouts \cup {0} : IsShortest(s)' => s = t
        BY <2>8, ShortestStable, ShortestUnique DEF Snapshot
      <3>2. loop' = "reset" /\ interval' <= AdaptiveInterval(t)
        BY <2>8, IntervalType, OptimizerAssumption DEF Snapshot
      <3> QED
        BY <3>1, <3>2 DEF ConfigInv
    <2>9. CASE ResetPeriodic
      BY <2>9, ShortestStable DEF ResetPeriodic, ConfigInv, OnItsWay
    <2>10. CASE UNCHANGED vars
      BY <2>10, ShortestStable DEF ConfigInv, OnItsWay
    <2> QED
      BY <2>1, <2>2, <2>3, <2>4, <2>5, <2>6, <2>7, <2>8, <2>9, <2>10
      DEF Next, LoopContinues
  <1>3. ConfigInv => NoLostConfig
    BY DEF ConfigInv, NoLostConfig, OnItsWay
  <1> QED
    BY <1>1, <1>2, <1>3, TypeCorrect, PTL DEF Spec

-----------------------------------------------------------------------------

\* The cooldown was over for some timeout t when the loop decided, and the
\* shortest timeout can only have become shorter since.
CooldownInv ==
    loop = "hysteria" =>
        \E t \in Timeouts \cup {0} :
            /\ sinceForced >= AdaptiveInterval(t)
            /\ t = 0 \/ \E n \in Names : timeouts[n] # 0 /\ timeouts[n] <= t

\* An early run is never closer to another forced run than the cooldown, for
\* the timeouts at the time of the run.
THEOREM EarlyRunCoolsDown == Spec => []HysteriaRunCoolsDown
  <1>1. Init => CooldownInv
    BY DEF Init, CooldownInv
  <1>2. TypeOK /\ CooldownInv /\ [Next]_vars => CooldownInv'
    <2> SUFFICES ASSUME TypeOK, CooldownInv, [Next]_vars, loop' = "hysteria"
                 PROVE  CooldownInv'
      BY DEF CooldownInv
    <2>1. CASE loop = "hysteria"
      <3> PICK t \in Timeouts \cup {0} :
             /\ sinceForced >= AdaptiveInterval(t)
             /\ t = 0 \/ \E n \in Names : timeouts[n] # 0 /\ timeouts[n] <= t
        BY <2>1 DEF CooldownInv
      <3>1. sinceForced' >= AdaptiveInterval(t)
        <4>1. sinceForced \in Nat /\ AdaptiveInterval(t) \in Nat
              /\ sinceForced' \in Nat /\ sinceForced' >= sinceForced
          BY <2>1, IntervalType, OptimizerAssumption
          DEF Next, LoopContinues, Tick, RecordAdd, RecordWake, ObserveTimeout,
              ObserveSend, PeriodicFires, ConfigReceive, WakeReceive,
              ReclaimFires, PeriodicCycle, HysteriaCycle, PeriodicTake,
              Snapshot, ResetPeriodic, WakeCheck, ReclaimTake,
              ReclaimPostpone, ReclaimDecide, TypeOK
        <4> QED
          BY <4>1
      <3>2. ASSUME t # 0
            PROVE  \E n \in Names : timeouts'[n] # 0 /\ timeouts'[n] <= t
        <4> PICK n \in Names : timeouts[n] # 0 /\ timeouts[n] <= t
          BY <3>2
        <4>1. CASE UNCHANGED timeouts
          BY <4>1
        <4>2. ASSUME NEW o \in Observers, NEW k \in Names,
                     NEW u \in Timeouts, ObserveTimeout(o, k, u)
              PROVE  timeouts'[n] # 0 /\ timeouts'[n] <= timeouts[n]
          <5>1. timeouts' = [timeouts EXCEPT ![k] = u]
                /\ (timeouts[k] = 0 \/ u < timeouts[k])
            BY <4>2 DEF ObserveTimeout
          <5>2. u \in Nat \ {0} /\ timeouts \in [Names -> Timeouts \cup {0}]
                /\ timeouts[n] \in Nat
            BY OptimizerAssumption DEF TypeOK
          <5> QED
            BY <5>1, <5>2
        <4>3. timeouts[n] \in Nat /\ timeouts'[n] \in Nat /\ t \in Nat
          <5>1. TypeOK'
            BY TypeStep
          <5>2. /\ timeouts \in [Names -> Timeouts \cup {0}]
                /\ timeouts' \in [Names -> Timeouts \cup {0}]
            BY <5>1 DEF TypeOK
          <5>3. timeouts[n] \in Timeouts \cup {0} /\ timeouts'[n] \in Timeouts \cup {0}
            BY <5>2
          <5> QED
            BY <5>3, TimeoutType
        <4>4. UNCHANGED timeouts \/ \E o \in Observers, k \in Names,
                 u \in Timeouts : ObserveTimeout(o, k, u)
          BY DEF Next, LoopContinues, Tick, RecordAdd, RecordWake,
                 ObserveSend, PeriodicFires, ConfigReceive, WakeReceive,
                 ReclaimFires, PeriodicCycle, HysteriaCycle, PeriodicTake,
                 Snapshot, ResetPeriodic, WakeCheck, ReclaimTake,
                 ReclaimPostpone, ReclaimDecide
        <4> QED
          BY <4>1, <4>2, <4>3, <4>4
      <3> QED
        BY <3>1, <3>2 DEF CooldownInv
    <2>2. CASE loop # "hysteria"
      <3>1. ReclaimDecide
        BY <2>2
        DEF Next, LoopContinues, Tick, RecordAdd, RecordWake, ObserveTimeout,
            ObserveSend, PeriodicFires, ConfigReceive, WakeReceive,
            ReclaimFires, PeriodicCycle, HysteriaCycle, PeriodicTake,
            Snapshot, ResetPeriodic, WakeCheck, ReclaimTake, ReclaimPostpone
      <3> PICK t \in Timeouts \cup {0} :
             IsShortest(t) /\ sinceForced >= AdaptiveInterval(t)
        BY <3>1 DEF ReclaimDecide
      <3>2. t = 0 \/ \E n \in Names : timeouts[n] # 0 /\ timeouts[n] <= t
        BY OptimizerAssumption DEF IsShortest, Reported
      <3> QED
        BY <3>1, <3>2 DEF ReclaimDecide, CooldownInv
    <2> QED
      BY <2>1, <2>2
  <1>3. TypeOK /\ CooldownInv => HysteriaRunCoolsDown
    <2> SUFFICES ASSUME TypeOK, CooldownInv, loop = "hysteria",
                        NEW s \in Timeouts \cup {0}, IsShortest(s)
                 PROVE  sinceForced >= AdaptiveInterval(s)
      BY DEF HysteriaRunCoolsDown
    <2> PICK t \in Timeouts \cup {0} :
           /\ sinceForced >= AdaptiveInterval(t)
           /\ t = 0 \/ \E n \in Names : timeouts[n] # 0 /\ timeouts[n] <= t
      BY DEF CooldownInv
    <2>1. ASSUME t # 0
          PROVE  s # 0 /\ s <= t
      <3> PICK n \in Names : timeouts[n] # 0 /\ timeouts[n] <= t
        BY <2>1
      <3>1. n \in Reported
        BY DEF Reported
      <3>2. s # 0 /\ s <= timeouts[n]
        BY <3>1 DEF IsShortest, Reported
      <3>3. s \in Nat /\ t \in Nat /\ timeouts[n] \in Nat
        <4>1. timeouts[n] \in Timeouts \cup {0}
          BY DEF TypeOK
        <4> QED
          BY <4>1, TimeoutType
      <3> QED
        BY <3>2, <3>3
    <2>2. AdaptiveInterval(s) <= AdaptiveInterval(t)
      BY <2>1, IntervalMonotone
    <2> QED
      BY <2>2, IntervalType, OptimizerAssumption DEF TypeOK
  <1> QED
    BY <1>1, <1>2, <1>3, TypeCorrect, PTL DEF Spec
=============================================================================
