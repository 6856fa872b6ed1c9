--------------------------- MODULE UdpIdleTimeout ---------------------------
(***************************************************************************)
(* The arithmetic of the Hysteria guard: from the udpIdleTimeout of the    *)
(* configuration, an int64 of seconds, to the moment a session has expired,*)
(* in durations that wrap around at Largest.                               *)
(***************************************************************************)
EXTENDS Integers

CONSTANTS
    Largest,    \* time.Duration(1<<63 - 1)
    Second,     \* time.Second
    Minute,     \* time.Minute
    Grace,      \* hysteriaCleanerActivityGrace
    MinCap,     \* hysteriaCleanerMinimumUDPIdleCap
    MaxCap      \* hysteriaCleanerMaximumUDPIdleCap

ASSUME DurationAssumption ==
    /\ Largest \in Nat
    /\ Second \in Nat \ {0}
    /\ Minute \in Nat \ {0}
    /\ Grace \in Nat
    /\ MinCap \in Nat \ {0}
    /\ MaxCap \in Nat \ {0}
    /\ Second + Grace <= Largest
    /\ Minute + Grace <= Largest
    /\ MaxCap + Grace + Second <= Largest

Int64 == (-Largest - 1)..Largest

Wrap(n) ==
    IF n \in Int64 THEN n
    ELSE ((n + Largest + 1) % (2 * (Largest + 1))) - Largest - 1

\* What XRAY_HYSTERIA_UDP_IDLE_CAP says: 0 stands for none.
hysteriaCleanerUDPIdleCap(env) == IF env \in MinCap..MaxCap THEN env ELSE 0

configuredHysteriaUDPIdleTimeout(configured, cap) ==
    LET timeout == IF configured <= 0 THEN Minute ELSE configured
    IN IF cap > 0 /\ timeout > cap THEN cap ELSE timeout

maximumSeconds == (Largest - Grace) \div Second

\* Bug: the seconds are taken as they are.
UnclampedSeconds(seconds, cap) ==
    configuredHysteriaUDPIdleTimeout(Wrap(seconds * Second), cap)

configuredHysteriaUDPIdleTimeoutSeconds(seconds, cap) ==
    LET clamped == IF seconds <= 0 THEN 0
                   ELSE IF seconds > maximumSeconds THEN maximumSeconds
                   ELSE seconds
    IN configuredHysteriaUDPIdleTimeout(Wrap(clamped * Second), cap)

\* Every session has a last activity, so the test for its zero value is left out.
hysteriaUDPActivityExpired(age, timeout) ==
    /\ 0 < timeout
    /\ timeout <= Largest - Grace
    /\ age > Wrap(timeout + Grace)

-----------------------------------------------------------------------------
(* The reference: the same with integers that do not wrap.                 *)

MeantTimeout(seconds, cap) ==
    LET meant == IF seconds <= 0 THEN Minute ELSE seconds * Second
    IN IF cap > 0 /\ meant > cap THEN cap ELSE meant

\* A session of this age expires neither late nor early, but for timeouts so
\* large that no duration holds them, which lose less than a second.
ExactAt(seconds, cap, age) ==
    LET expired == hysteriaUDPActivityExpired(age,
                        configuredHysteriaUDPIdleTimeoutSeconds(seconds, cap))
        meant   == MeantTimeout(seconds, cap)
    IN /\ age > meant + Grace => expired
       /\ expired => \/ age > meant + Grace
                     \/ meant > Largest - Grace /\ age > Largest - Second
=============================================================================
