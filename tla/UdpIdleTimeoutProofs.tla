------------------------ MODULE UdpIdleTimeoutProofs ------------------------
(***************************************************************************)
(* Facts about the arithmetic of UdpIdleTimeout, for any width of the      *)
(* durations, any grace and any seconds, cap and age.                      *)
(***************************************************************************)
EXTENDS UdpIdleTimeout, TLAPS

\* Division rounds down.
LEMMA DivisionRoundsDown ==
    ASSUME NEW a \in Nat, NEW b \in Nat \ {0}
    PROVE  /\ a \div b \in Nat
           /\ (a \div b) * b <= a
           /\ a < (a \div b) * b + b
  <1>1. a \div b \in Int /\ a % b \in 0..(b - 1) /\ a = b * (a \div b) + (a % b)
    OBVIOUS
  <1> QED
    BY <1>1, SMTT(30)

LEMMA ProductsKeepOrder ==
    ASSUME NEW a \in Int, NEW b \in Int, NEW s \in Nat, a <= b
    PROVE  a * s <= b * s
  OBVIOUS

\* maximumSeconds is the largest number of seconds that leaves room for the
\* grace.
LEMMA MaximumSecondsFit ==
    /\ maximumSeconds \in Nat
    /\ maximumSeconds * Second <= Largest - Grace
    /\ Largest - Grace < maximumSeconds * Second + Second
  <1>1. Largest - Grace \in Nat /\ Second \in Nat \ {0}
    BY DurationAssumption
  <1> QED
    BY <1>1, DivisionRoundsDown DEF maximumSeconds

\* What fits in an int64 stays as it is.
LEMMA WrapKeeps ==
    ASSUME NEW n \in Int, 0 <= n, n <= Largest
    PROVE  Wrap(n) = n
  BY DurationAssumption DEF Wrap, Int64

\* The timeout of a session leaves room for the grace, is the meant one unless
\* that does not fit, and then loses less than a second.
LEMMA TimeoutFits ==
    ASSUME NEW seconds \in Int, NEW cap \in 0..MaxCap
    PROVE  LET t     == configuredHysteriaUDPIdleTimeoutSeconds(seconds, cap)
               meant == MeantTimeout(seconds, cap)
           IN /\ t \in Int /\ 0 < t /\ t <= Largest - Grace
              /\ meant \in Int
              /\ \/ t = meant
                 \/ t < meant /\ Largest - Grace < meant
                              /\ Largest - Grace < t + Second
  <1> DEFINE t     == configuredHysteriaUDPIdleTimeoutSeconds(seconds, cap)
             meant == MeantTimeout(seconds, cap)
             max   == maximumSeconds * Second
  <1>1. /\ maximumSeconds \in Nat /\ max \in Int
        /\ max <= Largest - Grace /\ Largest - Grace < max + Second
    BY MaximumSecondsFit, DurationAssumption
  <1>2. cap < max /\ 0 < max
    BY <1>1, DurationAssumption
  <1>3. CASE seconds <= 0
    <2>1. Wrap(0 * Second) = 0
      BY WrapKeeps, DurationAssumption
    <2>2. t = IF cap > 0 /\ Minute > cap THEN cap ELSE Minute
      BY <1>3, <2>1 DEF configuredHysteriaUDPIdleTimeoutSeconds,
                        configuredHysteriaUDPIdleTimeout
    <2>3. meant = IF cap > 0 /\ Minute > cap THEN cap ELSE Minute
      BY <1>3 DEF MeantTimeout
    <2> QED
      BY <2>2, <2>3, DurationAssumption
  <1>4. CASE 0 < seconds /\ seconds <= maximumSeconds
    <2> DEFINE product == seconds * Second
    <2>1. product \in Int /\ 0 < product /\ product <= max
      BY <1>1, <1>4, ProductsKeepOrder, DurationAssumption
    <2>2. Wrap(product) = product
      BY <1>1, <2>1, WrapKeeps, DurationAssumption
    <2>3. t = configuredHysteriaUDPIdleTimeout(Wrap(product), cap)
      BY <1>1, <1>4 DEF configuredHysteriaUDPIdleTimeoutSeconds
    <2>4. t = IF cap > 0 /\ product > cap THEN cap ELSE product
      BY <2>1, <2>2, <2>3 DEF configuredHysteriaUDPIdleTimeout
    <2>5. meant = IF cap > 0 /\ product > cap THEN cap ELSE product
      BY <1>4 DEF MeantTimeout
    <2> HIDE DEF product
    <2> QED
      BY <1>1, <2>1, <2>4, <2>5, DurationAssumption
  <1>5. CASE maximumSeconds < seconds
    <2> DEFINE product == seconds * Second
    <2>1. product \in Int /\ max + Second <= product
      <3>1. (maximumSeconds + 1) * Second <= product
        BY <1>1, <1>5, ProductsKeepOrder, DurationAssumption
      <3>2. (maximumSeconds + 1) * Second = max + Second
        BY <1>1, DurationAssumption
      <3> QED
        BY <3>1, <3>2, DurationAssumption
    <2>2. Wrap(max) = max
      BY <1>1, <1>2, WrapKeeps, DurationAssumption
    <2>3. t = configuredHysteriaUDPIdleTimeout(Wrap(max), cap)
      BY <1>1, <1>5 DEF configuredHysteriaUDPIdleTimeoutSeconds
    <2>4. t = IF cap > 0 THEN cap ELSE max
      BY <1>1, <1>2, <2>2, <2>3 DEF configuredHysteriaUDPIdleTimeout
    <2>5. meant = IF cap > 0 /\ product > cap THEN cap ELSE product
      BY <1>1, <1>5 DEF MeantTimeout
    <2> HIDE DEF product, max
    <2> QED
      BY <1>1, <1>2, <2>1, <2>4, <2>5, DurationAssumption
  <1> QED
    BY <1>1, <1>3, <1>4, <1>5

\* No overflow makes a timeout longer or shorter than it is meant to be.
LEMMA ExactForAll ==
    ASSUME NEW seconds \in Int, NEW cap \in 0..MaxCap, NEW age \in Int
    PROVE  ExactAt(seconds, cap, age)
  <1> DEFINE t     == configuredHysteriaUDPIdleTimeoutSeconds(seconds, cap)
             meant == MeantTimeout(seconds, cap)
  <1>1. /\ t \in Int /\ 0 < t /\ t <= Largest - Grace
        /\ meant \in Int
        /\ \/ t = meant
           \/ t < meant /\ Largest - Grace < meant
                        /\ Largest - Grace < t + Second
    BY TimeoutFits
  <1>2. ExactAt(seconds, cap, age) <=>
            /\ age > meant + Grace => hysteriaUDPActivityExpired(age, t)
            /\ hysteriaUDPActivityExpired(age, t) =>
                    \/ age > meant + Grace
                    \/ meant > Largest - Grace /\ age > Largest - Second
    BY DEF ExactAt
  <1> HIDE DEF t, meant
  <1>3. Wrap(t + Grace) = t + Grace
    BY <1>1, WrapKeeps, DurationAssumption
  <1>4. hysteriaUDPActivityExpired(age, t) <=> age > t + Grace
    BY <1>1, <1>3 DEF hysteriaUDPActivityExpired
  <1> QED
    BY <1>1, <1>2, <1>4, DurationAssumption
=============================================================================
