-------------------------- MODULE ReadinessProofs --------------------------
(***************************************************************************)
(* Proofs about the readiness probe, for every grace period, timeout,      *)
(* period and threshold: how early and how late an outage makes the pod    *)
(* unready.                                                                *)
(***************************************************************************)
EXTENDS Readiness, TLAPS

\* What the proofs use of the assumption.
LEMMA ConstantTypes ==
  /\ readinessGracePeriod \in Nat /\ HealthTimeout \in Nat /\ 0 < HealthTimeout
  /\ RetryMax \in Nat /\ RetryWait \in [0 .. RetryMax - 1 -> Nat]
  /\ periodSeconds \in Nat /\ HealthTimeout < periodSeconds
  /\ failureThreshold \in Nat /\ 0 < failureThreshold
  /\ TimeoutSeconds \subseteq Nat /\ MaxAge \in Nat /\ MaxRestarts \in Nat
BY ReadinessAssumption

\* Handled steps end a check with a result; what it may do to the age and the result.
Ended(ok) ==
  /\ check.on /\ Result(ok)
  /\ UNCHANGED <<untilProbe, timeoutSeconds, restarts>>

\* Every way a check ends.
LEMMA Endings ==
  ASSUME TypeOK, GiveUp \/ Healthy \/ Rejected \/ Expire
  PROVE  \/ Ended(TRUE) /\ sinceHealthy' = 0
         \/ Ended(TRUE) /\ sinceHealthy' = sinceHealthy /\ sinceHealthy < readinessGracePeriod
         \/ /\ Ended(FALSE) /\ sinceHealthy' = sinceHealthy
            /\ sinceHealthy >= readinessGracePeriod
         \/ Ended(FALSE) /\ check.for = timeoutSeconds /\ sinceHealthy' \in {sinceHealthy, 0}
<1>1. CASE GiveUp
  BY <1>1 DEF GiveUp, Ended
<1>2. CASE Healthy
  BY <1>2 DEF Healthy, Asks, Ended
<1>3. CASE Unhealthy /\ check.on
  <2>1. UNCHANGED <<sinceHealthy, untilProbe, timeoutSeconds, restarts>>
    BY <1>3 DEF Unhealthy
  <2>2. CASE sinceHealthy < readinessGracePeriod
    <3>1. (sinceHealthy < readinessGracePeriod) = TRUE
      BY <2>2
    <3>2. Result(TRUE)
      BY <1>3, <3>1 DEF Unhealthy
    <3>. QED  BY <1>3, <2>1, <2>2, <3>2 DEF Ended
  <2>3. CASE ~(sinceHealthy < readinessGracePeriod)
    <3>1. (sinceHealthy < readinessGracePeriod) = FALSE
      BY <2>3
    <3>2. Result(FALSE)
      BY <1>3, <3>1 DEF Unhealthy
    <3>3. sinceHealthy >= readinessGracePeriod
      BY <2>3, ConstantTypes DEF TypeOK
    <3>4. Ended(FALSE)
      BY <1>3, <2>1, <3>2 DEF Ended
    <3>. QED  BY <2>1, <3>3, <3>4
  <2>. QED  BY <2>2, <2>3
<1>. QED  BY <1>1, <1>2, <1>3 DEF Rejected, Expire, Expired, Asks

LEMMA NextCases ==
  Next => \/ SendProbe \/ Retry \/ Tick \/ Change \/ Restart
          \/ GiveUp \/ Healthy \/ Rejected \/ Expire
BY DEF Next, authentikReadyCheck

\* Each variable has its type, whatever the values of the constants.
THEOREM TypeCorrect == Spec => []TypeOK
<1>0. NoCheck \in Checks
  BY ConstantTypes DEF NoCheck, Checks
<1>1. Init => TypeOK
  <2>1. Init => ready \in BOOLEAN
    BY DEF Init
  <2>2. Init => /\ sinceHealthy \in 0 .. MaxAge /\ untilProbe \in 0 .. periodSeconds
                /\ failures \in 0 .. failureThreshold /\ restarts \in 0 .. MaxRestarts
    <3>. SUFFICES ASSUME sinceHealthy = 0, untilProbe = 0, failures = 0, restarts = 0
                  PROVE  /\ sinceHealthy \in 0 .. MaxAge /\ untilProbe \in 0 .. periodSeconds
                         /\ failures \in 0 .. failureThreshold /\ restarts \in 0 .. MaxRestarts
      BY DEF Init
    <3>. QED  BY ConstantTypes
  <2>. QED  BY <1>0, <2>1, <2>2 DEF Init, TypeOK
<1>2. TypeOK /\ [Next]_vars => TypeOK'
  <2> SUFFICES ASSUME TypeOK, [Next]_vars
               PROVE  TypeOK'
    OBVIOUS
  <2>. USE ConstantTypes
  <2>1. CASE SendProbe
    <3>1. check' = [on |-> TRUE, for |-> 0, retries |-> 0, wait |-> 0]
      BY <2>1 DEF SendProbe, NoCheck
    <3>2. check' \in Checks
      BY <3>1 DEF Checks
    <3>. QED  BY <2>1, <3>2 DEF SendProbe, TypeOK
  <2>2. CASE Retry
    <3>1. check.retries + 1 \in 0 .. RetryMax /\ RetryWait[check.retries] \in Nat
      BY <2>2 DEF Retry, TypeOK, Checks
    <3>2. check' \in Checks
      BY <2>2, <3>1 DEF Retry, TypeOK, Checks
    <3>. QED  BY <2>2, <3>2 DEF Retry, TypeOK
  <2>3. CASE Tick
    <3>1. check' \in Checks
      <4>1. check.on => check.for + 1 \in 0 .. HealthTimeout
        <5>1. check.on => check.for # HealthTimeout
          BY <2>3 DEF Tick, Due, Expired
        <5>2. check.for \in 0 .. HealthTimeout
          BY DEF TypeOK, Checks
        <5>. QED  BY <5>1, <5>2
      <4>2. (IF check.wait = 0 THEN 0 ELSE check.wait - 1) \in Nat
        BY DEF TypeOK, Checks
      <4>. QED  BY <2>3, <4>1, <4>2 DEF Tick, TypeOK, Checks
    <3>. QED  BY <2>3, <3>1 DEF Tick, Due, Expired, TypeOK
  <2>4. CASE Change
    BY <2>4 DEF Change, TypeOK
  <2>5. CASE Restart
    <3>1. ready' \in BOOLEAN
      BY <2>5 DEF Restart
    <3>2. /\ restarts' = restarts + 1 /\ restarts < MaxRestarts /\ restarts \in 0 .. MaxRestarts
          /\ sinceHealthy' = 0 /\ untilProbe' = 0 /\ failures' = 0
      BY <2>5 DEF Restart, TypeOK
    <3>3. /\ sinceHealthy' \in 0 .. MaxAge /\ untilProbe' \in 0 .. periodSeconds
          /\ failures' \in 0 .. failureThreshold /\ restarts' \in 0 .. MaxRestarts
      BY <3>2
    <3>. QED  BY <1>0, <2>5, <3>1, <3>3 DEF Restart, TypeOK
  <2>6. CASE GiveUp \/ Healthy \/ Rejected \/ Expire
    <3>1. UNCHANGED <<authentik, untilProbe, timeoutSeconds, restarts>>
      BY <2>6 DEF GiveUp, Healthy, Rejected, Expire, Expired, Unhealthy
    <3>2. sinceHealthy' \in {sinceHealthy, 0} /\ \E ok \in BOOLEAN : Result(ok)
      BY <2>6, Endings DEF Ended
    <3>3. check' \in Checks
      BY <1>0, <3>2 DEF Result
    <3>4. failures' \in 0 .. failureThreshold /\ ready' \in BOOLEAN
      BY <3>2 DEF Result, TypeOK
    <3>. QED  BY <3>1, <3>2, <3>3, <3>4 DEF TypeOK
  <2>7. CASE UNCHANGED vars
    BY <2>7 DEF vars, TypeOK
  <2>. QED  BY <2>1, <2>2, <2>3, <2>4, <2>5, <2>6, <2>7, NextCases
<1>. QED  BY <1>1, <1>2, PTL DEF Spec

-----------------------------------------------------------------------------
(* Time *)

\* The time n periods take.
Periods(n) == n * periodSeconds

LEMMA OnePeriodMore ==
  ASSUME NEW n \in Nat
  PROVE  Periods(n) \in Nat /\ Periods(n + 1) = Periods(n) + periodSeconds
BY ConstantTypes DEF Periods

LEMMA PeriodsGrow ==
  ASSUME NEW n \in Nat, NEW m \in Nat, n <= m
  PROVE  Periods(n) <= Periods(m)
BY ConstantTypes DEF Periods

\* A check began when its probe was sent.
InStep == check.on => check.for + untilProbe = periodSeconds

\* Since a probe failed with a patient kubelet the grace period was over ...
NotEarly ==
  timeoutSeconds > HealthTimeout /\ failures > 0 /\ sinceHealthy # MaxAge =>
    /\ check.on => sinceHealthy + untilProbe + HealthTimeout
                     >= readinessGracePeriod + Periods(failures + 1)
    /\ ~check.on => sinceHealthy + untilProbe + HealthTimeout
                      >= readinessGracePeriod + Periods(failures)

\* ... and since the last probe that succeeded not more than its time has passed.
NotLate ==
  ready =>
    /\ failures < failureThreshold
    /\ check.on => sinceHealthy + untilProbe <= readinessGracePeriod + Periods(failures + 2)
    /\ ~check.on => sinceHealthy + untilProbe <= readinessGracePeriod + Periods(failures + 1)

TimeInv == InStep /\ NotEarly /\ NotLate

LEMMA CheckTypes ==
  ASSUME TypeOK
  PROVE  /\ check.for \in Nat /\ check.for <= HealthTimeout
         /\ sinceHealthy \in Nat /\ sinceHealthy <= MaxAge
         /\ untilProbe \in Nat /\ untilProbe <= periodSeconds
         /\ failures \in Nat /\ failures <= failureThreshold /\ timeoutSeconds \in Nat
BY ConstantTypes DEF TypeOK, Checks

LEMMA FailurePeriods ==
  ASSUME TypeOK
  PROVE  /\ Periods(failures) \in Nat /\ Periods(failures + 1) \in Nat
         /\ Periods(failures + 1) = Periods(failures) + periodSeconds
         /\ Periods(failures + 2) = Periods(failures + 1) + periodSeconds
<1>1. (failures + 1) + 1 = failures + 2 /\ failures + 1 \in Nat /\ failures \in Nat
  BY CheckTypes
<1>. QED  BY <1>1, OnePeriodMore

LEMMA EndingsTimeInv ==
  ASSUME TypeOK, TypeOK', TimeInv, GiveUp \/ Healthy \/ Rejected \/ Expire
  PROVE  TimeInv'
<1>. USE ConstantTypes
<1>a. /\ check.for \in Nat /\ check.for <= HealthTimeout
      /\ sinceHealthy \in Nat /\ sinceHealthy <= MaxAge
      /\ untilProbe \in Nat /\ untilProbe <= periodSeconds
      /\ failures \in Nat /\ failures <= failureThreshold /\ timeoutSeconds \in Nat
  BY CheckTypes
<1>b. /\ Periods(failures) \in Nat /\ Periods(failures + 1) \in Nat
      /\ Periods(failures + 1) = Periods(failures) + periodSeconds
      /\ Periods(failures + 2) = Periods(failures + 1) + periodSeconds
  BY FailurePeriods
<1>0. check.on /\ ~check'.on /\ UNCHANGED <<untilProbe, timeoutSeconds>>
  BY Endings DEF Ended, Result, NoCheck
<1>1. check.for + untilProbe = periodSeconds
  BY <1>0, Zenon DEF TimeInv, InStep
<1>2. failures' \in Nat /\ sinceHealthy' \in Nat
  BY DEF TypeOK
<1>3. InStep'
  BY <1>0, Zenon DEF InStep
<1>4. NotEarly'
  <2> SUFFICES ASSUME timeoutSeconds > HealthTimeout, failures' > 0, sinceHealthy' # MaxAge
               PROVE  sinceHealthy' + untilProbe + HealthTimeout
                        >= readinessGracePeriod + Periods(failures')
    BY <1>0, Zenon DEF NotEarly
  <2>1. Ended(FALSE) /\ sinceHealthy' = sinceHealthy /\ sinceHealthy >= readinessGracePeriod
    <3>2. check.for # timeoutSeconds
      BY <1>a
    <3>3. ASSUME Ended(TRUE)
          PROVE  FALSE
      <4>1. failures' = 0
        BY <3>3 DEF Ended, Result
      <4>. QED  BY <4>1
    <3>. QED  BY <3>2, <3>3, Endings
  <2>a. sinceHealthy' = sinceHealthy /\ sinceHealthy >= readinessGracePeriod
    BY <2>1
  <2>2. failures' <= failures + 1
    BY <2>1, <1>2, <1>a DEF Ended, Result
  <2>3. Periods(failures') <= Periods(failures + 1) /\ Periods(failures') \in Nat
    <3>1. failures + 1 \in Nat
      BY <1>a
    <3>. QED  BY <1>2, <2>2, <3>1, PeriodsGrow, OnePeriodMore
  <2>4. CASE failures = 0
    <3>1. Periods(failures) = 0
      BY <2>4 DEF Periods
    <3>. QED  BY <1>1, <1>2, <1>a, <1>b, <2>a, <2>3, <3>1
  <2>5. CASE failures > 0
    <3>1. sinceHealthy # MaxAge
      BY <2>a
    <3>2. sinceHealthy + untilProbe + HealthTimeout
            >= readinessGracePeriod + Periods(failures + 1)
      BY <1>0, <2>5, <3>1, Zenon DEF TimeInv, NotEarly
    <3>. QED  BY <1>1, <1>2, <1>a, <1>b, <2>a, <2>3, <3>2
  <2>. QED  BY <1>a, <2>4, <2>5
<1>5. NotLate'
  <2> SUFFICES ASSUME ready'
               PROVE  /\ failures' < failureThreshold
                      /\ sinceHealthy' + untilProbe
                           <= readinessGracePeriod + Periods(failures' + 1)
    BY <1>0, Zenon DEF NotLate
  <2>1. CASE Ended(TRUE)
    <3>1. failures' = 0
      BY <2>1 DEF Ended, Result
    <3>2. sinceHealthy' <= readinessGracePeriod
      <4>1. Ended(FALSE) => failures' # 0
        BY <1>a DEF Ended, Result
      <4>2. sinceHealthy' = 0 \/ (sinceHealthy' = sinceHealthy
                                    /\ sinceHealthy < readinessGracePeriod)
        BY <3>1, <4>1, Endings
      <4>. QED  BY <1>a, <4>2
    <3>3. Periods(failures' + 1) = periodSeconds
      BY <3>1 DEF Periods
    <3>. QED  BY <1>2, <1>a, <3>1, <3>2, <3>3
  <2>2. CASE Ended(FALSE)
    <3>1. ready /\ failures' < failureThreshold
      BY <2>2, Zenon DEF Ended, Result
    <3>2. failures < failureThreshold
          /\ sinceHealthy + untilProbe <= readinessGracePeriod + Periods(failures + 2)
      BY <1>0, <3>1, Zenon DEF TimeInv, NotLate
    <3>3. failures' + 1 = failures + 2
      BY <1>a, <2>2, <3>2 DEF Ended, Result
    <3>a. Periods(failures' + 1) = Periods(failures + 2)
      BY <3>3
    <3>4. sinceHealthy' <= sinceHealthy
      <4>1. sinceHealthy' \in {sinceHealthy, 0}
        BY Endings
      <4>. QED  BY <1>a, <4>1
    <3>b. failures' < failureThreshold
      BY <3>1
    <3>. QED  BY <1>2, <1>a, <1>b, <3>a, <3>b, <3>2, <3>4
  <2>. QED  BY <2>1, <2>2, Endings
<1>. QED  BY <1>3, <1>4, <1>5 DEF TimeInv

LEMMA TickTimeInv ==
  ASSUME TypeOK, TypeOK', TimeInv, Tick
  PROVE  TimeInv'
<1>. USE ConstantTypes
<1>a. /\ check.for \in Nat /\ check.for <= HealthTimeout
      /\ sinceHealthy \in Nat /\ sinceHealthy <= MaxAge
      /\ untilProbe \in Nat /\ untilProbe <= periodSeconds
      /\ failures \in Nat /\ failures <= failureThreshold /\ timeoutSeconds \in Nat
  BY CheckTypes
<1>b. /\ Periods(failures) \in Nat /\ Periods(failures + 1) \in Nat
      /\ Periods(failures + 1) = Periods(failures) + periodSeconds
      /\ Periods(failures + 2) = Periods(failures + 1) + periodSeconds
  BY FailurePeriods
<1>1. UNCHANGED <<failures, ready, timeoutSeconds>> /\ untilProbe' = untilProbe - 1
  BY DEF Tick
<1>2. check'.on = check.on
  BY DEF Tick, TypeOK, Checks
<1>3. check.on => check'.for = check.for + 1
  BY DEF Tick, TypeOK, Checks
<1>4. \/ sinceHealthy' = sinceHealthy + 1 /\ sinceHealthy # MaxAge
      \/ sinceHealthy' = sinceHealthy /\ sinceHealthy = MaxAge
  BY <1>a DEF Tick
<1>c. untilProbe' = untilProbe - 1
  BY <1>1
<1>5. InStep'
  <2>1. ASSUME check.on
        PROVE  check'.for + untilProbe' = periodSeconds
    <3>1. check.for + untilProbe = periodSeconds
      BY <2>1, Zenon DEF TimeInv, InStep
    <3>2. check'.for = check.for + 1
      BY <1>3, <2>1, Zenon
    <3>. QED  BY <1>a, <1>c, <3>1, <3>2
  <2>. QED  BY <1>2, <2>1, Zenon DEF InStep
<1>6. NotEarly'
  <2> SUFFICES ASSUME timeoutSeconds > HealthTimeout, failures > 0, sinceHealthy' # MaxAge
               PROVE  /\ check.on => sinceHealthy' + untilProbe' + HealthTimeout
                                       >= readinessGracePeriod + Periods(failures + 1)
                      /\ ~check.on => sinceHealthy' + untilProbe' + HealthTimeout
                                        >= readinessGracePeriod + Periods(failures)
    BY <1>1, <1>2, Zenon DEF NotEarly
  <2>1. sinceHealthy' = sinceHealthy + 1 /\ sinceHealthy # MaxAge
    BY <1>4
  <2>2. sinceHealthy' + untilProbe' = sinceHealthy + untilProbe
    BY <1>a, <1>c, <2>1
  <2>. QED  BY <2>1, <2>2, Zenon DEF TimeInv, NotEarly
<1>7. NotLate'
  <2> SUFFICES ASSUME ready
               PROVE  /\ failures < failureThreshold
                      /\ check.on => sinceHealthy' + untilProbe'
                                       <= readinessGracePeriod + Periods(failures + 2)
                      /\ ~check.on => sinceHealthy' + untilProbe'
                                        <= readinessGracePeriod + Periods(failures + 1)
    BY <1>1, <1>2, Zenon DEF NotLate
  <2>1. sinceHealthy' + untilProbe' <= sinceHealthy + untilProbe
    BY <1>a, <1>c, <1>4
  <2>2. sinceHealthy' + untilProbe' \in Int
    BY <1>a, <1>c, <1>4
  <2>3. failures < failureThreshold
    BY Zenon DEF TimeInv, NotLate
  <2>4. ASSUME check.on
        PROVE  sinceHealthy' + untilProbe' <= readinessGracePeriod + Periods(failures + 2)
    <3>1. sinceHealthy + untilProbe <= readinessGracePeriod + Periods(failures + 2)
      BY <2>4, Zenon DEF TimeInv, NotLate
    <3>. QED  BY <1>a, <1>b, <2>1, <2>2, <3>1
  <2>5. ASSUME ~check.on
        PROVE  sinceHealthy' + untilProbe' <= readinessGracePeriod + Periods(failures + 1)
    <3>1. sinceHealthy + untilProbe <= readinessGracePeriod + Periods(failures + 1)
      BY <2>5, Zenon DEF TimeInv, NotLate
    <3>. QED  BY <1>a, <1>b, <2>1, <2>2, <3>1
  <2>. QED  BY <2>3, <2>4, <2>5
<1>. QED  BY <1>5, <1>6, <1>7 DEF TimeInv

LEMMA SendTimeInv ==
  ASSUME TypeOK, TypeOK', TimeInv, SendProbe
  PROVE  TimeInv'
<1>. USE ConstantTypes
<1>a. /\ check.for \in Nat /\ check.for <= HealthTimeout
      /\ sinceHealthy \in Nat /\ sinceHealthy <= MaxAge
      /\ untilProbe \in Nat /\ untilProbe <= periodSeconds
      /\ failures \in Nat /\ failures <= failureThreshold /\ timeoutSeconds \in Nat
  BY CheckTypes
<1>b. /\ Periods(failures) \in Nat /\ Periods(failures + 1) \in Nat
      /\ Periods(failures + 1) = Periods(failures) + periodSeconds
      /\ Periods(failures + 2) = Periods(failures + 1) + periodSeconds
  BY FailurePeriods
<1>1. check'.on /\ ~check.on
  BY DEF SendProbe, NoCheck
<1>2. check'.for = 0 /\ untilProbe = 0 /\ untilProbe' = periodSeconds
  BY DEF SendProbe, NoCheck
<1>3. UNCHANGED <<sinceHealthy, failures, ready, timeoutSeconds>>
  BY DEF SendProbe
<1>4. InStep'
  <2>1. check'.for + untilProbe' = periodSeconds
    BY <1>2
  <2>. QED  BY <2>1, Zenon DEF InStep
<1>5. NotEarly'
  <2> SUFFICES ASSUME timeoutSeconds > HealthTimeout, failures > 0, sinceHealthy # MaxAge
               PROVE  sinceHealthy + untilProbe' + HealthTimeout
                        >= readinessGracePeriod + Periods(failures + 1)
    BY <1>1, <1>3, Zenon DEF NotEarly
  <2>1. sinceHealthy + untilProbe + HealthTimeout >= readinessGracePeriod + Periods(failures)
    BY <1>1, Zenon DEF TimeInv, NotEarly
  <2>. QED  BY <1>2, <1>a, <1>b, <2>1
<1>6. NotLate'
  <2> SUFFICES ASSUME ready
               PROVE  /\ failures < failureThreshold
                      /\ sinceHealthy + untilProbe'
                           <= readinessGracePeriod + Periods(failures + 2)
    BY <1>1, <1>3, Zenon DEF NotLate
  <2>1. failures < failureThreshold
        /\ sinceHealthy + untilProbe <= readinessGracePeriod + Periods(failures + 1)
    BY <1>1, Zenon DEF TimeInv, NotLate
  <2>. QED  BY <1>2, <1>a, <1>b, <2>1
<1>. QED  BY <1>4, <1>5, <1>6 DEF TimeInv

LEMMA TimeInvariant == Spec => []TimeInv
<1>1. Init => TimeInv
  <2> SUFFICES ASSUME Init
               PROVE  TimeInv
    OBVIOUS
  <2>1. ~check.on /\ ~ready /\ ~(failures > 0)
    BY DEF Init, NoCheck
  <2>. QED  BY <2>1, Zenon DEF TimeInv, InStep, NotEarly, NotLate
<1>2. TypeOK /\ TypeOK' /\ TimeInv /\ [Next]_vars => TimeInv'
  <2> SUFFICES ASSUME TypeOK, TypeOK', TimeInv, [Next]_vars
               PROVE  TimeInv'
    OBVIOUS
  <2>1. CASE Change \/ UNCHANGED vars
    BY <2>1 DEF Change, vars, TimeInv, InStep, NotEarly, NotLate
  <2>2. CASE Retry
    <3>1. check'.on = check.on /\ check'.for = check.for
      BY <2>2 DEF Retry, TypeOK, Checks
    <3>2. UNCHANGED <<sinceHealthy, untilProbe, failures, ready, timeoutSeconds>>
      BY <2>2 DEF Retry
    <3>. QED  BY <3>1, <3>2 DEF TimeInv, InStep, NotEarly, NotLate
  <2>3. CASE Restart
    <3>1. ~check'.on /\ ~ready' /\ ~(failures' > 0)
      BY <2>3 DEF Restart, NoCheck
    <3>. QED  BY <3>1, Zenon DEF TimeInv, InStep, NotEarly, NotLate
  <2>. QED  BY <2>1, <2>2, <2>3, TickTimeInv, SendTimeInv, EndingsTimeInv, NextCases
<1>. QED  BY <1>1, <1>2, TypeCorrect, PTL DEF Spec

-----------------------------------------------------------------------------

\* A pod is not ready for longer than the grace period, failureThreshold periods and
\* one timeout after Authentik answered last or the process started.
THEOREM Recent == Spec => []ReadyIsRecent
<1>1. TypeOK /\ TimeInv => ReadyIsRecent
  <2> SUFFICES ASSUME TypeOK, TimeInv, ready
               PROVE  sinceHealthy <= Noticed
    BY DEF ReadyIsRecent
  <2>. USE ConstantTypes
  <2>a. /\ check.for \in Nat /\ check.for <= HealthTimeout
        /\ sinceHealthy \in Nat /\ sinceHealthy <= MaxAge
        /\ untilProbe \in Nat /\ untilProbe <= periodSeconds
        /\ failures \in Nat /\ failures <= failureThreshold /\ timeoutSeconds \in Nat
    BY CheckTypes
  <2>b. /\ Periods(failures) \in Nat /\ Periods(failures + 1) \in Nat
        /\ Periods(failures + 1) = Periods(failures) + periodSeconds
        /\ Periods(failures + 2) = Periods(failures + 1) + periodSeconds
    BY FailurePeriods
  <2>1. failures < failureThreshold
    BY Zenon DEF TimeInv, NotLate
  <2>2. Noticed = readinessGracePeriod + Periods(failureThreshold) + HealthTimeout
    BY DEF Noticed, Periods
  <2>3. Periods(failures + 1) <= Periods(failureThreshold)
        /\ Periods(failureThreshold) \in Nat
    <3>1. failures + 1 \in Nat /\ failures + 1 <= failureThreshold
      BY <2>1, <2>a
    <3>. QED  BY <3>1, PeriodsGrow, OnePeriodMore
  <2>4. CASE check.on
    <3>1. check.for + untilProbe = periodSeconds
      BY <2>4, Zenon DEF TimeInv, InStep
    <3>2. sinceHealthy + untilProbe <= readinessGracePeriod + Periods(failures + 2)
      BY <2>4, Zenon DEF TimeInv, NotLate
    <3>a. sinceHealthy + untilProbe
            <= readinessGracePeriod + Periods(failures + 1) + (check.for + untilProbe)
      BY <2>b, <3>1, <3>2
    <3>3. sinceHealthy <= readinessGracePeriod + Periods(failures + 1) + check.for
      BY <2>a, <2>b, <3>a
    <3>4. sinceHealthy <= readinessGracePeriod + Periods(failureThreshold) + HealthTimeout
      BY <2>a, <2>b, <2>3, <3>3
    <3>. QED  BY <2>2, <3>4, Zenon
  <2>5. CASE ~check.on
    <3>1. sinceHealthy + untilProbe <= readinessGracePeriod + Periods(failures + 1)
      BY <2>5, Zenon DEF TimeInv, NotLate
    <3>2. sinceHealthy <= readinessGracePeriod + Periods(failures + 1)
      BY <2>a, <2>b, <3>1
    <3>3. sinceHealthy <= readinessGracePeriod + Periods(failureThreshold) + HealthTimeout
      BY <2>a, <2>b, <2>3, <3>2
    <3>. QED  BY <2>2, <3>3, Zenon
  <2>. QED  BY <2>4, <2>5
<1>. QED  BY <1>1, TypeCorrect, TimeInvariant, PTL

\* With a kubelet that waits longer than the handler, an outage shorter than the
\* grace period and failureThreshold - 1 periods, but for one timeout, leaves a
\* ready pod ready.
THEOREM Tolerance == Spec => TolerantIfPatient
<1>1. TypeOK /\ TimeInv /\ [Next]_vars
        => (/\ timeoutSeconds > HealthTimeout /\ restarts' = restarts /\ ready /\ ~ready'
            => sinceHealthy >= Tolerated)
  <2> SUFFICES ASSUME TypeOK, TimeInv, [Next]_vars, timeoutSeconds > HealthTimeout,
                      restarts' = restarts, ready, ~ready'
               PROVE  sinceHealthy >= Tolerated
    OBVIOUS
  <2>. USE ConstantTypes
  <2>a. /\ check.for \in Nat /\ check.for <= HealthTimeout
        /\ sinceHealthy \in Nat /\ sinceHealthy <= MaxAge
        /\ untilProbe \in Nat /\ untilProbe <= periodSeconds
        /\ failures \in Nat /\ failures <= failureThreshold /\ timeoutSeconds \in Nat
    BY CheckTypes
  <2>b. /\ Periods(failures) \in Nat /\ Periods(failures + 1) \in Nat
        /\ Periods(failures + 1) = Periods(failures) + periodSeconds
        /\ Periods(failures + 2) = Periods(failures + 1) + periodSeconds
    BY FailurePeriods
  <2>1. GiveUp \/ Healthy \/ Rejected \/ Expire
    <3>1. restarts \in Int
      BY DEF TypeOK
    <3>2. ~Restart
      BY <3>1 DEF Restart
    <3>3. SendProbe \/ Retry \/ Tick \/ Change \/ UNCHANGED vars => UNCHANGED ready
      BY DEF SendProbe, Retry, Tick, Change, vars
    <3>. QED  BY <3>2, <3>3, NextCases
  <2>2. Ended(FALSE) /\ sinceHealthy >= readinessGracePeriod
    <3>1. ~Ended(TRUE)
      BY DEF Ended, Result
    <3>2. check.for # timeoutSeconds
      BY <2>a
    <3>. QED  BY <2>1, <3>1, <3>2, Endings
  <2>3. check.on
    BY <2>2 DEF Ended
  <2>4. failures + 1 = failureThreshold
    <3>1. failures < failureThreshold
      BY Zenon DEF TimeInv, NotLate
    <3>2. ~(failures' < failureThreshold) /\ failures' = failures + 1
      BY <2>a, <2>2, <3>1 DEF Ended, Result
    <3>. QED  BY <2>a, <3>1, <3>2
  <2>5. Tolerated = readinessGracePeriod + Periods(failures) - HealthTimeout
    <3>1. failureThreshold - 1 = failures
      BY <2>a, <2>4
    <3>. QED  BY <3>1 DEF Tolerated, Periods
  <2>c. sinceHealthy >= readinessGracePeriod
    BY <2>2
  <2>6. CASE failures = 0
    <3>1. Periods(failures) = 0
      BY <2>6 DEF Periods
    <3>. QED  BY <2>a, <2>c, <2>5, <3>1
  <2>7. CASE failures > 0
    <3>1. sinceHealthy # MaxAge
            => sinceHealthy + untilProbe + HealthTimeout
                 >= readinessGracePeriod + Periods(failures + 1)
      BY <2>3, <2>7, Zenon DEF TimeInv, NotEarly
    <3>2. readinessGracePeriod + Periods(failures + 1) + HealthTimeout <= MaxAge
      BY <2>4, ReadinessAssumption DEF Periods
    <3>. QED  BY <2>a, <2>b, <2>5, <3>1, <3>2
  <2>. QED  BY <2>a, <2>6, <2>7
<1>. QED  BY <1>1, TypeCorrect, TimeInvariant, PTL DEF Spec, TolerantIfPatient

=============================================================================
