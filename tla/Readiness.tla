----------------------------- MODULE Readiness -----------------------------
(***************************************************************************)
(* The readiness probe: the kubelet asks the operator's /readyz, the       *)
(* handler asks Authentik with a client that retries, and a failed check   *)
(* is passed over for a grace period after the last one that succeeded.    *)
(* Time is counted in seconds; whatever is due in a second happens before  *)
(* the next one, in any order.                                             *)
(***************************************************************************)
EXTENDS Integers

CONSTANTS
  readinessGracePeriod,  \* --readiness-grace-period
  HealthTimeout,         \* of the handler's context
  RetryMax, RetryWait,   \* of the retrying client: how often, after which waits
  periodSeconds, failureThreshold,  \* of the readinessProbe, successThreshold is 1
  TimeoutSeconds,        \* the timeouts of the kubelet that are considered
  MaxAge,                \* ages are not told apart beyond it
  MaxRestarts            \* bound: how often the container restarts

ASSUME ReadinessAssumption ==
  /\ readinessGracePeriod \in Nat /\ HealthTimeout \in Nat \ {0} /\ RetryMax \in Nat
  /\ RetryWait \in [0 .. RetryMax - 1 -> Nat]
  /\ periodSeconds \in Nat \ {0} /\ failureThreshold \in Nat \ {0}
  /\ TimeoutSeconds \subseteq 1 .. periodSeconds - 1
  /\ HealthTimeout < periodSeconds
  /\ MaxAge \in Nat /\ MaxRestarts \in Nat
  /\ readinessGracePeriod + failureThreshold * periodSeconds + HealthTimeout <= MaxAge

VARIABLES
  authentik,       \* what a request to Authentik meets
  sinceHealthy,    \* seconds since lastHealthyTime
  check,           \* the handler's HealthCheck
  untilProbe,      \* seconds until the kubelet probes again
  failures,        \* probes that failed in a row
  ready,           \* the pod's Ready condition
  timeoutSeconds,  \* the timeout of the kubelet
  restarts         \* restarts so far

vars == <<authentik, sinceHealthy, check, untilProbe, failures, ready,
          timeoutSeconds, restarts>>

\* An answer of 200; no connection or 5xx; nothing at all; another 4xx.
Conditions == {"up", "refusing", "hanging", "rejecting"}

\* for: seconds since the handler was called, retries: how many the client has
\* begun, wait: seconds until it begins the next request.
NoCheck == [on |-> FALSE, for |-> 0, retries |-> 0, wait |-> 0]
Checks == [on : BOOLEAN, for : 0 .. HealthTimeout, retries : 0 .. RetryMax, wait : Nat]

TypeOK ==
  /\ authentik \in Conditions /\ sinceHealthy \in 0 .. MaxAge
  /\ check \in Checks /\ untilProbe \in 0 .. periodSeconds
  /\ failures \in 0 .. failureThreshold /\ ready \in BOOLEAN
  /\ timeoutSeconds \in TimeoutSeconds /\ restarts \in 0 .. MaxRestarts

\* The start of the process counts as healthy; the pod is not ready yet.
Init ==
  /\ authentik \in Conditions /\ sinceHealthy = 0 /\ check = NoCheck /\ untilProbe = 0
  /\ failures = 0 /\ ready = FALSE
  /\ timeoutSeconds \in TimeoutSeconds /\ restarts = 0

-----------------------------------------------------------------------------
(* The kubelet *)

\* A probe's result: one success makes the pod ready, failureThreshold failures in
\* a row make it unready.
Result(ok) ==
  /\ check' = NoCheck
  /\ failures' = IF ok THEN 0
                 ELSE IF failures < failureThreshold THEN failures + 1 ELSE failures
  /\ ready' = (ok \/ (ready /\ failures' < failureThreshold))

SendProbe ==
  /\ untilProbe = 0 /\ ~check.on
  /\ check' = [NoCheck EXCEPT !.on = TRUE]
  /\ untilProbe' = periodSeconds
  /\ UNCHANGED <<authentik, sinceHealthy, failures, ready, timeoutSeconds, restarts>>

-----------------------------------------------------------------------------
(* authentikReadyCheck *)

Asks == check.on /\ check.wait = 0

\* Mutant of Healthy: the age is looked at although the check has succeeded.
HealthyIfRecent ==
  /\ Asks /\ authentik = "up"
  /\ sinceHealthy' = IF sinceHealthy < readinessGracePeriod THEN 0 ELSE sinceHealthy
  /\ Result(sinceHealthy < readinessGracePeriod)
  /\ UNCHANGED <<authentik, untilProbe, timeoutSeconds, restarts>>

Healthy ==
  /\ Asks /\ authentik = "up"
  /\ sinceHealthy' = 0
  /\ Result(TRUE)
  /\ UNCHANGED <<authentik, untilProbe, timeoutSeconds, restarts>>

\* Mutant of Unhealthy: what is tolerated counts as healthy.
TolerateAndStore ==
  /\ sinceHealthy' = IF sinceHealthy < readinessGracePeriod THEN 0 ELSE sinceHealthy
  /\ Result(sinceHealthy < readinessGracePeriod)
  /\ UNCHANGED <<authentik, untilProbe, timeoutSeconds, restarts>>

\* Mutant of Unhealthy: there is no grace period.
FailAtOnce ==
  /\ Result(FALSE)
  /\ UNCHANGED <<authentik, sinceHealthy, untilProbe, timeoutSeconds, restarts>>

\* HealthCheck has returned an error.
Unhealthy ==
  /\ Result(sinceHealthy < readinessGracePeriod)
  /\ UNCHANGED <<authentik, sinceHealthy, untilProbe, timeoutSeconds, restarts>>

\* A 4xx is not retried, and neither is the last of RetryMax retries.
Rejected ==
  /\ Asks
  /\ authentik = "rejecting" \/ (authentik = "refusing" /\ check.retries = RetryMax)
  /\ Unhealthy

\* DefaultBackoff, for the retry that follows.
Retry ==
  /\ Asks /\ authentik = "refusing" /\ check.retries < RetryMax
  /\ check' = [check EXCEPT !.retries = @ + 1, !.wait = RetryWait[check.retries]]
  /\ UNCHANGED <<authentik, sinceHealthy, untilProbe, failures, ready, timeoutSeconds,
                 restarts>>

\* Mutant of Expired: the context has no deadline.
NeverExpired == check.on /\ check.for < 0

\* The context's deadline, during a request or a wait.
Expired == check.on /\ check.for = HealthTimeout

\* Mutant of Expire: a check that is cut off is no error.
ExpireHealthy == Expired /\ Result(TRUE)
  /\ UNCHANGED <<authentik, sinceHealthy, untilProbe, timeoutSeconds, restarts>>

Expire == Expired /\ Unhealthy

\* The kubelet gives up.  Its disconnect cancels the request's context, unless an
\* answer has just come, and what the handler then returns nobody reads.
GiveUp ==
  /\ check.on /\ check.for = timeoutSeconds
  /\ \/ UNCHANGED sinceHealthy
     \/ Asks /\ authentik = "up" /\ sinceHealthy' = 0
  /\ Result(FALSE)
  /\ UNCHANGED <<authentik, untilProbe, timeoutSeconds, restarts>>

authentikReadyCheck == Healthy \/ Rejected \/ Retry \/ Expire

-----------------------------------------------------------------------------
(* Time, Authentik and the container *)

\* What has to happen before the next second.
Due ==
  \/ untilProbe = 0
  \/ Asks /\ authentik # "hanging"
  \/ Expired \/ (check.on /\ check.for = timeoutSeconds)

Tick ==
  /\ ~Due
  /\ sinceHealthy' = IF sinceHealthy < MaxAge THEN sinceHealthy + 1 ELSE sinceHealthy
  /\ untilProbe' = untilProbe - 1
  /\ check' = IF check.on
              THEN [check EXCEPT !.for = @ + 1, !.wait = IF @ = 0 THEN 0 ELSE @ - 1]
              ELSE check
  /\ UNCHANGED <<authentik, failures, ready, timeoutSeconds, restarts>>

Change ==
  /\ \E a \in Conditions \ {authentik} : authentik' = a
  /\ UNCHANGED <<sinceHealthy, check, untilProbe, failures, ready, timeoutSeconds, restarts>>

Restart ==
  /\ restarts < MaxRestarts
  /\ restarts' = restarts + 1
  /\ sinceHealthy' = 0 /\ check' = NoCheck /\ untilProbe' = 0
  /\ failures' = 0 /\ ready' = FALSE
  /\ UNCHANGED <<authentik, timeoutSeconds>>

Next == SendProbe \/ GiveUp \/ authentikReadyCheck \/ Tick \/ Change \/ Restart

Spec == Init /\ [][Next]_vars

\* Time goes on, and what is due happens.
FairSpec ==
  Spec /\ WF_vars(SendProbe \/ GiveUp \/ authentikReadyCheck) /\ WF_vars(Tick)

-----------------------------------------------------------------------------
(* Properties *)

Tolerated == readinessGracePeriod + (failureThreshold - 1) * periodSeconds - HealthTimeout

\* "How long the readiness probe tolerates Authentik being unreachable before
\* reporting unready" (values.yaml:113): a ready pod does not become unready before
\* that, whatever Authentik does meanwhile.
GraceGranted ==
  [][ready /\ ~ready' /\ restarts' = restarts => sinceHealthy >= readinessGracePeriod]_vars

\* When the kubelet waits longer than the handler this is so; a ready pod becomes
\* unready not even before failureThreshold probes have failed after that.
TolerantIfPatient ==
  [][/\ timeoutSeconds > HealthTimeout /\ restarts' = restarts /\ ready /\ ~ready'
     => sinceHealthy >= Tolerated]_vars

Noticed == readinessGracePeriod + failureThreshold * periodSeconds + HealthTimeout

\* A ready pod has seen Authentik answer, or has started, not longer ago than the
\* grace period and the probes it takes to notice its end: the two timeouts, the
\* retries and the probes that are given up do not add up to more.
ReadyIsRecent ==
  ready => sinceHealthy <= Noticed

\* An outage of whatever form makes the pod unready in the end,
OutageNoticed ==
  \A a \in Conditions \ {"up"} : <>[](authentik = a) => <>[]~ready

\* and the pod is ready again when Authentik is back.
RecoveryNoticed == <>[](authentik = "up") => <>[]ready

=============================================================================
