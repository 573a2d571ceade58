------------------------------ MODULE Backoff ------------------------------
(***************************************************************************)
(* errorTracker, the count of errors per resource a controller keeps in    *)
(* memory, and the delay computed from it.  The resources come and go; a   *)
(* key is a namespace and a name, so a recreated resource has the old key. *)
(* The module ends where the delay is returned: the controllers return it  *)
(* next to an error, controller-runtime ignores RequeueAfter then, and the *)
(* workqueue's own rate limiter says when the resource is retried.         *)
(***************************************************************************)
EXTENDS Naturals, FiniteSetsExt

CONSTANTS Keys,             \* resources, by namespace and name
          RequeueDelay,     \* --requeue-interval, in minutes
          maxBackoffDelay,  \* in minutes
          MaxErrors         \* bound on the count of one key

ASSUME Delays ==
  RequeueDelay \in Nat /\ maxBackoffDelay \in Nat \ {0} /\ MaxErrors \in Nat \ {0}

VARIABLES
  counts,    \* counts[k]: the map of the tracker; a missing key reads as 0
  resource,  \* resource[k]: "absent", "live" or "deleting"
  delay,     \* history: the delay the last recordError of k returned
  streak     \* history: recorded errors of this resource since it last succeeded

vars == <<counts, resource, delay, streak>>

TypeOK ==
  /\ counts \in [Keys -> 0 .. MaxErrors] /\ streak \in [Keys -> 0 .. MaxErrors]
  /\ resource \in [Keys -> {"absent", "live", "deleting"}]
  /\ delay \in [Keys -> Nat]

-----------------------------------------------------------------------------
(* The delay *)

\* Mutant of Doubled: the loop runs once more.
DoubledTwice(base) ==
  LET d[i \in Nat] ==
        IF i = 0 THEN 2 * base
        ELSE IF d[i - 1] < maxBackoffDelay THEN 2 * d[i - 1] ELSE d[i - 1]
  IN d

\* Doubled(base)[i] is delay after the loop body has been reached i times.
Doubled(base) ==
  LET d[i \in Nat] ==
        IF i = 0 THEN base
        ELSE IF d[i - 1] < maxBackoffDelay THEN 2 * d[i - 1] ELSE d[i - 1]
  IN d

backoffDelay(base, failures) ==
  IF failures <= 1 THEN base ELSE Min({Doubled(base)[failures - 1], maxBackoffDelay})

-----------------------------------------------------------------------------
(* The tracker *)

recordError(k) ==
  /\ counts[k] < MaxErrors
  /\ counts' = [counts EXCEPT ![k] = @ + 1]
  /\ delay' = [delay EXCEPT ![k] = backoffDelay(RequeueDelay, counts'[k])]
  /\ streak' = [streak EXCEPT ![k] = @ + 1]

\* Mutants of recordSuccess: the map is made anew; one error is taken back.
ForgetAll(k) ==
  /\ counts' = [q \in Keys |-> 0]
  /\ streak' = [streak EXCEPT ![k] = 0]
  /\ UNCHANGED delay

TakeOneBack(k) ==
  /\ counts' = [counts EXCEPT ![k] = @ - 1]
  /\ streak' = [streak EXCEPT ![k] = 0]
  /\ UNCHANGED delay

recordSuccess(k) ==
  /\ counts' = [counts EXCEPT ![k] = 0]
  /\ streak' = [streak EXCEPT ![k] = 0]
  /\ UNCHANGED delay

-----------------------------------------------------------------------------
(* Reconciles, and the resources *)

\* Not recorded are the errors of the Get, of the updates of the finalizer and of the
\* status update that follows a success.
ReconcileFails(k) ==
  /\ resource[k] # "absent"
  /\ recordError(k) \/ UNCHANGED <<counts, delay, streak>>
  /\ UNCHANGED resource

ReconcileSucceeds(k) == resource[k] = "live" /\ recordSuccess(k) /\ UNCHANGED resource

\* handleDeletion calls recordError when it fails, and nothing when it succeeds.
Finalize(k) ==
  /\ resource[k] = "deleting"
  /\ resource' = [resource EXCEPT ![k] = "absent"]
  /\ streak' = [streak EXCEPT ![k] = 0]
  /\ UNCHANGED <<counts, delay>>

Create(k) ==
  /\ resource[k] = "absent"
  /\ resource' = [resource EXCEPT ![k] = "live"]
  /\ UNCHANGED <<counts, delay, streak>>

Delete(k) ==
  /\ resource[k] = "live"
  /\ resource' = [resource EXCEPT ![k] = "deleting"]
  /\ UNCHANGED <<counts, delay, streak>>

\* newErrorTracker in a new process.
Restart ==
  /\ counts' = [k \in Keys |-> 0] /\ streak' = [k \in Keys |-> 0]
  /\ delay' = [k \in Keys |-> 0]
  /\ UNCHANGED resource

Init ==
  /\ counts = [k \in Keys |-> 0] /\ streak = [k \in Keys |-> 0]
  /\ delay = [k \in Keys |-> 0]
  /\ resource = [k \in Keys |-> "absent"]

Next ==
  \/ \E k \in Keys : \/ ReconcileFails(k) \/ ReconcileSucceeds(k) \/ Finalize(k)
                     \/ Create(k) \/ Delete(k)
  \/ Restart

Spec == Init /\ [][Next]_vars

-----------------------------------------------------------------------------
(* Properties *)

PowerOfTwo[n \in Nat] == IF n = 0 THEN 1 ELSE 2 * PowerOfTwo[n - 1]

Stated(errors) == Min({RequeueDelay * PowerOfTwo[errors - 1], maxBackoffDelay})

\* recordError never returns less than its comment (backoff.go:20) states for the
\* errors it has recorded of this resource since its last success: neither successes of
\* other resources nor what a predecessor of the name left in the map shortens it.  This
\* is about the value returned, not about when the resource is retried.
ReturnsEnough == \A k \in Keys : streak[k] > 0 => delay[k] >= Stated(streak[k])

\* From the second error on, the loop that stops at the cap computes the
\* capped power of two (backoff.go:36), for every count the tracker holds.
CappedPower ==
  \A k \in Keys : counts[k] > 1 => backoffDelay(RequeueDelay, counts[k]) = Stated(counts[k])

=============================================================================
