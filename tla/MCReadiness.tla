---------------------------- MODULE MCReadiness ----------------------------
(* The probe with the values of the program and of the chart, in seconds. *)
EXTENDS Readiness

\* retryablehttp.DefaultBackoff between one second and thirty.
DefaultBackoff == [n \in 0 .. RetryMax - 1 |-> 2 ^ n]
=============================================================================
