----------------------------- MODULE MCBackoff -----------------------------
(* Small instances of Backoff for TLC. *)
EXTENDS Backoff

CONSTANTS k1, k2

ASSUME Powers == \A n \in 0 .. MaxErrors : PowerOfTwo[n] = 2 ^ n
=============================================================================
