--------------------------- MODULE MCEventWebhook ---------------------------
(* Small instances of EventWebhook for TLC. *)
EXTENDS EventWebhook

CONSTANTS a1, a2, r1, r2
=============================================================================
