-------------------------- MODULE MCWebhookConfig --------------------------
(* Small instances of WebhookConfig for TLC. *)
EXTENDS WebhookConfig

CONSTANTS created, updated, old, new, job

TwoActions == <<created, updated>>
=============================================================================
