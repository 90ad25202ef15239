--------------------------- MODULE MCWebhookRelay ---------------------------
(* An instance of WebhookRelay for TLC. *)
EXTENDS WebhookRelay

CONSTANTS a, b, c
=============================================================================
