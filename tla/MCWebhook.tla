----------------------------- MODULE MCWebhook ------------------------------
(* Model values for Webhook.                                               *)
EXTENDS Webhook, TLC
=============================================================================
