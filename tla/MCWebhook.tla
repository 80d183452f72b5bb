----------------------------- MODULE MCWebhook -----------------------------
(* Runs of WebhookEmitter.                                                 *)
EXTENDS WebhookDelivery
=============================================================================
