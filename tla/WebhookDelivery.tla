--------------------------- MODULE WebhookDelivery ---------------------------
(***************************************************************************)
(* WebhookEmitter implements EventDelivery.                                *)
(***************************************************************************)
EXTENDS WebhookEmitter

(* What the host knows of its call of emit.                                *)
Answers ==
  [e \in Events |-> CASE task[e] = "new" -> "none"
                      [] task[e] = "returned" -> returned[e]
                      [] OTHER -> "pending"]

(* What the endpoint knows of a post.                                      *)
Log == [i \in DOMAIN received |-> received[i].event]

Delivery == INSTANCE EventDelivery
              WITH Limit <- max_attempts, answers <- Answers, log <- Log

(* Every behaviour of the emitter and its endpoint is one that             *)
(* EventDelivery allows: retries, late acceptances and cancellations never *)
(* add up to a delivery too many, to one of an event that was not emitted, *)
(* to a second answer, or to a True that is ahead of its delivery.         *)
ImplementsDelivery == Delivery!Spec
=============================================================================
