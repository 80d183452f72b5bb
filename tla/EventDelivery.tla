---------------------------- MODULE EventDelivery ----------------------------
(***************************************************************************)
(* What a WebhookEmitter promises its host, without attempts, delays or    *)
(* timeouts: an event is accepted by the endpoint only after it was given  *)
(* to emit, at most Limit times, and as late as the network likes; emit    *)
(* answers once, and True only if the event has been accepted by then.     *)
(***************************************************************************)
EXTENDS Naturals, Sequences, FiniteSets

CONSTANTS Events, Limit

VARIABLES
  answers, \* per event: "none", "pending" while emit runs, then its answer
  log      \* the events the endpoint accepted, in order

deliveryVars == <<answers, log>>

Copies(e) == Cardinality({i \in DOMAIN log : log[i] = e})

Init == answers = [e \in Events |-> "none"] /\ log = <<>>

Start(e) ==
  /\ answers[e] = "none"
  /\ answers' = [answers EXCEPT ![e] = "pending"]
  /\ UNCHANGED log

Answer(e) ==
  /\ answers[e] = "pending"
  /\ \E answer \in {"true", "false", "cancelled"} :
       /\ answer = "true" => \E i \in DOMAIN log : log[i] = e
       /\ answers' = [answers EXCEPT ![e] = answer]
  /\ UNCHANGED log

Deliver(e) ==
  /\ answers[e] # "none"
  /\ Copies(e) < Limit
  /\ log' = Append(log, e)
  /\ UNCHANGED answers

Next == \E e \in Events : Start(e) \/ Answer(e) \/ Deliver(e)

Spec == Init /\ [][Next]_deliveryVars
=============================================================================
