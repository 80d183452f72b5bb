--------------------------- MODULE WebhookEmitter ---------------------------
(***************************************************************************)
(* WebhookEmitter.emit (webhook.py): a bounded retry loop around one POST, *)
(* run as a coroutine per event, with every await a point where others     *)
(* run.  The endpoint and the network are the environment: a post is       *)
(* accepted, refused, lost, or processed after the emitter gave up on it.  *)
(***************************************************************************)
EXTENDS Integers, Sequences, FiniteSets

CONSTANTS
  MaxEvents,     \* events are 1 .. MaxEvents
  max_attempts,
  Delayed        \* the events whose emitter has retry_delay_seconds > 0

ASSUME EmitterAssumption ==
  MaxEvents \in Nat /\ max_attempts \in Nat \ {0}

Events == 1 .. MaxEvents
Attempts == 1 .. max_attempts

VARIABLES
  task,      \* per event: "new", "posting", "reading" (its response is
             \* arriving), "sleeping" or "returned"
  attempt,   \* per event: the loop variable, 0 before the first attempt
  returned,  \* per event: "true", "false" or "cancelled", "no" before
  known,     \* per event: the events that were answered True when its emit
             \* started, for stating AcknowledgedInOrder
  posts,     \* per event and attempt: what became of the post
  received   \* the posts the endpoint accepted, in order

emitter == <<task, attempt, returned, known>>
webhookVars == <<emitter, posts, received>>

Posts == {"unsent", "sent", "accepted", "refused", "lost"}

Init ==
  /\ task = [e \in Events |-> "new"]
  /\ attempt = [e \in Events |-> 0]
  /\ returned = [e \in Events |-> "no"]
  /\ known = [e \in Events |-> {}]
  /\ posts = [e \in Events |-> [k \in Attempts |-> "unsent"]]
  /\ received = <<>>

-----------------------------------------------------------------------------

(* The head of the loop: _post_once sends the next attempt.                *)
Post(e) ==
  /\ task' = [task EXCEPT ![e] = "posting"]
  /\ attempt' = [attempt EXCEPT ![e] = @ + 1]
  /\ posts' = [posts EXCEPT ![e][attempt[e] + 1] = "sent"]
  /\ UNCHANGED <<returned, received>>

Acknowledged == {e \in Events : returned[e] = "true"}

Return(e, value) ==
  /\ task' = [task EXCEPT ![e] = "returned"]
  /\ returned' = [returned EXCEPT ![e] = value]
  /\ UNCHANGED <<attempt, known, posts, received>>

Emit(e) ==
  /\ task[e] = "new"
  /\ known' = [known EXCEPT ![e] = Acknowledged]
  /\ Post(e)

Current(e) == posts[e][attempt[e]]

(* The attempt failed: the response was refused, or _post_once timed out   *)
(* or lost its connection, whatever becomes of the post.                   *)
Failed(e) == task[e] \in {"posting", "reading"}

\* Fault: the status of the response is not looked at.
AnySuccess(e) ==
  /\ task[e] = "reading" /\ Current(e) \in {"accepted", "refused"}
  /\ Return(e, "true")

\* Fault: a post that was sent is taken to be delivered.
SentIsSuccess(e) ==
  /\ Failed(e) /\ Current(e) \in {"sent", "accepted"}
  /\ Return(e, "true")

(* The response is all there, and raise_for_status let it through.         *)
Success(e) ==
  /\ task[e] = "reading" /\ Current(e) = "accepted"
  /\ Return(e, "true")

\* Fault: the last attempt is not made.
GiveUpEarly(e) ==
  /\ Failed(e) /\ attempt[e] + 1 >= max_attempts
  /\ Return(e, "false")

GiveUp(e) ==
  /\ Failed(e) /\ attempt[e] >= max_attempts
  /\ Return(e, "false")

\* Fault: a failed attempt is made again without being counted.
RetryForEver(e) ==
  /\ Failed(e) /\ e \notin Delayed
  /\ task' = [task EXCEPT ![e] = "posting"]
  /\ posts' = [posts EXCEPT ![e][attempt[e]] = "sent"]
  /\ UNCHANGED <<attempt, returned, known, received>>

Retry(e) ==
  /\ Failed(e) /\ attempt[e] < max_attempts /\ e \notin Delayed
  /\ Post(e) /\ UNCHANGED known

\* Fault: one attempt too many.
SleepOnceMore(e) ==
  /\ Failed(e) /\ attempt[e] <= max_attempts /\ e \in Delayed
  /\ task' = [task EXCEPT ![e] = "sleeping"]
  /\ UNCHANGED <<attempt, returned, known, posts, received>>

\* Fault: a failed attempt is not counted.
SleepUncounted(e) ==
  /\ Failed(e) /\ attempt[e] < max_attempts /\ e \in Delayed
  /\ task' = [task EXCEPT ![e] = "sleeping"]
  /\ attempt' = [attempt EXCEPT ![e] = @ - 1]
  /\ UNCHANGED <<returned, known, posts, received>>

Sleep(e) ==
  /\ Failed(e) /\ attempt[e] < max_attempts /\ e \in Delayed
  /\ task' = [task EXCEPT ![e] = "sleeping"]
  /\ UNCHANGED <<attempt, returned, known, posts, received>>

Wake(e) == task[e] = "sleeping" /\ Post(e) /\ UNCHANGED known

(* The host cancels the task: CancelledError is not an Exception, so it    *)
(* leaves the loop and emit returns neither True nor False.                *)
Cancel(e) ==
  /\ task[e] \in {"posting", "reading", "sleeping"}
  /\ Return(e, "cancelled")

-----------------------------------------------------------------------------

(* A post that reached the endpoint is accepted, at any later time.        *)
Accept(e, k) ==
  /\ posts[e][k] = "sent"
  /\ posts' = [posts EXCEPT ![e][k] = "accepted"]
  /\ received' = Append(received, [event |-> e, attempt |-> k])
  /\ UNCHANGED emitter

Refuse(e, k) ==
  /\ posts[e][k] = "sent"
  /\ \E fate \in {"refused", "lost"} : posts' = [posts EXCEPT ![e][k] = fate]
  /\ UNCHANGED <<emitter, received>>

(* The endpoint begins to answer.  From here it may send its response a    *)
(* piece at a time: the timeout of the post bounds each read, not their    *)
(* number.                                                                 *)
Respond(e) ==
  /\ task[e] = "posting" /\ Current(e) \in {"accepted", "refused"}
  /\ task' = [task EXCEPT ![e] = "reading"]
  /\ UNCHANGED <<attempt, returned, known, posts, received>>

Run(e) == Success(e) \/ GiveUp(e) \/ Retry(e) \/ Sleep(e) \/ Wake(e)

Next ==
  \/ \E e \in Events : Emit(e)
  \/ \E e \in Events : Run(e)
  \/ \E e \in Events : Cancel(e)
  \/ \E e \in Events, k \in Attempts : Accept(e, k)
  \/ \E e \in Events, k \in Attempts : Refuse(e, k)
  \/ \E e \in Events : Respond(e)

Spec == Init /\ [][Next]_webhookVars

(* The event loop keeps running a task, and an attempt that the endpoint   *)
(* leaves unanswered ends at timeout_seconds.  Nothing bounds the time     *)
(* that a response takes once it has begun to arrive.                      *)
FairSpec ==
  Spec /\ \A e \in Events : WF_webhookVars(task[e] # "reading" /\ Run(e))

-----------------------------------------------------------------------------

TypeOK ==
  /\ task \in [Events -> {"new", "posting", "reading", "sleeping",
                       "returned"}]
  /\ attempt \in [Events -> 0 .. max_attempts]
  /\ returned \in [Events -> {"no", "true", "false", "cancelled"}]
  /\ known \in [Events -> SUBSET Events]
  /\ posts \in [Events -> [Attempts -> Posts]]
  /\ received \in Seq([event : Events, attempt : Attempts])

(* emit answers True only for an event that the endpoint has accepted,     *)
(* though the responses of several attempts and events are under way.      *)
TrueMeansDelivered ==
  \A e \in Events :
    returned[e] = "true" => \E i \in DOMAIN received : received[i].event = e

(* emit answers False only when max_attempts posts were sent, and it was   *)
(* the last of them that it gave up on.                                    *)
FalseMeansExhausted ==
  \A e \in Events :
    returned[e] = "false" => \A k \in Attempts : posts[e][k] # "unsent"

(* The loop sends an event max_attempts times at the most, so an endpoint  *)
(* that accepts late what the emitter has given up on sees it no oftener.  *)
DuplicatesBounded ==
  \A e \in Events :
    Cardinality({i \in DOMAIN received : received[i].event = e})
      <= max_attempts

(* What was answered True when an emit starts is accepted before anything  *)
(* of that emit, although retries may be accepted long after they were     *)
(* given up: a host that awaits what must come first can rely on it.       *)
AcknowledgedInOrder ==
  \A e \in Events, j \in DOMAIN received :
    received[j].event = e =>
      \A first \in known[e] : \E i \in 1 .. j - 1 : received[i].event = first

(* The loop is bounded: an emit that was started returns, although the     *)
(* endpoint refuses, loses or ignores its posts, unless the endpoint keeps *)
(* it reading for ever.  A response of which a piece arrives within every  *)
(* timeout_seconds holds emit back for as long as it lasts.                *)
EmitReturns ==
  \A e \in Events :
    []<>(task[e] # "reading") => (task[e] # "new" ~> task[e] = "returned")
=============================================================================
