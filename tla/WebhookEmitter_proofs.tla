----------------------- MODULE WebhookEmitter_proofs -----------------------
(***************************************************************************)
(* Proofs about WebhookEmitter and WebhookDelivery, for any number of      *)
(* events and attempts.                                                    *)
(***************************************************************************)
EXTENDS WebhookDelivery, FiniteSetTheorems, TLAPS

Deliveries == [event : Events, attempt : Attempts]

Received(e) == \E i \in DOMAIN received : received[i].event = e

(* The loop variable counts the posts that were sent, and a coroutine that *)
(* has not returned has no value.                                          *)
AttemptsSent ==
  \A e \in Events :
    /\ task[e] = "new" =>
         attempt[e] = 0 /\ \A k \in Attempts : posts[e][k] = "unsent"
    /\ task[e] # "returned" => returned[e] = "no"
    /\ task[e] \in {"posting", "reading"} => attempt[e] \in Attempts
    /\ task[e] = "sleeping" => attempt[e] < max_attempts
    /\ \A k \in 1 .. attempt[e] : posts[e][k] # "unsent"

(* What was accepted was received, and what was received was sent.         *)
PostsRecorded ==
  /\ \A e \in Events, k \in Attempts : posts[e][k] = "accepted" => Received(e)
  /\ \A i \in DOMAIN received : task[received[i].event] # "new"

(* What is known to be acknowledged stays so.                              *)
KnownStays == \A e \in Events : known[e] \subseteq Acknowledged

EmitInv ==
  /\ TypeOK /\ AttemptsSent /\ PostsRecorded /\ KnownStays
  /\ TrueMeansDelivered /\ FalseMeansExhausted /\ AcknowledgedInOrder

LEMMA EmitInvInit == Init => EmitInv
BY EmitterAssumption
   DEF Init, EmitInv, TypeOK, AttemptsSent, PostsRecorded, KnownStays, Posts,
       TrueMeansDelivered, FalseMeansExhausted, AcknowledgedInOrder,
       Events, Attempts, Received, Acknowledged

(* What was received is still received, whatever else changes.             *)
LEMMA RecordKept ==
  ASSUME EmitInv, UNCHANGED received,
         \A f \in Events, a \in Attempts :
           posts'[f][a] = "accepted" => posts[f][a] = "accepted",
         \A f \in Events : task[f] # "new" => task'[f] # "new"
  PROVE  PostsRecorded'
<1>1. \A i \in DOMAIN received : received[i].event \in Events
  <2>1. received \in Seq(Deliveries)
    BY DEF EmitInv, TypeOK, Deliveries
  <2>2. \A i \in DOMAIN received : received[i] \in Deliveries
    BY <2>1
  <2> QED BY <2>2 DEF Deliveries
<1> QED BY <1>1 DEF EmitInv, PostsRecorded, Received

(* A post of the next attempt: by Emit, Retry and Wake.                    *)
LEMMA PostKeepsInv ==
  ASSUME EmitInv, NEW e \in Events, Post(e),
         attempt[e] < max_attempts, task[e] # "returned",
         \/ known' = known
         \/ task[e] = "new" /\ known' = [known EXCEPT ![e] = Acknowledged]
  PROVE  EmitInv'
<1> USE EmitterAssumption DEF EmitInv, TypeOK, Events, Attempts, Posts
<1>1. attempt[e] + 1 \in Attempts OBVIOUS
<1>2. TypeOK'
  <2>1. known' \in [Events -> SUBSET Events]
    <3>1. known \in [Events -> SUBSET Events] /\ Acknowledged \in SUBSET Events
      BY DEF Acknowledged
    <3> QED BY ONLY <3>1, \/ known' = known
                          \/ known' = [known EXCEPT ![e] = Acknowledged]
  <2>2. posts' \in [Events -> [Attempts -> Posts]]
    BY <1>1 DEF Post
  <2> QED BY <1>1, <2>1, <2>2 DEF Post
<1>3. AttemptsSent'
  BY SMTT(60), <1>1 DEF Post, AttemptsSent
<1>4. PostsRecorded'
  <2>1. \A f \in Events, a \in Attempts :
          posts'[f][a] = "accepted" => posts[f][a] = "accepted"
    BY <1>1 DEF Post
  <2>2. UNCHANGED received /\ \A f \in Events : task[f] # "new" => task'[f] # "new"
    BY DEF Post
  <2> QED BY ONLY <2>1, <2>2, EmitInv, RecordKept
<1>5. KnownStays'
  BY SMTT(60) DEF Post, KnownStays, Acknowledged
<1>6. TrueMeansDelivered'
  BY DEF Post, TrueMeansDelivered
<1>7. FalseMeansExhausted'
  BY SMTT(60) DEF Post, FalseMeansExhausted
<1>8. AcknowledgedInOrder'
  <2>1. UNCHANGED received
    BY DEF Post
  <2>2. ASSUME NEW j \in DOMAIN received, received[j].event \in Events
        PROVE  known'[received[j].event] = known[received[j].event]
    <3>1. task[received[j].event] # "new"
      BY DEF PostsRecorded
    <3>2. CASE known' = known
      BY ONLY <3>2
    <3>3. CASE task[e] = "new" /\ known' = [known EXCEPT ![e] = Acknowledged]
      <4>1. known \in [Events -> SUBSET Events]
        OBVIOUS
      <4> QED BY ONLY <2>2, <3>1, <3>3, <4>1
    <3> QED BY <3>2, <3>3
  <2>3. AcknowledgedInOrder
    OBVIOUS
  <2> QED BY ONLY <2>1, <2>2, <2>3 DEF AcknowledgedInOrder, Events
<1> QED BY <1>2, <1>3, <1>4, <1>5, <1>6, <1>7, <1>8

(* A return with a value that is true of the posts.                        *)
LEMMA ReturnKeepsInv ==
  ASSUME EmitInv, NEW e \in Events, NEW value \in {"true", "false", "cancelled"},
         Return(e, value), task[e] \in {"posting", "reading", "sleeping"},
         value = "true" => posts[e][attempt[e]] = "accepted" /\ task[e] = "reading",
         value = "false" => attempt[e] >= max_attempts
  PROVE  EmitInv'
<1> USE EmitterAssumption DEF EmitInv, TypeOK, Events, Attempts, Posts
<1>2. TypeOK'
  BY DEF Return
<1>3. AttemptsSent'
  BY DEF Return, AttemptsSent
<1>4. PostsRecorded'
  <2>1. UNCHANGED <<posts, received>>
    BY DEF Return
  <2>2. \A f \in Events : task[f] # "new" => task'[f] # "new"
    BY DEF Return
  <2> QED BY ONLY <2>1, <2>2, EmitInv, RecordKept
<1>5. KnownStays'
  <2>1. returned[e] # "true"
    BY DEF AttemptsSent
  <2>2. Acknowledged \subseteq Acknowledged'
    BY <2>1 DEF Return, Acknowledged
  <2>3. UNCHANGED known /\ KnownStays
    BY DEF Return
  <2> QED BY ONLY <2>2, <2>3 DEF KnownStays
<1>6. TrueMeansDelivered'
  <2>1. UNCHANGED received
    BY DEF Return
  <2>2. value = "true" => Received(e)
    BY DEF AttemptsSent, PostsRecorded
  <2>3. returned \in [Events -> {"no", "true", "false", "cancelled"}]
        /\ returned' = [returned EXCEPT ![e] = value]
    BY DEF Return
  <2>4. TrueMeansDelivered
    OBVIOUS
  <2> QED BY ONLY <2>1, <2>2, <2>3, <2>4 DEF TrueMeansDelivered, Received
<1>7. FalseMeansExhausted'
  BY DEF Return, FalseMeansExhausted, AttemptsSent
<1>8. AcknowledgedInOrder'
  <2>1. UNCHANGED <<known, received>>
    BY DEF Return
  <2>2. AcknowledgedInOrder
    OBVIOUS
  <2> QED BY ONLY <2>1, <2>2 DEF AcknowledgedInOrder
<1> QED BY <1>2, <1>3, <1>4, <1>5, <1>6, <1>7, <1>8

(* What an Append does to the indices of a sequence.                       *)
LEMMA Appended ==
  ASSUME NEW S, NEW seq \in Seq(S), NEW x \in S
  PROVE  /\ Append(seq, x) \in Seq(S)
         /\ DOMAIN seq = 1 .. Len(seq) /\ Len(seq) \in Nat
         /\ DOMAIN Append(seq, x) = 1 .. Len(seq) + 1
         /\ \A i \in DOMAIN seq : Append(seq, x)[i] = seq[i]
         /\ Append(seq, x)[Len(seq) + 1] = x
OBVIOUS

LEMMA AcceptKeepsInv ==
  ASSUME EmitInv, NEW e \in Events, NEW k \in Attempts, Accept(e, k)
  PROVE  EmitInv'
<1> DEFINE n == Len(received)
           delivery == [event |-> e, attempt |-> k]
<1>1. received \in Seq(Deliveries) /\ delivery \in Deliveries
  BY DEF EmitInv, TypeOK, Deliveries
<1>2. received' = Append(received, delivery)
  BY DEF Accept
<1>3. /\ received' \in Seq(Deliveries)
      /\ n \in Nat /\ DOMAIN received = 1 .. n /\ DOMAIN received' = 1 .. n + 1
      /\ \A i \in DOMAIN received : received'[i] = received[i]
      /\ received'[n + 1] = delivery
  <2> HIDE DEF delivery
  <2> QED BY <1>1, <1>2, Appended
<1>4. UNCHANGED <<task, attempt, returned, known>>
  BY DEF Accept, emitter
<1>5. /\ posts \in [Events -> [Attempts -> Posts]] /\ posts[e][k] = "sent"
      /\ posts' = [posts EXCEPT ![e][k] = "accepted"]
  BY DEF Accept, EmitInv, TypeOK
<1> HIDE DEF n
<1>6. \A f \in Events : Received(f) => Received(f)'
  BY <1>3 DEF Received
<1>7. Received(e)'
  <2>1. n + 1 \in DOMAIN received' /\ received'[n + 1].event = e
    BY <1>3
  <2> QED BY <2>1 DEF Received
<1>8. TypeOK'
  <2>1. posts' \in [Events -> [Attempts -> Posts]]
    BY <1>5 DEF Posts
  <2> QED BY <1>3, <1>4, <2>1 DEF EmitInv, TypeOK, Deliveries
<1>9. AttemptsSent'
  <2>1. \A f \in Events, a \in Attempts :
          posts[f][a] = "unsent" <=> posts'[f][a] = "unsent"
    BY <1>5
  <2>2. \A f \in Events : 1 .. attempt[f] \subseteq Attempts
    BY EmitterAssumption DEF EmitInv, TypeOK, Attempts
  <2> QED BY <1>4, <2>1, <2>2 DEF EmitInv, AttemptsSent
<1>10. PostsRecorded'
  <2>1. ASSUME NEW f \in Events, NEW a \in Attempts, posts'[f][a] = "accepted"
        PROVE  Received(f)'
    <3>1. CASE f = e
      BY <1>7, <3>1
    <3>2. CASE f # e
      BY <1>5, <1>6, <2>1, <3>2 DEF EmitInv, PostsRecorded
    <3> QED BY <3>1, <3>2
  <2>2. task[e] # "new"
    BY <1>5 DEF EmitInv, AttemptsSent
  <2>3. ASSUME NEW i \in DOMAIN received' PROVE task[received'[i].event] # "new"
    <3>1. CASE i \in DOMAIN received
      BY <1>3, <3>1 DEF EmitInv, PostsRecorded
    <3>2. CASE i = n + 1
      BY <1>3, <2>2, <3>2
    <3> QED BY <1>3, <2>3, <3>1, <3>2
  <2> QED BY <1>4, <2>1, <2>3 DEF PostsRecorded
<1>11. KnownStays'
  BY <1>4 DEF EmitInv, KnownStays, Acknowledged
<1>12. TrueMeansDelivered'
  BY <1>4, <1>6 DEF EmitInv, TrueMeansDelivered, Received
<1>13. FalseMeansExhausted'
  BY <1>4, <1>5 DEF EmitInv, FalseMeansExhausted
<1>14. AcknowledgedInOrder'
  <2> SUFFICES ASSUME NEW f \in Events, NEW j \in DOMAIN received',
                      received'[j].event = f, NEW first \in known[f]
               PROVE  \E i \in 1 .. j - 1 : received'[i].event = first
    BY <1>4 DEF AcknowledgedInOrder
  <2>1. CASE j \in DOMAIN received
    <3>1. PICK i \in 1 .. j - 1 : received[i].event = first
      BY <1>3, <2>1 DEF EmitInv, AcknowledgedInOrder
    <3> QED BY <1>3, <2>1, <3>1
  <2>2. CASE j = n + 1
    <3>1. first \in Events /\ returned[first] = "true"
      BY DEF EmitInv, KnownStays, Acknowledged
    <3>2. PICK i \in DOMAIN received : received[i].event = first
      BY <3>1 DEF EmitInv, TrueMeansDelivered
    <3> QED BY <1>3, <2>2, <3>2
  <2> QED BY <1>3, <2>1, <2>2
<1> QED BY <1>8, <1>9, <1>10, <1>11, <1>12, <1>13, <1>14 DEF EmitInv

LEMMA RefuseKeepsInv ==
  ASSUME EmitInv, NEW e \in Events, NEW k \in Attempts, Refuse(e, k)
  PROVE  EmitInv'
<1> USE EmitterAssumption DEF EmitInv, TypeOK, Events, Attempts, Posts, Refuse, emitter
<1>2. TypeOK'
  OBVIOUS
<1>3. AttemptsSent'
  BY SMTT(60) DEF AttemptsSent
<1>4. PostsRecorded'
  <2>1. \A f \in Events, a \in Attempts :
          posts'[f][a] = "accepted" => posts[f][a] = "accepted"
    OBVIOUS
  <2>2. UNCHANGED received /\ UNCHANGED task
    OBVIOUS
  <2> QED BY SMTT(60), <2>1, <2>2 DEF PostsRecorded, Received
<1>5. KnownStays' /\ TrueMeansDelivered' /\ AcknowledgedInOrder'
  <2>1. UNCHANGED <<task, returned, known, received>>
    OBVIOUS
  <2>2. KnownStays /\ TrueMeansDelivered /\ AcknowledgedInOrder
    OBVIOUS
  <2> QED BY ONLY <2>1, <2>2 
             DEF KnownStays, TrueMeansDelivered, AcknowledgedInOrder, Acknowledged
<1>6. FalseMeansExhausted'
  BY SMTT(60) DEF FalseMeansExhausted
<1> QED BY <1>2, <1>3, <1>4, <1>5, <1>6

(* Sleep and Respond change nothing but where the coroutine waits.         *)
LEMMA WaitKeepsInv ==
  ASSUME EmitInv, NEW e \in Events, Sleep(e) \/ Respond(e)
  PROVE  EmitInv'
<1> USE EmitterAssumption
    DEF EmitInv, TypeOK, Events, Attempts, Posts, Sleep, Respond, Failed
<1>2. TypeOK'
  OBVIOUS
<1>3. AttemptsSent'
  BY DEF AttemptsSent
<1>4. PostsRecorded'
  <2>1. UNCHANGED <<posts, received>>
    OBVIOUS
  <2>2. \A f \in Events : task[f] # "new" => task'[f] # "new"
    OBVIOUS
  <2> QED BY ONLY <2>1, <2>2, EmitInv, RecordKept
<1>5. KnownStays'
  BY DEF KnownStays, Acknowledged
<1>6. TrueMeansDelivered' /\ FalseMeansExhausted' /\ AcknowledgedInOrder'
  <2>1. UNCHANGED <<returned, known, posts, received>>
    OBVIOUS
  <2>2. TrueMeansDelivered /\ FalseMeansExhausted /\ AcknowledgedInOrder
    OBVIOUS
  <2> QED BY ONLY <2>1, <2>2
             DEF TrueMeansDelivered, FalseMeansExhausted, AcknowledgedInOrder
<1> QED BY <1>2, <1>3, <1>4, <1>5, <1>6

LEMMA EmitInvNext == EmitInv /\ [Next]_webhookVars => EmitInv'
<1> SUFFICES ASSUME EmitInv, [Next]_webhookVars PROVE EmitInv'
  OBVIOUS
<1>1. ASSUME NEW e \in Events, Emit(e) PROVE EmitInv'
  <2>1. attempt[e] < max_attempts /\ task[e] = "new"
    BY <1>1, EmitterAssumption DEF Emit, EmitInv, AttemptsSent, TypeOK, Events, Attempts
  <2> QED BY <1>1, <2>1, PostKeepsInv DEF Emit
<1>2. ASSUME NEW e \in Events, Success(e) PROVE EmitInv'
  BY <1>2, ReturnKeepsInv DEF Success, Current
<1>3. ASSUME NEW e \in Events, GiveUp(e) PROVE EmitInv'
  BY <1>3, ReturnKeepsInv DEF GiveUp, Failed
<1>4. ASSUME NEW e \in Events, Retry(e) \/ Wake(e) PROVE EmitInv'
  <2>1. Post(e) /\ attempt[e] < max_attempts /\ task[e] # "returned"
    BY <1>4 DEF Retry, Wake, Failed, EmitInv, AttemptsSent
  <2>2. known' = known
    BY <1>4 DEF Retry, Wake
  <2> QED BY ONLY <2>1, <2>2, e \in Events, EmitInv, PostKeepsInv, Zenon
<1>5. ASSUME NEW e \in Events, Cancel(e) PROVE EmitInv'
  BY <1>5, ReturnKeepsInv DEF Cancel
<1>6. CASE UNCHANGED webhookVars
  BY <1>6 DEF EmitInv, TypeOK, AttemptsSent, PostsRecorded, KnownStays, Received,
              TrueMeansDelivered, FalseMeansExhausted, AcknowledgedInOrder,
              Acknowledged, webhookVars, emitter
<1> QED
  BY <1>1, <1>2, <1>3, <1>4, <1>5, <1>6, WaitKeepsInv, AcceptKeepsInv, RefuseKeepsInv
     DEF Next, Run

LEMMA EmitInvAlways == Spec => []EmitInv
BY EmitInvInit, EmitInvNext, PTL DEF Spec

(* emit tells the truth: True of what was accepted, for any number of      *)
(* events under way, attempts and late answers.                            *)
THEOREM DeliveryCorrect == Spec => []TrueMeansDelivered
<1>1. EmitInv => TrueMeansDelivered
  BY DEF EmitInv
<1> QED BY <1>1, EmitInvAlways, PTL

(* emit answers False only when all its attempts were made.                *)
THEOREM ExhaustionCorrect == Spec => []FalseMeansExhausted
<1>1. EmitInv => FalseMeansExhausted
  BY DEF EmitInv
<1> QED BY <1>1, EmitInvAlways, PTL

(* What was answered True when an emit starts is accepted before anything  *)
(* of that emit.                                                           *)
THEOREM OrderCorrect == Spec => []AcknowledgedInOrder
<1>1. EmitInv => AcknowledgedInOrder
  BY DEF EmitInv
<1> QED BY <1>1, EmitInvAlways, PTL

(* The types of WebhookEmitter.                                            *)
THEOREM TypeCorrect == Spec => []TypeOK
<1>1. EmitInv => TypeOK
  BY DEF EmitInv
<1> QED BY <1>1, EmitInvAlways, PTL

-----------------------------------------------------------------------------
(* Duplicates: each post is accepted once, and only posts up to the loop   *)
(* variable were sent.                                                     *)

NothingAhead ==
  \A e \in Events, k \in Attempts : attempt[e] < k => posts[e][k] = "unsent"

AcceptedOnce ==
  /\ \A i \in DOMAIN received :
       posts[received[i].event][received[i].attempt] = "accepted"
  /\ \A i, j \in DOMAIN received : received[i] = received[j] => i = j

LEMMA ReceivedTyped ==
  ASSUME EmitInv
  PROVE  \A i \in DOMAIN received : received[i] \in Deliveries
<1>1. received \in Seq(Deliveries)
  BY DEF EmitInv, TypeOK, Deliveries
<1> QED BY <1>1

LEMMA OnceInit == Init => NothingAhead /\ AcceptedOnce
BY DEF Init, NothingAhead, AcceptedOnce

(* The next attempt has not been sent, so Post overwrites no fate.         *)
LEMMA PostKeepsOnce ==
  ASSUME EmitInv, NothingAhead, AcceptedOnce, NEW e \in Events, Post(e),
         attempt[e] < max_attempts
  PROVE  NothingAhead' /\ AcceptedOnce'
<1>1. /\ posts \in [Events -> [Attempts -> Posts]]
      /\ attempt \in [Events -> 0 .. max_attempts]
  BY DEF EmitInv, TypeOK
<1>2. /\ attempt' = [attempt EXCEPT ![e] = @ + 1]
      /\ posts' = [posts EXCEPT ![e][attempt[e] + 1] = "sent"]
      /\ received' = received
  BY DEF Post
<1>3. attempt[e] + 1 \in Attempts
  BY <1>1, EmitterAssumption DEF Attempts
<1>4. NothingAhead'
  BY <1>1, <1>2, <1>3, EmitterAssumption DEF NothingAhead, Attempts
<1>5. posts[e][attempt[e] + 1] = "unsent"
  BY <1>1, <1>3 DEF NothingAhead
<1>6. \A f \in Events, k \in Attempts :
        posts[f][k] = "accepted" => posts'[f][k] = "accepted"
  BY <1>1, <1>2, <1>3, <1>5
<1>7. \A i \in DOMAIN received :
        received[i].event \in Events /\ received[i].attempt \in Attempts
  BY ReceivedTyped DEF Deliveries
<1> QED BY <1>2, <1>4, <1>6, <1>7 DEF AcceptedOnce

(* A step that changes only the fate of a post that is under way.          *)
LEMMA AcceptKeepsOnce ==
  ASSUME EmitInv, NothingAhead, AcceptedOnce,
         NEW e \in Events, NEW k \in Attempts, Accept(e, k)
  PROVE  NothingAhead' /\ AcceptedOnce'
<1> DEFINE n == Len(received)
           delivery == [event |-> e, attempt |-> k]
<1>1. received \in Seq(Deliveries) /\ delivery \in Deliveries
  BY DEF EmitInv, TypeOK, Deliveries
<1>2. received' = Append(received, delivery)
  BY DEF Accept
<1>3. /\ n \in Nat /\ DOMAIN received = 1 .. n /\ DOMAIN received' = 1 .. n + 1
      /\ \A i \in DOMAIN received : received'[i] = received[i]
      /\ received'[n + 1] = delivery
  <2> HIDE DEF delivery
  <2> QED BY <1>1, <1>2, Appended
<1>4. /\ posts \in [Events -> [Attempts -> Posts]] /\ posts[e][k] = "sent"
      /\ posts' = [posts EXCEPT ![e][k] = "accepted"]
      /\ attempt' = attempt
  BY DEF Accept, EmitInv, TypeOK, emitter
<1> HIDE DEF n
<1>5. NothingAhead'
  BY <1>4 DEF NothingAhead
<1>6. \A i \in DOMAIN received : received[i] \in Deliveries
  BY ReceivedTyped
<1>7. \A i \in DOMAIN received : received[i] # delivery
  BY <1>4, <1>6 DEF AcceptedOnce
<1>8. \A i \in DOMAIN received' :
        posts'[received'[i].event][received'[i].attempt] = "accepted"
  <2> SUFFICES ASSUME NEW i \in DOMAIN received'
               PROVE  posts'[received'[i].event][received'[i].attempt] = "accepted"
    OBVIOUS
  <2>1. CASE i \in DOMAIN received
    <3>1. received'[i] = received[i] /\ received[i] \in Deliveries
      BY <1>3, <1>6, <2>1
    <3>2. posts[received[i].event][received[i].attempt] = "accepted"
      BY <2>1 DEF AcceptedOnce
    <3>3. received[i].event \in Events /\ received[i].attempt \in Attempts
      BY <3>1 DEF Deliveries
    <3> QED BY ONLY <1>4, <3>1, <3>2, <3>3
  <2>2. CASE i = n + 1
    <3>1. received'[i].event = e /\ received'[i].attempt = k
      BY <1>3, <2>2
    <3> QED BY ONLY <1>4, <3>1, e \in Events, k \in Attempts
  <2> QED BY <1>3, <2>1, <2>2
<1>9. \A i, j \in DOMAIN received' : received'[i] = received'[j] => i = j
  <2> HIDE DEF delivery
  <2> QED BY <1>3, <1>7 DEF AcceptedOnce
<1> QED BY <1>5, <1>8, <1>9 DEF AcceptedOnce

LEMMA RefuseKeepsOnce ==
  ASSUME EmitInv, NothingAhead, AcceptedOnce,
         NEW e \in Events, NEW k \in Attempts, Refuse(e, k)
  PROVE  NothingAhead' /\ AcceptedOnce'
<1>1. PICK fate \in {"refused", "lost"} : posts' = [posts EXCEPT ![e][k] = fate]
  BY DEF Refuse
<1>2. /\ posts \in [Events -> [Attempts -> Posts]] /\ posts[e][k] = "sent"
      /\ attempt' = attempt /\ received' = received
  BY DEF Refuse, EmitInv, TypeOK, emitter
<1>3. NothingAhead'
  BY <1>1, <1>2 DEF NothingAhead
<1>4. \A f \in Events, a \in Attempts :
        posts[f][a] = "accepted" => posts'[f][a] = "accepted"
  BY <1>1, <1>2
<1>5. \A i \in DOMAIN received :
        received[i].event \in Events /\ received[i].attempt \in Attempts
  BY ReceivedTyped DEF Deliveries
<1> QED BY <1>2, <1>3, <1>4, <1>5 DEF AcceptedOnce

LEMMA OnceNext ==
  EmitInv /\ NothingAhead /\ AcceptedOnce /\ [Next]_webhookVars
    => NothingAhead' /\ AcceptedOnce'
<1> SUFFICES ASSUME EmitInv, NothingAhead, AcceptedOnce, [Next]_webhookVars
             PROVE  NothingAhead' /\ AcceptedOnce'
  OBVIOUS
<1>1. ASSUME NEW e \in Events, Emit(e) \/ Retry(e) \/ Wake(e)
      PROVE  NothingAhead' /\ AcceptedOnce'
  <2>1. Post(e)
    BY <1>1 DEF Emit, Retry, Wake
  <2>2. attempt[e] < max_attempts
    BY <1>1, EmitterAssumption
       DEF Emit, Retry, Wake, EmitInv, AttemptsSent, TypeOK, Events, Attempts
  <2> QED BY <2>1, <2>2, PostKeepsOnce
<1>2. ASSUME UNCHANGED <<attempt, posts, received>>
      PROVE  NothingAhead' /\ AcceptedOnce'
  BY <1>2 DEF NothingAhead, AcceptedOnce
<1>3. ASSUME NEW e \in Events,
             Success(e) \/ GiveUp(e) \/ Sleep(e) \/ Cancel(e) \/ Respond(e)
      PROVE  UNCHANGED <<attempt, posts, received>>
  BY <1>3 DEF Success, GiveUp, Sleep, Cancel, Respond, Return
<1>4. CASE UNCHANGED webhookVars
  BY <1>2, <1>4 DEF webhookVars, emitter
<1> QED
  BY <1>1, <1>2, <1>3, <1>4, AcceptKeepsOnce, RefuseKeepsOnce DEF Next, Run

(* The posts of an event are told apart by their attempts.                 *)
LEMMA AtMostOncePerAttempt ==
  EmitInv /\ AcceptedOnce => DuplicatesBounded
<1> SUFFICES ASSUME EmitInv, AcceptedOnce, NEW e \in Events
             PROVE  Cardinality({i \in DOMAIN received : received[i].event = e})
                      <= max_attempts
  BY DEF DuplicatesBounded
<1> DEFINE mine == {i \in DOMAIN received : received[i].event = e}
           number == [i \in mine |-> received[i].attempt]
<1>1. \A i \in DOMAIN received : received[i] \in Deliveries
  BY ReceivedTyped
<1>2. number \in [mine -> Attempts]
  BY <1>1 DEF Deliveries
<1>3. \A i, j \in mine : number[i] = number[j] => i = j
  <2> SUFFICES ASSUME NEW i \in mine, NEW j \in mine, number[i] = number[j]
               PROVE  i = j
    OBVIOUS
  <2>1. received[i] \in Deliveries /\ received[j] \in Deliveries
    BY <1>1
  <2>2. received[i].event = received[j].event
        /\ received[i].attempt = received[j].attempt
    OBVIOUS
  <2>3. received[i] = received[j]
    BY ONLY <2>1, <2>2 DEF Deliveries
  <2> QED BY <2>3 DEF AcceptedOnce
<1>4. number \in Injection(mine, Attempts)
  BY <1>2, <1>3 DEF Injection, IsInjective
<1>5. IsFiniteSet(Attempts) /\ Cardinality(Attempts) = max_attempts
  BY FS_Interval, EmitterAssumption DEF Attempts
<1> HIDE DEF mine, number
<1>6. Cardinality(mine) <= max_attempts
  BY <1>4, <1>5, FS_Injection
<1> QED BY <1>6 DEF mine

(* An endpoint accepts an event at most max_attempts times, for any number *)
(* of events and attempts and however late it answers.                     *)
THEOREM DuplicatesCorrect == Spec => []DuplicatesBounded
<1>1. Init => EmitInv /\ NothingAhead /\ AcceptedOnce
  BY EmitInvInit, OnceInit
<1>2. EmitInv /\ NothingAhead /\ AcceptedOnce /\ [Next]_webhookVars
        => (EmitInv /\ NothingAhead /\ AcceptedOnce)'
  BY EmitInvNext, OnceNext
<1>3. EmitInv /\ NothingAhead /\ AcceptedOnce => DuplicatesBounded
  BY AtMostOncePerAttempt
<1> QED BY <1>1, <1>2, <1>3, PTL DEF Spec

-----------------------------------------------------------------------------
(* The refinement of EventDelivery: attempts, fates and delays are hidden  *)
(* behind the pending answer, and only three kinds of step show.           *)

(* The same operators, as the instance names them.                         *)
LEMMA CopiesAreCounted ==
  ASSUME NEW e
  PROVE  Delivery!Copies(e) = Cardinality({i \in DOMAIN received : received[i].event = e})
<1>1. {i \in DOMAIN Log : Log[i] = e} = {i \in DOMAIN received : received[i].event = e}
  BY DEF Log
<1> QED BY <1>1 DEF Delivery!Copies, Delivery!Cardinality, Cardinality

LEMMA LogTyped == ASSUME EmitInv PROVE Log \in Seq(Events)
<1>1. received \in Seq(Deliveries)
  BY DEF EmitInv, TypeOK, Deliveries
<1> DEFINE n == Len(received)
<1>2. n \in Nat /\ DOMAIN received = 1 .. n /\ \A i \in 1 .. n : received[i] \in Deliveries
  BY <1>1
<1>3. \A i \in 1 .. n : received[i].event \in Events
  BY <1>2 DEF Deliveries
<1> HIDE DEF n
<1>4. Log \in [1 .. n -> Events]
  BY <1>2, <1>3 DEF Log
<1> QED BY <1>2, <1>4

(* Until its emit returns, an event is pending, however often it is tried. *)
LEMMA StillPending ==
  ASSUME EmitInv, NEW e \in Events,
         NEW where \in {"posting", "reading", "sleeping"},
         task[e] \in {"posting", "reading", "sleeping"}, UNCHANGED <<returned, received>>,
         task' = [task EXCEPT ![e] = where]
  PROVE  UNCHANGED Delivery!deliveryVars
<1>1. task \in [Events -> {"new", "posting", "reading", "sleeping", "returned"}]
  BY DEF EmitInv, TypeOK
<1>2. Answers' = Answers
  BY <1>1 DEF Answers
<1>3. Log' = Log
  BY DEF Log
<1> QED BY <1>2, <1>3 DEF Delivery!deliveryVars

(* The first post of an event starts its delivery.                         *)
LEMMA EmitStarts ==
  ASSUME EmitInv, NEW e \in Events, Emit(e)
  PROVE  Delivery!Start(e)
<1>1. task \in [Events -> {"new", "posting", "reading", "sleeping", "returned"}]
  BY DEF EmitInv, TypeOK
<1>2. /\ task[e] = "new" /\ task' = [task EXCEPT ![e] = "posting"]
      /\ UNCHANGED <<returned, received>>
  BY DEF Emit, Post
<1>3. Answers[e] = "none" /\ Answers' = [Answers EXCEPT ![e] = "pending"]
  BY <1>1, <1>2 DEF Answers
<1>4. Log' = Log
  BY <1>2 DEF Log
<1> QED BY <1>3, <1>4 DEF Delivery!Start

(* A return answers, with True only for an event that is in the log.       *)
LEMMA ReturnAnswers ==
  ASSUME EmitInv, NEW e \in Events, NEW value \in {"true", "false", "cancelled"},
         Return(e, value), task[e] \in {"posting", "reading", "sleeping"},
         value = "true" => Received(e)
  PROVE  Delivery!Answer(e)
<1>1. /\ task \in [Events -> {"new", "posting", "reading", "sleeping", "returned"}]
      /\ returned \in [Events -> {"no", "true", "false", "cancelled"}]
  BY DEF EmitInv, TypeOK
<1>2. /\ task' = [task EXCEPT ![e] = "returned"]
      /\ returned' = [returned EXCEPT ![e] = value]
      /\ UNCHANGED received
  BY DEF Return
<1>3. Answers[e] = "pending" /\ Answers' = [Answers EXCEPT ![e] = value]
  BY <1>1, <1>2 DEF Answers
<1>4. Log' = Log
  BY <1>2 DEF Log
<1>5. value = "true" => \E i \in DOMAIN Log : Log[i] = e
  BY DEF Received, Log
<1> QED BY <1>3, <1>4, <1>5 DEF Delivery!Answer

(* An acceptance delivers: the event was started, and the bound on its     *)
(* copies after the step leaves room for one before it.                    *)
LEMMA AcceptDelivers ==
  ASSUME EmitInv, DuplicatesBounded', NEW e \in Events, NEW k \in Attempts,
         Accept(e, k)
  PROVE  Delivery!Deliver(e)
<1> DEFINE n == Len(received)
           delivery == [event |-> e, attempt |-> k]
           mine == {i \in DOMAIN received : received[i].event = e}
<1>1. received \in Seq(Deliveries) /\ delivery \in Deliveries
  BY DEF EmitInv, TypeOK, Deliveries
<1>2. received' = Append(received, delivery)
  BY DEF Accept
<1>3. /\ n \in Nat /\ DOMAIN received = 1 .. n /\ DOMAIN received' = 1 .. n + 1
      /\ \A i \in DOMAIN received : received'[i] = received[i]
      /\ received'[n + 1].event = e
  <2>1. delivery.event = e
    OBVIOUS
  <2> HIDE DEF delivery
  <2> QED BY <1>1, <1>2, <2>1, Appended
<1>4. /\ UNCHANGED <<task, returned>>
      /\ posts[e][k] = "sent"
  BY DEF Accept, emitter
<1> HIDE DEF n, delivery
<1>5. Delivery!Copies(e) < max_attempts
  <2>1. IsFiniteSet(mine)
    <3>1. IsFiniteSet(1 .. n)
      BY <1>3, FS_Interval
    <3>2. mine \subseteq 1 .. n
      BY <1>3
    <3> QED BY <3>1, <3>2, FS_Subset
  <2>2. n + 1 \notin mine
    BY <1>3
  <2>3. {i \in DOMAIN received' : received'[i].event = e} = mine \cup {n + 1}
    BY <1>3
  <2>4. Cardinality(mine \cup {n + 1}) <= max_attempts
    BY <2>3 DEF DuplicatesBounded
  <2>5. Delivery!Copies(e) = Cardinality(mine)
    BY CopiesAreCounted
  <2> HIDE DEF mine
  <2>6. Cardinality(mine) \in Nat /\ Cardinality(mine \cup {n + 1}) = Cardinality(mine) + 1
    BY <2>1, <2>2, FS_AddElement, FS_CardinalityType
  <2> QED BY <2>4, <2>5, <2>6, EmitterAssumption
<1>6. Log' = Append(Log, e)
  <2>1. Log \in Seq(Events) /\ Len(Log) = n /\ DOMAIN Log = 1 .. n
    <3>1. Log \in Seq(Events) /\ DOMAIN Log = 1 .. n
      BY <1>3, LogTyped DEF Log
    <3> QED BY <1>3, <3>1
  <2>2. /\ DOMAIN Append(Log, e) = 1 .. n + 1
        /\ \A i \in 1 .. n : Append(Log, e)[i] = Log[i]
        /\ Append(Log, e)[n + 1] = e
        /\ Append(Log, e) \in Seq(Events)
    BY <2>1, Appended
  <2>3. Append(Log, e) = [i \in 1 .. n + 1 |-> Append(Log, e)[i]]
    <3>1. \A seq \in Seq(Events) : seq = [i \in DOMAIN seq |-> seq[i]]
      OBVIOUS
    <3> QED BY <2>2, <3>1
  <2>4. \A i \in 1 .. n : Log[i] = received[i].event
    BY <1>3 DEF Log
  <2>5. \A i \in 1 .. n + 1 : received'[i].event = Append(Log, e)[i]
    BY <1>3, <2>2, <2>4
  <2>6. Log' = [i \in 1 .. n + 1 |-> received'[i].event]
    BY <1>3 DEF Log
  <2> QED BY <2>3, <2>5, <2>6
<1>7. Answers' = Answers
  BY <1>4 DEF Answers
<1>8. Answers[e] # "none"
  <2>1. task[e] # "new"
    BY <1>4 DEF EmitInv, AttemptsSent
  <2>2. task[e] = "returned" => returned[e] # "none"
    BY DEF EmitInv, TypeOK
  <2> QED BY <2>1, <2>2 DEF Answers
<1> QED BY <1>5, <1>6, <1>7, <1>8 DEF Delivery!Deliver

LEMMA DeliveryStarts == Init => Delivery!Init
<1> SUFFICES ASSUME Init PROVE Delivery!Init
  OBVIOUS
<1>1. Answers = [e \in Events |-> "none"]
  BY DEF Init, Answers
<1>2. Log = <<>>
  BY DEF Init, Log
<1> QED BY <1>1, <1>2 DEF Delivery!Init

LEMMA DeliveryFollows ==
  ASSUME EmitInv, DuplicatesBounded', [Next]_webhookVars
  PROVE  [Delivery!Next]_(Delivery!deliveryVars)
<1>1. ASSUME NEW e \in Events, Success(e) \/ GiveUp(e) \/ Cancel(e)
      PROVE  Delivery!Answer(e)
  <2>1. CASE Success(e)
    <3>1. posts[e][attempt[e]] = "accepted" /\ attempt[e] \in Attempts
      BY <2>1 DEF Success, Current, EmitInv, AttemptsSent
    <3>2. Received(e)
      BY <3>1 DEF EmitInv, PostsRecorded
    <3> QED BY <2>1, <3>2, ReturnAnswers DEF Success
  <2>2. CASE GiveUp(e)
    BY <2>2, ReturnAnswers DEF GiveUp, Failed
  <2>3. CASE Cancel(e)
    BY <2>3, ReturnAnswers DEF Cancel
  <2> QED BY <1>1, <2>1, <2>2, <2>3
<1>2. ASSUME NEW e \in Events, Retry(e) \/ Sleep(e) \/ Wake(e) \/ Respond(e)
      PROVE  UNCHANGED Delivery!deliveryVars
  <2>1. CASE Retry(e) \/ Wake(e)
    <3>1. /\ task[e] \in {"posting", "reading", "sleeping"}
          /\ UNCHANGED <<returned, received>>
          /\ task' = [task EXCEPT ![e] = "posting"]
      BY <2>1 DEF Retry, Wake, Failed, Post
    <3> QED BY <3>1, StillPending
  <2>2. CASE Sleep(e) \/ Respond(e)
    BY <2>2, StillPending DEF Sleep, Respond, Failed
  <2> QED BY <1>2, <2>1, <2>2
<1>3. ASSUME UNCHANGED <<task, returned, received>>
      PROVE  UNCHANGED Delivery!deliveryVars
  BY <1>3 DEF Delivery!deliveryVars, Answers, Log
<1>4. ASSUME NEW e \in Events, NEW k \in Attempts, Refuse(e, k)
      PROVE  UNCHANGED Delivery!deliveryVars
  BY <1>3, <1>4 DEF Refuse, emitter
<1>5. CASE UNCHANGED webhookVars
  BY <1>3, <1>5 DEF webhookVars, emitter
<1> QED
  BY <1>1, <1>2, <1>4, <1>5, EmitStarts, AcceptDelivers DEF Next, Run, Delivery!Next

(* Every behaviour of the emitter and its endpoint is one that             *)
(* EventDelivery allows, for any number of events and attempts: no         *)
(* delivery too many, none unasked for, one answer, and no True ahead of   *)
(* its delivery.                                                           *)
THEOREM DeliveryImplemented == Spec => ImplementsDelivery
<1>1. /\ Init => EmitInv
      /\ EmitInv /\ [Next]_webhookVars => EmitInv'
  BY EmitInvInit, EmitInvNext
<1>2. EmitInv /\ DuplicatesBounded' /\ [Next]_webhookVars
        => [Delivery!Next]_(Delivery!deliveryVars)
  BY DeliveryFollows
<1> QED
  BY <1>1, <1>2, DeliveryStarts, DuplicatesCorrect, PTL
     DEF Spec, ImplementsDelivery, Delivery!Spec
=============================================================================
