------------------------ MODULE OrderRouting_proofs ------------------------
(***************************************************************************)
(* What holds of a desk for every policy, every number of routers, every   *)
(* strategy and every book: an approval meets the policy, a breached       *)
(* drawdown limit or a run of losses stops the desk up to the orders in    *)
(* flight, and the exposure of a family stays within its limit up to one   *)
(* order of each other router.                                             *)
(***************************************************************************)
EXTENDS OrderRouting, FiniteSetTheorems, TLAPS

(* The chain answers "OK" only when each gate does.                        *)
LEMMA ApprovalNeedsEveryGate ==
  ASSUME NEW q, "OK" \in Answers(q)
  PROVE  /\ Finite(q.proposed_cost)
         /\ evaluate_expected_value(q.expected_value) = "OK"
         /\ evaluate_drawdown(q.daily_realized_pnl, q.equity) = "OK"
         /\ evaluate_consecutive_losses(q.trade_outcomes, q.current_time) = "OK"
         /\ evaluate_concentration(q.target_family, q.proposed_cost,
                                   q.open_positions) = "OK"
         /\ q.cluster_cap_ctx # None =>
              evaluate_cluster_cap(q.cluster_cap_ctx) = "OK"
<1> DEFINE v == Verdicts(q)
<1>1. Finite(q.proposed_cost) /\ FirstReason(v) = "OK"
  BY DEF Answers
<1>2. \A i \in DOMAIN v : v[i] = "OK"
  <2>1. SUFFICES ASSUME NEW i \in DOMAIN v, v[i] # "OK" PROVE FALSE
    OBVIOUS
  <2>2. DOMAIN v = 1 .. 5
    BY DEF Verdicts
  <2>3. \E k \in DOMAIN v : v[k] # "OK" /\ \A j \in 1 .. k - 1 : v[j] = "OK"
    <3> HIDE DEF v
    <3>1. CASE v[1] # "OK"
      BY <2>2, <3>1
    <3>2. CASE v[1] = "OK" /\ v[2] # "OK"
      BY <2>2, <3>2
    <3>3. CASE v[1] = "OK" /\ v[2] = "OK" /\ v[3] # "OK"
      BY <2>2, <3>3
    <3>4. CASE v[1] = "OK" /\ v[2] = "OK" /\ v[3] = "OK" /\ v[4] # "OK"
      BY <2>2, <3>4
    <3>5. CASE /\ v[1] = "OK" /\ v[2] = "OK" /\ v[3] = "OK" /\ v[4] = "OK"
               /\ v[5] # "OK"
      BY <2>2, <3>5
    <3>6. CASE /\ v[1] = "OK" /\ v[2] = "OK" /\ v[3] = "OK" /\ v[4] = "OK"
               /\ v[5] = "OK"
      BY <2>1, <2>2, <3>6
    <3> QED BY <3>1, <3>2, <3>3, <3>4, <3>5, <3>6
  <2> HIDE DEF v
  <2> QED BY <1>1, <2>1, <2>3 DEF FirstReason
<1>3. v[1] = "OK" /\ v[2] = "OK" /\ v[3] = "OK" /\ v[4] = "OK" /\ v[5] = "OK"
  BY <1>2 DEF Verdicts
<1> QED BY <1>1, <1>3 DEF Verdicts

-----------------------------------------------------------------------------

RequestFields ==
  {"daily_realized_pnl", "equity", "target_family", "proposed_cost",
   "open_positions", "expected_value", "trade_outcomes", "current_time",
   "cluster_cap_ctx"}

Settled == [zone : {"aware"}, t : Nat, pnl : Int]

(* Outcomes that settled in the order of the clock, up to an instant.      *)
Ordered(outcomes, at) ==
  /\ at \in Nat
  /\ outcomes \in Seq(Settled)
  /\ \A i \in DOMAIN outcomes : outcomes[i].t <= at
  /\ \A i, j \in DOMAIN outcomes : i < j => outcomes[i].t <= outcomes[j].t

OutcomesInv == Ordered(trade_outcomes, clock)

(* Requests hold what the desk put into them.                              *)
RequestTyped(q) ==
  /\ q.expected_value \in Money /\ q.proposed_cost \in Money
  /\ q.daily_realized_pnl \in Money /\ q.equity \in Money
  /\ q.cluster_cap_ctx \in {None} \cup Clusters
  /\ q.current_time = [zone |-> "aware", t |-> q.current_time.t]
  /\ Ordered(q.trade_outcomes, q.current_time.t)

(* An order in flight is a request and, once it is answered, an answer     *)
(* that evaluate_trade gave to it.                                         *)
OrderTyped(order) ==
  /\ DOMAIN order = {"request", "answer"}
  /\ DOMAIN order.request = RequestFields
  /\ RequestTyped(order.request)
  /\ order.answer = "OK" => "OK" \in Answers(order.request)

DeskInv ==
  /\ daily_realized_pnl \in Int
  /\ DOMAIN orders = Routers
  /\ \A r \in Routers : orders[r] # None => OrderTyped(orders[r])

(* The gate that a cause makes refuse a request.                           *)
Refuses(cause, q) ==
  IF cause = "drawdown"
  THEN evaluate_drawdown(q.daily_realized_pnl, q.equity) # "OK"
  ELSE evaluate_consecutive_losses(q.trade_outcomes, q.current_time) # "OK"

(* An order that is approved, or that the gate of the cause lets through.  *)
MayFill(cause, r) ==
  /\ orders[r] # None
  /\ \/ orders[r].answer = "OK"
     \/ orders[r].answer = None /\ ~Refuses(cause, orders[r].request)

(* A router that filled an order since a cause bars new trades has none in *)
(* flight that may be filled.  The other gates are not enough: a market    *)
(* that resolves can make the concentration gate change its mind.          *)
LateInv ==
  /\ late \in [Routers -> [Causes -> Nat]]
  /\ DOMAIN orders = Routers
  /\ \A r \in Routers, c \in Causes :
       /\ late[r][c] <= 1
       /\ late[r][c] = 1 => Barred(c) /\ ~MayFill(c, r)

-----------------------------------------------------------------------------

(* What the account reports is a number or a NaN.                          *)
LEMMA ReportsTyped ==
  ASSUME DeskInv, NEW figures \in Reports
  PROVE  figures.daily_realized_pnl \in Money /\ figures.equity \in Money
<1>1. CASE figures = Figures
  BY <1>1, DeskAssumption DEF DeskInv, Figures, Money
<1>2. CASE figures \in Garbled
  BY <1>2, GarbledAssumption
<1> QED BY <1>1, <1>2 DEF Reports

LEMMA RequestIsTyped ==
  ASSUME DeskInv, OutcomesInv, NEW p \in Proposals, NEW figures \in Reports
  PROVE  RequestTyped(Request(p, figures))
<1>1. /\ p.expected_value \in Money /\ p.proposed_cost \in Money
      /\ p.cluster_cap_ctx \in {None} \cup Clusters
  BY DeskAssumption
<1> QED BY <1>1, ReportsTyped DEF RequestTyped, Request, OutcomesInv

LEMMA OutcomesInvariant == Spec => []OutcomesInv
<1>1. Init => OutcomesInv
  BY DEF Init, OutcomesInv, Ordered
<1>2. ASSUME OutcomesInv, [Next]_vars
      PROVE  OutcomesInv'
  <2> USE <1>2 DEF OutcomesInv, Ordered
  <2>1. ASSUME UNCHANGED <<clock, trade_outcomes>>
        PROVE  OutcomesInv'
    BY <2>1
  <2>2. ASSUME NEW i \in DOMAIN open_positions, NEW pnl \in Results,
               Resolve(i, pnl)
        PROVE  OutcomesInv'
    <3> DEFINE new == [zone |-> "aware", t |-> clock, pnl |-> pnl]
    <3>1. new \in Settled
      BY DeskAssumption DEF Settled
    <3>2. trade_outcomes' = Append(trade_outcomes, new) /\ clock' = clock
      BY <2>2 DEF Resolve
    <3>3. trade_outcomes' \in Seq(Settled)
      BY <3>1, <3>2
    <3>4. new.t = clock
      OBVIOUS
    <3> HIDE DEF new
    <3>5. /\ DOMAIN trade_outcomes' = 1 .. Len(trade_outcomes) + 1
          /\ trade_outcomes'[Len(trade_outcomes) + 1] = new
          /\ \A j \in DOMAIN trade_outcomes : trade_outcomes'[j] = trade_outcomes[j]
      BY <3>1, <3>2
    <3>6. \A j \in DOMAIN trade_outcomes' : trade_outcomes'[j].t <= clock'
      BY <3>2, <3>4, <3>5
    <3> QED BY <3>2, <3>3, <3>4, <3>5, <3>6
  <2>3. CASE Tick
    <3>1. \A i \in DOMAIN trade_outcomes : trade_outcomes[i].t \in Nat
      <4>1. \A i \in DOMAIN trade_outcomes : trade_outcomes[i] \in Settled
        OBVIOUS
      <4> QED BY <4>1 DEF Settled
    <3> QED BY <2>3, <3>1 DEF Tick
  <2> QED BY <2>1, <2>2, <2>3
          DEF Next, Ask, EvaluateTrade, Fill, Drop, vars, book
<1> QED BY <1>1, <1>2, PTL DEF Spec

(* What a market that resolves changes in a request.                       *)
SameOrderButPositions(new, old) ==
  /\ DOMAIN new = DOMAIN old /\ DOMAIN new.request = DOMAIN old.request
  /\ new.answer = old.answer
  /\ \A field \in RequestFields \ {"open_positions"} :
       new.request[field] = old.request[field]

LEMMA PositionsChange ==
  ASSUME NEW old, NEW new, NEW positions,
         DOMAIN old = {"request", "answer"}, DOMAIN old.request = RequestFields,
         new = [old EXCEPT !.request.open_positions = positions]
  PROVE  SameOrderButPositions(new, old)
<1>1. /\ DOMAIN new = DOMAIN old /\ new.answer = old.answer
      /\ new.request = [old.request EXCEPT !.open_positions = positions]
  OBVIOUS
<1> QED BY <1>1 DEF SameOrderButPositions

LEMMA DeskStep ==
  ASSUME DeskInv, OutcomesInv, [Next]_vars
  PROVE  DeskInv'
<1> USE DEF DeskInv
<1>1. ASSUME NEW r \in Routers, NEW p \in Proposals, NEW figures \in Reports,
             Ask(r, p, figures)
      PROVE  DeskInv'
  <2>1. OrderTyped([request |-> Request(p, figures), answer |-> None])
    <3>1. DOMAIN Request(p, figures) = RequestFields
      BY DEF Request, RequestFields
    <3> QED BY <3>1, RequestIsTyped, NoneAssumption DEF OrderTyped
  <2>2. \A s \in Routers : orders'[s] # None => OrderTyped(orders'[s])
    BY <1>1, <2>1 DEF Ask
  <2> QED BY <1>1, <2>2 DEF Ask, book, OrderTyped, RequestTyped, Ordered
<1>2. ASSUME NEW r \in Routers, EvaluateTrade(r)
      PROVE  DeskInv'
  <2>1. PICK answer \in Answers(orders[r].request) :
          orders' = [orders EXCEPT ![r].answer = answer]
    BY <1>2 DEF EvaluateTrade
  <2>2. OrderTyped(orders[r])
    BY <1>2 DEF EvaluateTrade
  <2>3. OrderTyped(orders'[r])
    BY <2>1, <2>2 DEF OrderTyped
  <2>4. \A s \in Routers : orders'[s] # None => OrderTyped(orders'[s])
    BY <2>1, <2>3
  <2> QED BY <1>2, <2>1, <2>4
          DEF EvaluateTrade, book, OrderTyped, RequestTyped, Ordered
<1>3. ASSUME NEW r \in Routers, Fill(r) \/ Drop(r)
      PROVE  DeskInv'
  <2>1. orders' = [orders EXCEPT ![r] = None] /\ UNCHANGED daily_realized_pnl
    BY <1>3 DEF Fill, Drop, book
  <2>2. \A s \in Routers : orders'[s] # None => OrderTyped(orders'[s])
    BY <2>1
  <2> QED BY <2>1, <2>2 DEF OrderTyped, RequestTyped, Ordered
<1>4. ASSUME NEW i \in DOMAIN open_positions, NEW pnl \in Results,
             Resolve(i, pnl)
      PROVE  DeskInv'
  <2>1. daily_realized_pnl' \in Int /\ DOMAIN orders' = Routers
    BY <1>4, DeskAssumption DEF Resolve
  <2>2. ASSUME NEW s \in Routers, orders'[s] # None
        PROVE  OrderTyped(orders'[s])
    <3>1. orders[s] # None /\ OrderTyped(orders[s])
      BY <1>4, <2>2 DEF Resolve
    <3>2. CASE orders'[s] = orders[s]
      BY <3>1, <3>2
    <3>3. CASE /\ orders[s].answer = None
               /\ orders'[s] = [orders[s] EXCEPT
                    !.request.open_positions = Resolved(@, i)]
      <4>1. SameOrderButPositions(orders'[s], orders[s])
        <5> DEFINE positions == Resolved(orders[s].request.open_positions, i)
        <5>1. /\ DOMAIN orders[s] = {"request", "answer"}
              /\ DOMAIN orders[s].request = RequestFields
          BY <3>1 DEF OrderTyped
        <5>2. orders'[s] = [orders[s] EXCEPT !.request.open_positions = positions]
          BY <3>3
        <5> HIDE DEF positions
        <5> QED BY <5>1, <5>2, PositionsChange
      <4>2. OrderTyped(orders[s]) /\ orders'[s].answer # "OK"
        BY <3>1, <3>3, <4>1, NoneAssumption DEF SameOrderButPositions
      <4> QED BY <4>1, <4>2
              DEF OrderTyped, RequestTyped, RequestFields, SameOrderButPositions
    <3> QED BY <1>4, <3>2, <3>3 DEF Resolve
  <2> QED BY <2>1, <2>2 DEF OrderTyped, RequestTyped, Ordered
<1>5. CASE Tick
  BY <1>5 DEF Tick, OrderTyped, RequestTyped, Ordered
<1>6. CASE UNCHANGED vars
  BY <1>6 DEF vars, book, OrderTyped, RequestTyped, Ordered
<1> QED BY <1>1, <1>2, <1>3, <1>4, <1>5, <1>6 DEF Next

LEMMA DeskInvariant == Spec => []DeskInv
<1>1. Init => DeskInv
  BY DEF Init, DeskInv
<1> QED BY <1>1, DeskStep, OutcomesInvariant, PTL DEF Spec

(* The scan counts a run of losses that the list ends in.                  *)
LEMMA LossRunIsRefused ==
  ASSUME NEW outcomes, NEW at, Ordered(outcomes, at), LossRun(outcomes, at)
  PROVE  evaluate_consecutive_losses(
           outcomes, [zone |-> "aware", t |-> at]) # "OK"
<1> DEFINE n == Len(outcomes)
           k == consecutive_loss_limit
           run == n - k + 1 .. n
           counted == CountedRun(outcomes, at)
<1>1. n \in Nat /\ k \in 1 .. n /\ DOMAIN outcomes = 1 .. n
  BY DEF Ordered, LossRun
<1>2. \A i \in 1 .. n : outcomes[i].t \in Nat
  <2>1. \A i \in 1 .. n : outcomes[i] \in Settled
    BY <1>1 DEF Ordered
  <2> QED BY <2>1 DEF Settled
<1>3. ASSUME NEW i \in run
      PROVE  Counted(outcomes[i], at)
  <2>1. outcomes[i].pnl < 0 /\ at - outcomes[i].t <= consecutive_loss_window
    BY DEF LossRun
  <2>2. at \in Nat /\ outcomes[i].t \in Nat /\ outcomes[i].t <= at
    <3>1. i \in 1 .. n
      BY <1>1
    <3> QED BY <1>1, <1>2, <3>1 DEF Ordered
  <2>3. at - outcomes[i].t \in Nat
    BY <2>2
  <2> QED BY <2>1, <2>3, PolicyAssumption DEF Counted
<1>4. ASSUME NEW i \in run
      PROVE  Reached(outcomes, at, i)
  <2>1. \A j \in 1 .. n : Newer(outcomes, j, i) => j \in run
    BY SMTT(60), <1>1, <1>2 DEF Newer, Ordered
  <2> QED BY <1>1, <1>3, <2>1 DEF Reached
<1>5. run \subseteq counted
  BY <1>1, <1>3, <1>4 DEF CountedRun
<1>6. IsFiniteSet(counted)
  <2>1. IsFiniteSet(1 .. n)
    BY <1>1, FS_Interval
  <2>2. counted \subseteq 1 .. n
    BY <1>1 DEF CountedRun
  <2> QED BY <2>1, <2>2, FS_Subset
<1>7. Cardinality(counted) >= k
  <2>1. Cardinality(run) = k
    BY <1>1, FS_Interval
  <2>2. Cardinality(run) <= Cardinality(counted)
    BY <1>5, <1>6, FS_Subset
  <2> QED BY <1>1, <1>6, <2>1, <2>2, FS_CardinalityType
<1>8. ScanLosses(outcomes, at) # "OK"
  BY <1>7 DEF ScanLosses
<1> DEFINE now == [zone |-> "aware", t |-> at]
<1>9. now # None /\ now.t = at
  BY NoneAssumption DEF Ordered
<1>10. outcomes # <<>> /\ consecutive_loss_limit # 0
  BY <1>1
<1> HIDE DEF now
<1>11. evaluate_consecutive_losses(outcomes, now) # "OK"
  BY <1>8, <1>9, <1>10 DEF evaluate_consecutive_losses
<1> QED BY <1>11 DEF now

LEMMA ApprovalMeetsPolicy ==
  ASSUME NEW q, RequestTyped(q), "OK" \in Answers(q)
  PROVE  MeetsPolicy(q)
<1>1. AtMost(min_expected_value, q.expected_value)
  BY ApprovalNeedsEveryGate, PolicyAssumption, NanAssumption
     DEF RequestTyped, Money, AtMost, Finite, evaluate_expected_value
<1>2. /\ Finite(q.equity) /\ Finite(q.daily_realized_pnl) /\ q.equity > 0
      /\ -(max_daily_drawdown_pct * q.equity) <= 100 * q.daily_realized_pnl
  <2>1. /\ Finite(q.equity) /\ Finite(q.daily_realized_pnl)
        /\ ~(q.equity <= 0)
        /\ ~(100 * q.daily_realized_pnl < -(max_daily_drawdown_pct * q.equity))
    BY ApprovalNeedsEveryGate DEF evaluate_drawdown
  <2>2. q.equity \in Int /\ q.daily_realized_pnl \in Int
    BY <2>1 DEF RequestTyped, Money, Finite
  <2>3. max_daily_drawdown_pct * q.equity \in Int
    BY <2>2, PolicyAssumption
  <2> QED BY <2>1, <2>2, <2>3
<1>3. ~(Exposure(q.target_family, q.open_positions) + q.proposed_cost
          > max_correlated_exposure)
  BY ApprovalNeedsEveryGate DEF evaluate_concentration
<1>4. ASSUME q.cluster_cap_ctx # None
      PROVE  LET c == q.cluster_cap_ctx
             IN /\ Finite(c.proposed_cost)
                /\ c.known /\ c.proposed_cost > 0 /\ Finite(c.max_cluster_usd) =>
                     /\ c.max_cluster_usd > 0
                     /\ Finite(c.cluster_open_usd) =>
                          c.cluster_open_usd + c.proposed_cost <= c.max_cluster_usd
  <2> DEFINE c == q.cluster_cap_ctx
  <2>1. /\ c.cluster_open_usd \in Money /\ c.proposed_cost \in Money
        /\ c.max_cluster_usd \in Money
    BY <1>4 DEF RequestTyped, Clusters
  <2>2. evaluate_cluster_cap(c) = "OK"
    BY <1>4, ApprovalNeedsEveryGate
  <2> HIDE DEF c
  <2>3. Finite(c.proposed_cost)
    BY <2>2 DEF evaluate_cluster_cap
  <2>4. ASSUME c.known, c.proposed_cost > 0, Finite(c.max_cluster_usd)
        PROVE  /\ c.max_cluster_usd > 0
               /\ Finite(c.cluster_open_usd) =>
                    c.cluster_open_usd + c.proposed_cost <= c.max_cluster_usd
    <3>1. c.proposed_cost \in Int /\ c.max_cluster_usd \in Int
      BY <2>1, <2>3, <2>4 DEF Money, Finite
    <3>2. /\ ~AtMost(c.proposed_cost, 0)
          /\ ~AtMost(c.max_cluster_usd, 0)
      BY <2>2, <2>3, <2>4, <3>1 DEF evaluate_cluster_cap, AtMost
    <3>3. ASSUME Finite(c.cluster_open_usd)
          PROVE  c.cluster_open_usd + c.proposed_cost <= c.max_cluster_usd
      <4>1. c.cluster_open_usd \in Int
        BY <2>1, <3>3 DEF Money, Finite
      <4>2. ~(c.cluster_open_usd + c.proposed_cost > c.max_cluster_usd)
        BY <2>2, <2>3, <2>4, <3>2, <3>3 DEF evaluate_cluster_cap
      <4> QED BY <3>1, <4>1, <4>2
    <3>4. c.max_cluster_usd > 0
      BY <3>1, <3>2, NanAssumption DEF AtMost, Finite
    <3> QED BY <3>3, <3>4
  <2> QED BY <2>3, <2>4 DEF c
<1>5. /\ consecutive_loss_limit >= 0 /\ consecutive_loss_window >= 0
      /\ ~LossRun(q.trade_outcomes, q.current_time.t)
  <2>1. evaluate_consecutive_losses(q.trade_outcomes, q.current_time) = "OK"
    BY ApprovalNeedsEveryGate
  <2>2. /\ Ordered(q.trade_outcomes, q.current_time.t)
        /\ q.current_time = [zone |-> "aware", t |-> q.current_time.t]
    BY DEF RequestTyped
  <2>3. ~LossRun(q.trade_outcomes, q.current_time.t)
    BY <2>1, <2>2, LossRunIsRefused
  <2>4. ~(consecutive_loss_limit < 0 \/ consecutive_loss_window < 0)
    BY <2>1 DEF evaluate_consecutive_losses
  <2> QED BY <2>3, <2>4, PolicyAssumption
<1> QED BY <1>1, <1>2, <1>3, <1>4, <1>5, ApprovalNeedsEveryGate DEF MeetsPolicy

(* What evaluate_trade approves meets every limit of the policy, whatever  *)
(* the policy, the strategies, the book and the reports of the account:    *)
(* the expected value, the drawdown of a live account, the run of losses,  *)
(* the exposure of the family, the cap of the cluster.                     *)
THEOREM PolicyEnforced == Spec => []ApprovedMeetsPolicy
<1>1. DeskInv => ApprovedMeetsPolicy
  BY ApprovalMeetsPolicy
     DEF DeskInv, OrderTyped, ApprovedMeetsPolicy, Approved
<1> QED BY <1>1, DeskInvariant, PTL

-----------------------------------------------------------------------------

(* While a cause bars new trades, its gate refuses a new request.          *)
LEMMA BarredIsRefused ==
  ASSUME DeskInv, OutcomesInv, NEW p \in Proposals, NEW figures \in Reports,
         NEW c \in Causes, Barred(c)
  PROVE  Refuses(c, Request(p, figures))
<1>1. CASE c = "drawdown"
  <2>1. DrawdownBreached
    BY <1>1 DEF Barred
  <2>2. CASE figures = Figures
    BY <1>1, <2>1, <2>2
       DEF Refuses, Request, Figures, evaluate_drawdown, DrawdownBreached
  <2>3. CASE figures \in Garbled
    <3>1. \/ ~Finite(figures.daily_realized_pnl) \/ ~Finite(figures.equity)
          \/ figures.equity <= 0
      BY <2>3, GarbledAssumption
    <3> QED BY <1>1, <3>1 DEF Refuses, Request, evaluate_drawdown
  <2> QED BY <2>2, <2>3 DEF Reports
<1>2. CASE c = "losses"
  <2>1. LossRun(trade_outcomes, clock) /\ Ordered(trade_outcomes, clock)
    BY <1>2 DEF Barred, OutcomesInv
  <2>2. evaluate_consecutive_losses(
          trade_outcomes, [zone |-> "aware", t |-> clock]) # "OK"
    BY <2>1, LossRunIsRefused
  <2> QED BY <1>2, <2>2 DEF Refuses, Request
<1> QED BY <1>1, <1>2 DEF Causes

-----------------------------------------------------------------------------

(* A step in which no router, or one that had no late fill, fills.         *)
LEMMA LateCounted ==
  ASSUME LateInv, NEW filled \in SUBSET Routers, CountLate(filled),
         \A r \in filled, c \in Causes : late[r][c] = 0
  PROVE  /\ late' \in [Routers -> [Causes -> Nat]]
         /\ \A r \in Routers, c \in Causes :
              /\ late'[r][c] <= 1
              /\ late'[r][c] = 1 =>
                   Barred(c)' /\ (r \in filled \/ late[r][c] = 1)
<1>1. \A r \in Routers, c \in Causes : late[r][c] \in Nat
  BY DEF LateInv
<1>2. \A r \in Routers, c \in Causes :
        late'[r][c] = IF ~Barred(c)' THEN 0
                      ELSE IF r \in filled /\ Barred(c) THEN late[r][c] + 1
                      ELSE late[r][c]
  BY DEF CountLate
<1>3. late' \in [Routers -> [Causes -> Nat]]
  BY <1>1 DEF CountLate
<1> QED BY <1>1, <1>2, <1>3 DEF LateInv

LEMMA LateStep ==
  ASSUME LateInv, DeskInv, OutcomesInv, [Next]_vars
  PROVE  LateInv'
<1>1. ASSUME CountLate({}), DOMAIN orders' = Routers,
             \A r \in Routers, c \in Causes :
               late[r][c] = 1 => ~MayFill(c, r)'
      PROVE  LateInv'
  BY <1>1, LateCounted DEF LateInv
<1>2. ASSUME NEW r \in Routers, NEW p \in Proposals, NEW figures \in Reports,
             Ask(r, p, figures)
      PROVE  LateInv'
  <2>1. orders' = [orders EXCEPT ![r] = [request |-> Request(p, figures),
                                         answer |-> None]]
    BY <1>2 DEF Ask
  <2>2. ASSUME NEW c \in Causes, late[r][c] = 1
        PROVE  ~MayFill(c, r)'
    <3>1. Refuses(c, Request(p, figures))
      BY <2>2, BarredIsRefused DEF LateInv
    <3> QED BY <2>1, <3>1, NoneAssumption DEF LateInv, MayFill
  <2>3. \A s \in Routers, c \in Causes : s # r => MayFill(c, s)' = MayFill(c, s)
    BY <2>1 DEF LateInv, MayFill
  <2> QED BY <1>1, <1>2, <2>1, <2>2, <2>3 DEF LateInv, Ask
<1>3. ASSUME NEW r \in Routers, EvaluateTrade(r)
      PROVE  LateInv'
  <2>1. PICK answer \in Answers(orders[r].request) :
          orders' = [orders EXCEPT ![r].answer = answer]
    BY <1>3 DEF EvaluateTrade
  <2>2. orders[r] # None /\ orders[r].answer = None
    BY <1>3 DEF EvaluateTrade
  <2>3. ASSUME NEW c \in Causes, ~MayFill(c, r)
        PROVE  ~MayFill(c, r)'
    <3>1. Refuses(c, orders[r].request)
      BY <2>2, <2>3 DEF MayFill
    <3>2. answer # "OK"
      BY <3>1, ApprovalNeedsEveryGate DEF Refuses
    <3>3. orders'[r].answer = answer /\ orders'[r].request = orders[r].request
      BY <2>1 DEF LateInv
    <3> QED BY <3>1, <3>2, <3>3 DEF MayFill
  <2>4. \A s \in Routers, c \in Causes : s # r => MayFill(c, s)' = MayFill(c, s)
    BY <2>1 DEF LateInv, MayFill
  <2> QED BY <1>1, <1>3, <2>1, <2>3, <2>4 DEF LateInv, EvaluateTrade
<1>4. ASSUME NEW r \in Routers, Fill(r)
      PROVE  LateInv'
  <2>1. orders' = [orders EXCEPT ![r] = None] /\ CountLate({r})
    BY <1>4 DEF Fill
  <2>2. \A c \in Causes : late[r][c] = 0
    <3>1. \A c \in Causes : MayFill(c, r)
      BY <1>4 DEF Fill, MayFill
    <3>2. \A c \in Causes : late[r][c] \in Nat /\ late[r][c] <= 1
      BY DEF LateInv
    <3> QED BY SMTT(60), <3>1, <3>2 DEF LateInv
  <2>3. \A c \in Causes : ~MayFill(c, r)'
    BY <2>1 DEF LateInv, MayFill
  <2>4. \A s \in Routers, c \in Causes : s # r => MayFill(c, s)' = MayFill(c, s)
    BY <2>1 DEF LateInv, MayFill
  <2>5. /\ late' \in [Routers -> [Causes -> Nat]]
        /\ \A s \in Routers, c \in Causes :
             /\ late'[s][c] <= 1
             /\ late'[s][c] = 1 => Barred(c)' /\ (s = r \/ late[s][c] = 1)
    BY <2>1, <2>2, LateCounted
  <2>6. DOMAIN orders' = Routers
    BY <2>1 DEF LateInv
  <2>7. \A s \in Routers, c \in Causes : late'[s][c] = 1 => ~MayFill(c, s)'
    BY SMTT(60), <2>3, <2>4, <2>5 DEF LateInv
  <2> QED BY <2>5, <2>6, <2>7 DEF LateInv
<1>5. ASSUME NEW r \in Routers, Drop(r)
      PROVE  LateInv'
  <2>1. orders' = [orders EXCEPT ![r] = None]
    BY <1>5 DEF Drop
  <2>2. \A s \in Routers, c \in Causes : ~MayFill(c, s) => ~MayFill(c, s)'
    BY <2>1 DEF LateInv, MayFill
  <2> QED BY <1>1, <1>5, <2>1, <2>2 DEF LateInv, Drop
<1>6. ASSUME NEW i \in DOMAIN open_positions, NEW pnl \in Results,
             Resolve(i, pnl)
      PROVE  LateInv'
  <2>1. ASSUME NEW s \in Routers, NEW c \in Causes
        PROVE  ~MayFill(c, s) => ~MayFill(c, s)'
    <3>1. CASE orders'[s] = orders[s]
      BY <3>1 DEF MayFill
    <3>2. CASE /\ orders[s] # None /\ orders[s].answer = None
               /\ orders'[s] = [orders[s] EXCEPT
                    !.request.open_positions = Resolved(@, i)]
      <4>1. SameOrderButPositions(orders'[s], orders[s])
        <5> DEFINE positions == Resolved(orders[s].request.open_positions, i)
        <5>1. /\ DOMAIN orders[s] = {"request", "answer"}
              /\ DOMAIN orders[s].request = RequestFields
          BY <3>2 DEF DeskInv, OrderTyped
        <5>2. orders'[s] = [orders[s] EXCEPT !.request.open_positions = positions]
          BY <3>2
        <5> HIDE DEF positions
        <5> QED BY <5>1, <5>2, PositionsChange
      <4>2. /\ Refuses(c, orders'[s].request) <=> Refuses(c, orders[s].request)
            /\ orders'[s].answer = orders[s].answer
        BY <4>1 DEF Refuses, SameOrderButPositions, RequestFields
      <4> QED BY <3>2, <4>2 DEF MayFill
    <3> QED BY <1>6, <3>1, <3>2 DEF Resolve
  <2>2. DOMAIN orders' = Routers
    BY <1>6 DEF Resolve
  <2> QED BY <1>1, <1>6, <2>1, <2>2 DEF LateInv, Resolve
<1>7. CASE Tick
  <2>1. \A s \in Routers, c \in Causes : MayFill(c, s)' = MayFill(c, s)
    BY <1>7 DEF Tick, MayFill
  <2> QED BY <1>1, <1>7, <2>1 DEF LateInv, Tick
<1>8. CASE UNCHANGED vars
  BY <1>8 DEF vars, book, LateInv, MayFill, Barred, DrawdownBreached, LossRun
<1> QED BY <1>2, <1>3, <1>4, <1>5, <1>6, <1>7, <1>8 DEF Next

LEMMA LateInvariant == Spec => []LateInv
<1>1. Init => LateInv
  BY DEF Init, LateInv, Causes
<1> QED BY <1>1, LateStep, DeskInvariant, OutcomesInvariant, PTL DEF Spec

(* A breached drawdown limit stops the desk up to the orders in flight.    *)
THEOREM DrawdownEnforced == Spec => []DrawdownStopsDesk
<1>1. LateInv => DrawdownStopsDesk
  BY DEF LateInv, DrawdownStopsDesk, Causes
<1> QED BY <1>1, LateInvariant, PTL

(* So does a run of losses, for every limit and window.                    *)
THEOREM LossRunEnforced == Spec => []LossRunStopsDesk
<1>1. LateInv => LossRunStopsDesk
  BY DEF LateInv, LossRunStopsDesk, Causes
<1> QED BY <1>1, LateInvariant, PTL

-----------------------------------------------------------------------------

(* A set of finite sets that is not empty has a smallest member.           *)
LEMMA SmallestSet ==
  ASSUME NEW S, IsFiniteSet(S), NEW T, T \subseteq SUBSET S, T # {}
  PROVE  \E U \in T : \A V \in T : V \subseteq U => V = U
<1>1. IsWellFoundedOn(StrictSubsetOrdering(S), SUBSET S)
  BY FS_StrictSubsetOrderingWellFounded, FS_FiniteSubsetsOfFinite
<1>2. PICK U \in T : \A V \in T : <<V, U>> \notin StrictSubsetOrdering(S)
  BY <1>1, WFMin
<1>3. U \in SUBSET S /\ \A V \in T : V \in SUBSET S
  OBVIOUS
<1> QED BY <1>2, <1>3 DEF StrictSubsetOrdering

(* The sums that Exposure takes.  MapThenSumSet adds up a set by a         *)
(* recursive function on its subsets; that the function exists, and what   *)
(* it adds up to, is shown by the smallest set for which it would not.     *)

First(U) == CHOOSE i \in U : TRUE

(* One step of the sum over U, the smaller sums being g.                   *)
SumStep(positions, g, U) ==
  IF U = {} THEN 0 ELSE positions[First(U)].cost_basis + g[U \ {First(U)}]

SumsUpTo(positions, W, g) == g = [U \in W |-> SumStep(positions, g, U)]

(* First picks an element.                                                 *)
LEMMA FirstIn == ASSUME NEW U, U # {} PROVE First(U) \in U
BY DEF First

(* The recursion has a solution: a solution on fewer subsets extends to    *)
(* the smallest subset it leaves out.                                      *)
LEMMA SumsExist ==
  ASSUME NEW positions, NEW S, IsFiniteSet(S)
  PROVE  \E g : SumsUpTo(positions, SUBSET S, g)
<1> DEFINE Closed(W) == \A U \in W : U # {} => U \ {First(U)} \in W
           Done == {W \in SUBSET SUBSET S :
                      Closed(W) /\ \E g : SumsUpTo(positions, W, g)}
           Left == {(SUBSET S) \ W : W \in Done}
<1>1. IsFiniteSet(SUBSET S)
  BY FS_SUBSET
<1>2. {} \in Done
  BY DEF SumsUpTo
<1>3. PICK W \in Done :
        \A V \in Done : (SUBSET S) \ V \subseteq (SUBSET S) \ W
                          => (SUBSET S) \ V = (SUBSET S) \ W
  <2> HIDE DEF Done
  <2>1. Left \subseteq SUBSET SUBSET S /\ Left # {}
    BY <1>2
  <2>2. PICK L \in Left : \A M \in Left : M \subseteq L => M = L
    <3> HIDE DEF Left
    <3> QED BY <1>1, <2>1, SmallestSet
  <2>3. PICK W \in Done : L = (SUBSET S) \ W
    BY <2>2
  <2>4. \A V \in Done : (SUBSET S) \ V \in Left
    OBVIOUS
  <2> HIDE DEF Left
  <2>5. \A M \in Left :
          M \subseteq (SUBSET S) \ W => M = (SUBSET S) \ W
    BY <2>2, <2>3
  <2>6. \A V \in Done : (SUBSET S) \ V \subseteq (SUBSET S) \ W
                          => (SUBSET S) \ V = (SUBSET S) \ W
    BY ONLY <2>4, <2>5, Zenon
  <2> QED BY <2>6
<1>4. W \subseteq SUBSET S /\ Closed(W) /\ \E g : SumsUpTo(positions, W, g)
  OBVIOUS
<1>5. CASE W = SUBSET S
  BY <1>4, <1>5
<1>6. CASE W # SUBSET S
  <2> DEFINE T == (SUBSET S) \ W
  <2>1. T \subseteq SUBSET S /\ T # {}
    BY <1>4, <1>6
  <2>2. PICK U \in T : \A V \in T : V \subseteq U => V = U
    <3> HIDE DEF T
    <3> QED BY <2>1, SmallestSet
  <2>3. U \in SUBSET S /\ U \notin W
    OBVIOUS
  <2>4. U # {} => U \ {First(U)} \in W
    <3>1. SUFFICES ASSUME U # {} PROVE U \ {First(U)} \in W
      OBVIOUS
    <3>2. First(U) \in U
      BY <3>1, FirstIn
    <3> QED BY <2>2, <2>3, <3>2
  <2>5. PICK g : SumsUpTo(positions, W, g)
    BY <1>4
  <2> DEFINE X == W \cup {U}
             h == [V \in X |-> IF V \in W THEN g[V] ELSE SumStep(positions, g, U)]
  <2> HIDE DEF Done, Left, T
  <2>6. Closed(X)
    BY <1>4, <2>4
  <2>7. \A V \in X : V # {} => h[V \ {First(V)}] = g[V \ {First(V)}]
    BY <1>4, <2>4
  <2>8. \A V \in W : g[V] = SumStep(positions, g, V)
    BY <2>5 DEF SumsUpTo
  <2>9. \A V \in X : h[V] = SumStep(positions, h, V)
    BY <2>3, <2>7, <2>8 DEF SumStep
  <2>10. SumsUpTo(positions, X, h)
    <3>1. h = [V \in X |-> h[V]]
      OBVIOUS
    <3> HIDE DEF h
    <3> QED BY <2>9, <3>1 DEF SumsUpTo
  <2>11. X \in Done
    <3>1. X \in SUBSET SUBSET S
      BY <1>4, <2>3
    <3> HIDE DEF X, h, Closed
    <3> QED BY <2>6, <2>10, <3>1 DEF Done
  <2> QED BY <1>3, <2>3, <2>11
<1> QED BY <1>5, <1>6

(* A sum depends only on the costs of the positions in it.                 *)
LEMMA SumsAgree ==
  ASSUME NEW p, NEW q, NEW S, NEW R, NEW g, NEW h, NEW U, IsFiniteSet(U),
         SumsUpTo(p, SUBSET S, g), SumsUpTo(q, SUBSET R, h),
         U \subseteq S, U \subseteq R,
         \A i \in U : p[i].cost_basis = q[i].cost_basis
  PROVE  g[U] = h[U]
<1> DEFINE T == {V \in SUBSET U : g[V] # h[V]}
<1>1. SUFFICES ASSUME T # {} PROVE FALSE
  OBVIOUS
<1>2. T \subseteq SUBSET U
  OBVIOUS
<1>3. PICK V \in T : \A X \in T : X \subseteq V => X = V
  <2> HIDE DEF T
  <2> QED BY <1>1, <1>2, SmallestSet
<1>4. V \in SUBSET S /\ V \in SUBSET R /\ g[V] # h[V]
  OBVIOUS
<1>5. g[V] = SumStep(p, g, V) /\ h[V] = SumStep(q, h, V)
  BY <1>4 DEF SumsUpTo
<1>6. CASE V = {}
  BY <1>4, <1>5, <1>6 DEF SumStep
<1>7. CASE V # {}
  <2>1. First(V) \in V
    BY <1>7, FirstIn
  <2>2. V \ {First(V)} \notin T
    BY <1>3, <2>1
  <2>3. g[V \ {First(V)}] = h[V \ {First(V)}]
    BY <2>2
  <2>4. p[First(V)].cost_basis = q[First(V)].cost_basis
    BY <2>1
  <2> QED BY <1>4, <1>5, <2>3, <2>4 DEF SumStep
<1> QED BY <1>6, <1>7

(* Sums of natural numbers are natural numbers.                            *)
LEMMA SumsTyped ==
  ASSUME NEW p, NEW S, NEW g, IsFiniteSet(S), SumsUpTo(p, SUBSET S, g),
         \A i \in S : p[i].cost_basis \in Nat
  PROVE  \A U \in SUBSET S : g[U] \in Nat
<1> DEFINE T == {V \in SUBSET S : g[V] \notin Nat}
<1>1. SUFFICES ASSUME T # {} PROVE FALSE
  OBVIOUS
<1>2. T \subseteq SUBSET S
  OBVIOUS
<1>3. PICK V \in T : \A X \in T : X \subseteq V => X = V
  <2> HIDE DEF T
  <2> QED BY <1>1, <1>2, SmallestSet
<1>4. g[V] = SumStep(p, g, V)
  BY DEF SumsUpTo
<1>6. CASE V = {}
  BY <1>4, <1>6 DEF SumStep
<1>7. CASE V # {}
  <2>1. First(V) \in V
    BY <1>7, FirstIn
  <2>2. V \ {First(V)} \notin T
    BY <1>3, <2>1
  <2>3. g[V \ {First(V)}] \in Nat
    BY <2>2
  <2> QED BY <1>4, <1>7, <2>1, <2>3 DEF SumStep
<1> QED BY <1>6, <1>7

(* Any position can be taken out of a sum first.                           *)
LEMMA SumsSplit ==
  ASSUME NEW p, NEW S, NEW g, IsFiniteSet(S), SumsUpTo(p, SUBSET S, g),
         \A i \in S : p[i].cost_basis \in Nat
  PROVE  \A U \in SUBSET S, i \in S :
           i \in U => g[U] = p[i].cost_basis + g[U \ {i}]
<1> DEFINE Split(U) == \A i \in U : g[U] = p[i].cost_basis + g[U \ {i}]
           T == {V \in SUBSET S : ~Split(V)}
<1>1. SUFFICES ASSUME T # {} PROVE FALSE
  OBVIOUS
<1>2. T \subseteq SUBSET S
  OBVIOUS
<1>3. PICK V \in T : \A X \in T : X \subseteq V => X = V
  <2> HIDE DEF T
  <2> QED BY <1>1, <1>2, SmallestSet
<1>4. V \in SUBSET S /\ ~Split(V)
  OBVIOUS
<1>5. PICK i \in V : g[V] # p[i].cost_basis + g[V \ {i}]
  BY <1>4
<1> DEFINE c == First(V)
<1>6. c \in V
  BY <1>5, FirstIn
<1> HIDE DEF c
<1>7. g[V] = p[c].cost_basis + g[V \ {c}]
  BY <1>4, <1>5 DEF SumsUpTo, SumStep, c
<1>8. c # i
  BY <1>5, <1>7
<1>9. V \ {c} \notin T /\ V \ {i} \notin T
  BY <1>3, <1>5, <1>6
<1>10. Split(V \ {c}) /\ Split(V \ {i})
  BY <1>4, <1>9
<1>11. g[V \ {c}] = p[i].cost_basis + g[(V \ {c}) \ {i}]
  BY <1>5, <1>8, <1>10
<1>12. g[V \ {i}] = p[c].cost_basis + g[(V \ {i}) \ {c}]
  BY <1>6, <1>8, <1>10
<1> DEFINE rest == g[(V \ {i}) \ {c}]
<1>13. g[V \ {c}] = p[i].cost_basis + rest /\ g[V \ {i}] = p[c].cost_basis + rest
  <2>1. (V \ {c}) \ {i} = (V \ {i}) \ {c}
    OBVIOUS
  <2> QED BY <1>11, <1>12, <2>1
<1>14. rest \in Nat
  BY <1>4, SumsTyped
<1>15. p[c].cost_basis \in Nat /\ p[i].cost_basis \in Nat
  BY <1>4, <1>5, <1>6
<1> HIDE DEF rest
<1> QED BY ONLY <1>5, <1>7, <1>13, <1>14, <1>15

(* What the positions of S cost together.                                  *)
Total(positions, S) == MapThenSumSet(LAMBDA i : positions[i].cost_basis, S)

(* MapThenSumSet is a solution of the recursion.                           *)
LEMMA TotalIsSum ==
  ASSUME NEW p, NEW S, IsFiniteSet(S)
  PROVE  \E g : SumsUpTo(p, SUBSET S, g) /\ Total(p, S) = g[S]
<1> DEFINE g == CHOOSE g : SumsUpTo(p, SUBSET S, g)
<1>1. SumsUpTo(p, SUBSET S, g)
  BY SumsExist
<1>2. Total(p, S) = g[S]
  BY DEF Total, MapThenSumSet, MapThenFoldSet, SumsUpTo, SumStep, First
<1> QED BY <1>1, <1>2

LEMMA TotalEmpty ==
  ASSUME NEW p
  PROVE  Total(p, {}) = 0
<1>1. IsFiniteSet({})
  BY FS_EmptySet
<1>2. PICK g : SumsUpTo(p, SUBSET {}, g) /\ Total(p, {}) = g[{}]
  BY <1>1, TotalIsSum
<1> QED BY <1>2 DEF SumsUpTo, SumStep

(* One more position adds its cost.                                        *)
LEMMA TotalAdd ==
  ASSUME NEW p, NEW S, IsFiniteSet(S), NEW x, x \notin S,
         \A i \in S \cup {x} : p[i].cost_basis \in Nat
  PROVE  Total(p, S \cup {x}) = p[x].cost_basis + Total(p, S)
<1> DEFINE R == S \cup {x}
<1>1. IsFiniteSet(R)
  BY FS_AddElement
<1>2. PICK g : SumsUpTo(p, SUBSET R, g) /\ Total(p, R) = g[R]
  BY <1>1, TotalIsSum
<1>3. PICK h : SumsUpTo(p, SUBSET S, h) /\ Total(p, S) = h[S]
  BY TotalIsSum
<1>4. g[R] = p[x].cost_basis + g[R \ {x}]
  <2>1. \A i \in R : p[i].cost_basis \in Nat
    OBVIOUS
  <2>2. R \in SUBSET R /\ x \in R
    OBVIOUS
  <2> HIDE DEF R
  <2> QED BY <1>1, <1>2, <2>1, <2>2, SumsSplit
<1>5. R \ {x} = S
  OBVIOUS
<1>6. g[S] = h[S]
  <2>1. S \subseteq R
    OBVIOUS
  <2> HIDE DEF R
  <2> QED BY SMTT(60), <1>2, <1>3, <2>1, SumsAgree
<1> QED BY <1>2, <1>3, <1>4, <1>5, <1>6

(* Two books that agree on the costs of S agree on its total.              *)
LEMMA TotalSame ==
  ASSUME NEW p, NEW q, NEW S, IsFiniteSet(S),
         \A i \in S : p[i].cost_basis = q[i].cost_basis
  PROVE  Total(p, S) = Total(q, S)
<1>1. PICK g : SumsUpTo(p, SUBSET S, g) /\ Total(p, S) = g[S]
  BY TotalIsSum
<1>2. PICK h : SumsUpTo(q, SUBSET S, h) /\ Total(q, S) = h[S]
  BY TotalIsSum
<1> QED BY SMTT(60), <1>1, <1>2, SumsAgree

(* A total of costs that are not negative is not negative.                 *)
LEMMA TotalTyped ==
  ASSUME NEW p, NEW S, IsFiniteSet(S), \A i \in S : p[i].cost_basis \in Nat
  PROVE  Total(p, S) \in Nat
<1>1. PICK g : SumsUpTo(p, SUBSET S, g) /\ Total(p, S) = g[S]
  BY TotalIsSum
<1>2. S \in SUBSET S
  OBVIOUS
<1>3. g[S] \in Nat
  BY <1>1, <1>2, SumsTyped
<1> QED BY <1>1, <1>3

-----------------------------------------------------------------------------
(* Exposure of a family in a book of positions that cost nothing negative. *)

Positions == [family : Families, cost_basis : 0 .. MaxCost, is_resolved : BOOLEAN]

Adds(family, position) ==
  IF ~position.is_resolved /\ position.family = family
  THEN position.cost_basis ELSE 0

(* The positions of a family are finitely many and have a cost.            *)
LEMMA HeldIsFinite ==
  ASSUME NEW family, NEW positions \in Seq(Positions), MaxCost \in Nat
  PROVE  /\ IsFiniteSet(Held(family, positions))
         /\ \A i \in DOMAIN positions : positions[i].cost_basis \in Nat
<1>1. Len(positions) \in Nat /\ DOMAIN positions = 1 .. Len(positions)
  OBVIOUS
<1>2. IsFiniteSet(DOMAIN positions)
  BY <1>1, FS_Interval
<1>3. Held(family, positions) \subseteq DOMAIN positions
  BY DEF Held
<1>4. \A i \in DOMAIN positions : positions[i] \in Positions
  BY <1>1
<1>5. \A i \in DOMAIN positions : positions[i].cost_basis \in Nat
  BY <1>4 DEF Positions
<1> QED BY <1>2, <1>3, <1>5, FS_Subset

(* Exposure is never negative.                                             *)
LEMMA ExposureTyped ==
  ASSUME NEW family, NEW positions \in Seq(Positions), MaxCost \in Nat
  PROVE  Exposure(family, positions) \in Nat
<1>1. /\ IsFiniteSet(Held(family, positions))
      /\ \A i \in DOMAIN positions : positions[i].cost_basis \in Nat
  BY HeldIsFinite
<1>2. Held(family, positions) \subseteq DOMAIN positions
  BY DEF Held
<1>3. Total(positions, Held(family, positions)) \in Nat
  BY <1>1, <1>2, TotalTyped
<1> QED BY <1>3 DEF Exposure, Total

(* A position that is filled adds its cost to the exposure of its family.  *)
LEMMA ExposureOfAppend ==
  ASSUME NEW family, NEW positions \in Seq(Positions), MaxCost \in Nat,
         NEW position \in Positions
  PROVE  Exposure(family, Append(positions, position))
           = Exposure(family, positions) + Adds(family, position)
<1> DEFINE n == Len(positions) + 1
           book2 == Append(positions, position)
           held == Held(family, positions)
<1>1. /\ book2 \in Seq(Positions) /\ Len(positions) \in Nat
      /\ DOMAIN positions = 1 .. Len(positions)
      /\ DOMAIN book2 = 1 .. n /\ book2[n] = position
      /\ \A i \in 1 .. Len(positions) : book2[i] = positions[i]
  OBVIOUS
<1> HIDE DEF book2
<1>2. /\ IsFiniteSet(held)
      /\ \A i \in DOMAIN book2 : book2[i].cost_basis \in Nat
  BY <1>1, HeldIsFinite
<1>3. /\ held \subseteq 1 .. Len(positions)
      /\ Held(family, book2)
           = IF ~position.is_resolved /\ position.family = family
             THEN held \cup {n} ELSE held
  BY <1>1 DEF Held
<1> HIDE DEF held, n
<1>4. n \notin held /\ \A i \in held : i \in DOMAIN book2
  BY <1>1, <1>3 DEF n
<1>5. Total(book2, held) = Total(positions, held)
  <2>1. \A i \in held : book2[i].cost_basis = positions[i].cost_basis
    BY <1>1, <1>3
  <2> QED BY <1>2, <2>1, TotalSame
<1>6. n \in DOMAIN book2 /\ book2[n].cost_basis = position.cost_basis
  BY <1>1 DEF n
<1>7. Total(book2, held \cup {n}) = position.cost_basis + Total(book2, held)
  <2>1. \A i \in held \cup {n} : book2[i].cost_basis \in Nat
    BY <1>2, <1>4, <1>6
  <2> QED BY <1>2, <1>4, <1>6, <2>1, TotalAdd
<1>8. Total(book2, held) \in Nat /\ position.cost_basis \in Nat
  BY <1>2, <1>4, <1>6, TotalTyped
<1>9. /\ Exposure(family, book2) = Total(book2, Held(family, book2))
      /\ Exposure(family, positions) = Total(positions, held)
  BY DEF Exposure, Total, held
<1>10. Exposure(family, book2) = Total(positions, held) + Adds(family, position)
  BY <1>3, <1>5, <1>7, <1>8, <1>9 DEF Adds
<1> QED BY <1>9, <1>10 DEF book2

(* A position that resolves takes its cost off the exposure.               *)
LEMMA ExposureOfResolved ==
  ASSUME NEW family, NEW positions \in Seq(Positions), MaxCost \in Nat,
         NEW i \in DOMAIN positions, ~positions[i].is_resolved
  PROVE  /\ Resolved(positions, i) \in Seq(Positions)
         /\ Len(Resolved(positions, i)) = Len(positions)
         /\ Exposure(family, positions)
              = Exposure(family, Resolved(positions, i)) + Adds(family, positions[i])
<1> DEFINE after == Resolved(positions, i)
           rest == Held(family, after)
<1>1. /\ positions[i] \in Positions /\ Len(positions) \in Nat
      /\ DOMAIN positions = 1 .. Len(positions)
  OBVIOUS
<1>2. [positions[i] EXCEPT !.is_resolved = TRUE] \in Positions
  BY <1>1 DEF Positions
<1>3. after = [positions EXCEPT ![i] = [positions[i] EXCEPT !.is_resolved = TRUE]]
  BY DEF Resolved
<1>4. /\ after \in Seq(Positions) /\ Len(after) = Len(positions)
      /\ DOMAIN after = DOMAIN positions
      /\ after[i] = [positions[i] EXCEPT !.is_resolved = TRUE]
      /\ \A j \in DOMAIN positions : j # i => after[j] = positions[j]
  BY <1>1, <1>2, <1>3
<1>5. /\ after[i].is_resolved /\ after[i].cost_basis = positions[i].cost_basis
  BY <1>1, <1>4 DEF Positions
<1> HIDE DEF after
<1>6. /\ i \notin rest /\ rest \subseteq DOMAIN positions
      /\ Held(family, positions)
           = IF positions[i].family = family THEN rest \cup {i} ELSE rest
  BY ZenonT(60), <1>4, <1>5 DEF Held
<1>7. /\ IsFiniteSet(rest)
      /\ \A j \in DOMAIN positions : positions[j].cost_basis \in Nat
  BY <1>4, HeldIsFinite
<1> HIDE DEF rest
<1>8. Total(after, rest) = Total(positions, rest)
  <2>1. \A j \in rest : after[j].cost_basis = positions[j].cost_basis
    BY <1>4, <1>6
  <2> QED BY <1>7, <2>1, TotalSame
<1>9. Total(positions, rest \cup {i}) = positions[i].cost_basis + Total(positions, rest)
  <2>1. \A j \in rest \cup {i} : positions[j].cost_basis \in Nat
    BY <1>6, <1>7
  <2> QED BY <1>6, <1>7, <2>1, TotalAdd
<1>10. Total(positions, rest) \in Nat /\ positions[i].cost_basis \in Nat
  <2>1. \A j \in rest : positions[j].cost_basis \in Nat
    BY <1>6, <1>7
  <2> QED BY <1>7, <2>1, TotalTyped
<1>11. /\ Exposure(family, positions) = Total(positions, Held(family, positions))
       /\ Exposure(family, after) = Total(after, rest)
  BY DEF Exposure, Total, rest
<1>12. Exposure(family, positions)
         = Exposure(family, after) + Adds(family, positions[i])
  BY <1>6, <1>8, <1>9, <1>10, <1>11 DEF Adds
<1> QED BY <1>4, <1>12 DEF after

-----------------------------------------------------------------------------
(* A desk of finitely many routers whose orders cost nothing negative.     *)
CostsBounded ==
  /\ IsFiniteSet(Routers)
  /\ MaxCost \in Nat
  /\ \A p \in Proposals :
       Finite(p.proposed_cost) => p.proposed_cost \in 0 .. MaxCost

CopyOf(r) == orders[r].request.open_positions
FamilyOf(r) == orders[r].request.target_family
CostOf(r) == orders[r].request.proposed_cost

(* What a copy of the book still tells of the book: positions are only     *)
(* added and resolved, and an order without an answer sees both resolve.   *)
Tracks(copy, positions, open) ==
  /\ copy \in Seq(Positions) /\ Len(copy) <= Len(positions)
  /\ \A i \in DOMAIN copy :
       /\ copy[i].family = positions[i].family
       /\ copy[i].cost_basis = positions[i].cost_basis
       /\ open => copy[i].is_resolved = positions[i].is_resolved

BookInv ==
  /\ open_positions \in Seq(Positions)
  /\ \A r \in Routers : orders[r] # None =>
       /\ FamilyOf(r) \in Families
       /\ Finite(CostOf(r)) => CostOf(r) \in 0 .. MaxCost
       /\ Tracks(CopyOf(r), open_positions, orders[r].answer = None)

(* The positions of a family beyond the first j of the book, and the       *)
(* orders for it that were asked for when the book was no longer than j.   *)
After(family, j) ==
  {i \in DOMAIN open_positions : i > j /\ open_positions[i].family = family}
Asked(family, j) ==
  {r \in Routers : /\ orders[r] # None /\ FamilyOf(r) = family
                   /\ Len(CopyOf(r)) <= j}

(* The book holds at most what an order in flight has seen of it and what  *)
(* was filled since.                                                       *)
CopyInv ==
  \A r \in Routers, family \in Families : orders[r] # None =>
    Exposure(family, open_positions)
      <= Exposure(family, CopyOf(r))
           + Cardinality(After(family, Len(CopyOf(r)))) * MaxCost

(* k is the length of the copy that the youngest filled order was judged   *)
(* on.  What is beyond it was asked for no later, hence by other routers,  *)
(* each of which had that one order in flight.                             *)
Bounded(family, k) ==
  /\ \/ Exposure(family, open_positions) = 0
     \/ Exposure(family, open_positions)
          <= max_correlated_exposure
               + (Cardinality(After(family, k)) - 1) * MaxCost
  /\ \A j \in k .. Len(open_positions) :
       Cardinality(After(family, j)) + Cardinality(Asked(family, j))
         <= Cardinality(Routers)

RoutedInv ==
  \A family \in Families : \E k \in 0 .. Len(open_positions) : Bounded(family, k)

(* The two sets are finite.                                                *)
LEMMA CountsTyped ==
  ASSUME CostsBounded, BookInv, NEW family, NEW j \in Nat
  PROVE  /\ IsFiniteSet(After(family, j)) /\ Cardinality(After(family, j)) \in Nat
         /\ IsFiniteSet(Asked(family, j)) /\ Cardinality(Asked(family, j)) \in Nat
         /\ Cardinality(Asked(family, j)) <= Cardinality(Routers)
         /\ Cardinality(Routers) \in Nat
<1>1. Len(open_positions) \in Nat /\ DOMAIN open_positions = 1 .. Len(open_positions)
  BY DEF BookInv
<1>2. IsFiniteSet(DOMAIN open_positions)
  BY <1>1, FS_Interval
<1>3. After(family, j) \subseteq DOMAIN open_positions
  BY DEF After
<1>4. Asked(family, j) \subseteq Routers /\ IsFiniteSet(Routers)
  BY DEF Asked, CostsBounded
<1> QED BY <1>2, <1>3, <1>4, FS_Subset, FS_CardinalityType

(* The end of the book: nothing lies beyond it.                            *)
LEMMA NothingAfter ==
  ASSUME BookInv, NEW family, NEW j \in Nat, j >= Len(open_positions)
  PROVE  After(family, j) = {} /\ Cardinality(After(family, j)) = 0
<1>1. Len(open_positions) \in Nat /\ DOMAIN open_positions = 1 .. Len(open_positions)
  BY DEF BookInv
<1>2. After(family, j) = {}
  BY <1>1 DEF After
<1> QED BY <1>2, FS_EmptySet

-----------------------------------------------------------------------------
(* Steps that at most remove or answer orders in flight.                   *)

OrdersKept ==
  \A r \in Routers : orders'[r] # None =>
    /\ orders[r] # None /\ orders'[r].request = orders[r].request
    /\ orders'[r].answer = None => orders[r].answer = None

(* As far as the counts go: family and length of the copy are kept.        *)
CountsKept ==
  \A r \in Routers : orders'[r] # None =>
    /\ orders[r] # None /\ FamilyOf(r)' = FamilyOf(r)
    /\ Len(CopyOf(r)') = Len(CopyOf(r))

LEMMA AskedShrinks ==
  ASSUME CostsBounded, BookInv, CountsKept, NEW family, NEW j \in Nat
  PROVE  /\ Asked(family, j)' \subseteq Asked(family, j)
         /\ Cardinality(Asked(family, j)') \in Nat
         /\ Cardinality(Asked(family, j)') <= Cardinality(Asked(family, j))
<1>1. Asked(family, j)' \subseteq Asked(family, j)
  BY DEF CountsKept, Asked
<1>2. IsFiniteSet(Asked(family, j))
  BY CountsTyped
<1> QED BY <1>1, <1>2, FS_Subset, FS_CardinalityType

(* The bound survives a step that fills nothing.                           *)
LEMMA BoundKept ==
  ASSUME CostsBounded, BookInv, CountsKept, NEW family \in Families,
         NEW k \in 0 .. Len(open_positions), Bounded(family, k),
         Len(open_positions') = Len(open_positions),
         \A j : After(family, j)' = After(family, j),
         Exposure(family, open_positions) \in Nat,
         Exposure(family, open_positions') \in Nat,
         Exposure(family, open_positions') <= Exposure(family, open_positions)
  PROVE  Bounded(family, k)'
<1> DEFINE e == Exposure(family, open_positions)
           e2 == Exposure(family, open_positions')
           room == max_correlated_exposure
                     + (Cardinality(After(family, k)) - 1) * MaxCost
<1>1. Len(open_positions) \in Nat
  BY DEF BookInv
<1>2. e2 = 0 \/ e2 <= room
  <2>1. e = 0 \/ e <= room
    BY DEF Bounded
  <2>2. room \in Int
    <3>1. Cardinality(After(family, k)) \in Nat
      BY <1>1, CountsTyped
    <3> QED BY <3>1, PolicyAssumption DEF CostsBounded
  <2> HIDE DEF room
  <2> QED BY <2>1, <2>2
<1>3. ASSUME NEW j \in k .. Len(open_positions)
      PROVE  Cardinality(After(family, j)) + Cardinality(Asked(family, j)')
               <= Cardinality(Routers)
  <2>1. j \in Nat
    BY <1>1
  <2>2. /\ Cardinality(After(family, j)) \in Nat
        /\ Cardinality(Asked(family, j)) \in Nat /\ Cardinality(Routers) \in Nat
    BY <2>1, CountsTyped
  <2>3. /\ Cardinality(Asked(family, j)') \in Nat
        /\ Cardinality(Asked(family, j)') <= Cardinality(Asked(family, j))
    BY <2>1, AskedShrinks
  <2> QED BY <2>2, <2>3 DEF Bounded
<1> QED BY <1>2, <1>3 DEF Bounded

ExposureInv == BookInv /\ CopyInv /\ RoutedInv

(* Steps that leave the book alone.                                        *)
LEMMA QuietStep ==
  ASSUME CostsBounded, ExposureInv, OrdersKept, UNCHANGED open_positions
  PROVE  ExposureInv'
<1> USE DEF ExposureInv
<1>1. BookInv'
  <2>1. ASSUME NEW r \in Routers, orders'[r] # None
        PROVE  /\ FamilyOf(r)' \in Families
               /\ Finite(CostOf(r)') => CostOf(r)' \in 0 .. MaxCost
               /\ Tracks(CopyOf(r), open_positions, orders[r].answer = None)'
    <3>1. /\ orders[r] # None /\ orders'[r].request = orders[r].request
          /\ orders'[r].answer = None => orders[r].answer = None
      BY <2>1 DEF OrdersKept
    <3> QED BY <3>1 DEF BookInv, FamilyOf, CostOf, CopyOf, Tracks
  <2> QED BY <2>1 DEF BookInv
<1>2. \A family, j : After(family, j)' = After(family, j)
  BY DEF After
<1>3. CopyInv'
  <2>1. ASSUME NEW r \in Routers, NEW family \in Families, orders'[r] # None
        PROVE  orders[r] # None /\ CopyOf(r)' = CopyOf(r)
    BY <2>1 DEF OrdersKept, CopyOf
  <2> QED BY <1>2, <2>1 DEF CopyInv
<1>4. RoutedInv'
  <2>1. SUFFICES ASSUME NEW family \in Families
                 PROVE  \E k \in 0 .. Len(open_positions)' : Bounded(family, k)'
    BY DEF RoutedInv
  <2>2. PICK k \in 0 .. Len(open_positions) : Bounded(family, k)
    BY DEF RoutedInv
  <2>3. CountsKept
    BY DEF OrdersKept, CountsKept, FamilyOf, CopyOf
  <2>4. Exposure(family, open_positions) \in Nat
    BY ExposureTyped DEF BookInv, CostsBounded
  <2>5. Exposure(family, open_positions) <= Exposure(family, open_positions)
    BY <2>4
  <2>6. Bounded(family, k)'
    BY <1>2, <2>2, <2>3, <2>4, <2>5, BoundKept
  <2> QED BY <2>6
<1> QED BY <1>1, <1>3, <1>4

(* A router copies the book into a request.                                *)
LEMMA AskStep ==
  ASSUME CostsBounded, ExposureInv, DeskInv,
         NEW r \in Routers, NEW p \in Proposals, NEW figures \in Reports,
         Ask(r, p, figures)
  PROVE  ExposureInv'
<1> USE DEF ExposureInv
<1>1. /\ orders' = [orders EXCEPT ![r] = [request |-> Request(p, figures),
                                           answer |-> None]]
      /\ open_positions' = open_positions /\ orders[r] = None
      /\ DOMAIN orders = Routers
  BY DEF Ask, book, DeskInv
<1>2. /\ orders'[r].answer = None
      /\ CopyOf(r)' = open_positions /\ FamilyOf(r)' = p.target_family
      /\ CostOf(r)' = p.proposed_cost
  <2>1. orders'[r] = [request |-> Request(p, figures), answer |-> None]
    BY <1>1
  <2> QED BY <2>1 DEF CopyOf, FamilyOf, CostOf, Request
<1>3. \A s \in Routers : s # r => orders'[s] = orders[s]
  BY <1>1
<1>4. Len(open_positions) \in Nat /\ DOMAIN open_positions = 1 .. Len(open_positions)
  BY DEF BookInv
<1>5. BookInv'
  <2>1. Tracks(open_positions, open_positions, TRUE)
    BY <1>4 DEF Tracks, BookInv
  <2>2. p.target_family \in Families
    BY DEF Families
  <2>3. /\ FamilyOf(r)' \in Families
        /\ Finite(CostOf(r)') => CostOf(r)' \in 0 .. MaxCost
        /\ Tracks(CopyOf(r), open_positions, orders[r].answer = None)'
    BY <1>1, <1>2, <2>1, <2>2 DEF CostsBounded, Tracks
  <2>4. ASSUME NEW s \in Routers, s # r, orders'[s] # None
        PROVE  /\ FamilyOf(s)' \in Families
               /\ Finite(CostOf(s)') => CostOf(s)' \in 0 .. MaxCost
               /\ Tracks(CopyOf(s), open_positions, orders[s].answer = None)'
    BY <1>1, <1>3, <2>4 DEF BookInv, FamilyOf, CostOf, CopyOf, Tracks
  <2> QED BY <1>1, <2>3, <2>4 DEF BookInv
<1>6. \A family, j : After(family, j)' = After(family, j)
  BY <1>1 DEF After
<1>7. CopyInv'
  <2>1. ASSUME NEW family \in Families
        PROVE  Exposure(family, open_positions)
                 <= Exposure(family, CopyOf(r)')
                      + Cardinality(After(family, Len(CopyOf(r)'))) * MaxCost
    <3>1. Cardinality(After(family, Len(open_positions))) = 0
      BY <1>4, NothingAfter
    <3>2. Exposure(family, open_positions) \in Nat
      BY ExposureTyped DEF BookInv, CostsBounded
    <3> QED BY <1>2, <3>1, <3>2 DEF CostsBounded
  <2>2. ASSUME NEW s \in Routers, s # r, orders'[s] # None
        PROVE  orders[s] # None /\ CopyOf(s)' = CopyOf(s)
    BY <1>3, <2>2 DEF CopyOf
  <2> QED BY <1>1, <1>6, <2>1, <2>2 DEF CopyInv
<1>8. RoutedInv'
  <2>1. SUFFICES ASSUME NEW family \in Families
                 PROVE  \E k \in 0 .. Len(open_positions)' : Bounded(family, k)'
    BY DEF RoutedInv
  <2>2. PICK k \in 0 .. Len(open_positions) : Bounded(family, k)
    BY DEF RoutedInv
  <2>3. ASSUME NEW j \in k .. Len(open_positions)
        PROVE  Cardinality(After(family, j)) + Cardinality(Asked(family, j)')
                 <= Cardinality(Routers)
    <3>1. j \in Nat /\ j <= Len(open_positions)
      BY <1>4
    <3>2. CASE j < Len(open_positions)
      <4>1. Asked(family, j)' = Asked(family, j)
        <5>1. ~(Len(CopyOf(r)') <= j)
          BY <1>2, <1>4, <3>1, <3>2
        <5>2. \A s \in Routers : s # r =>
                /\ orders'[s] = orders[s] /\ FamilyOf(s)' = FamilyOf(s)
                /\ CopyOf(s)' = CopyOf(s)
          BY <1>3 DEF FamilyOf, CopyOf
        <5> QED BY <1>1, <5>1, <5>2 DEF Asked
      <4> QED BY <2>2, <4>1 DEF Bounded
    <3>3. CASE j >= Len(open_positions)
      <4>1. Cardinality(After(family, j)) = 0
        BY <3>1, <3>3, <1>4, NothingAfter
      <4>2. /\ Cardinality(Asked(family, j)') <= Cardinality(Routers)
            /\ Cardinality(Asked(family, j)') \in Nat
        <5>1. Asked(family, j)' \subseteq Routers
          BY DEF Asked
        <5> QED BY <5>1, FS_Subset, FS_CardinalityType DEF CostsBounded
      <4> QED BY <4>1, <4>2
    <3>4. j < Len(open_positions) \/ j >= Len(open_positions)
      BY <1>4, <3>1
    <3> QED BY ONLY <3>2, <3>3, <3>4, Zenon
  <2> QED BY <1>1, <1>6, <2>2, <2>3 DEF Bounded
<1> QED BY <1>5, <1>7, <1>8

(* A market that resolves: what it changes in the book and in the orders.  *)
LEMMA ResolveChanges ==
  ASSUME CostsBounded, BookInv, DeskInv, NEW i \in DOMAIN open_positions,
         NEW pnl \in Results, Resolve(i, pnl)
  PROVE  /\ open_positions' = Resolved(open_positions, i)
         /\ ~open_positions[i].is_resolved
         /\ \A r \in Routers : orders'[r] # None =>
              /\ orders[r] # None /\ orders'[r].answer = orders[r].answer
              /\ FamilyOf(r)' = FamilyOf(r) /\ CostOf(r)' = CostOf(r)
              /\ CopyOf(r)' = IF orders[r].answer = None /\ i \in DOMAIN CopyOf(r)
                              THEN Resolved(CopyOf(r), i) ELSE CopyOf(r)
<1>1. /\ open_positions' = Resolved(open_positions, i)
      /\ ~open_positions[i].is_resolved
  BY DEF Resolve
<1>2. ASSUME NEW r \in Routers, orders'[r] # None
      PROVE  /\ orders[r] # None /\ orders'[r].answer = orders[r].answer
             /\ FamilyOf(r)' = FamilyOf(r) /\ CostOf(r)' = CostOf(r)
             /\ CopyOf(r)' = IF orders[r].answer = None /\ i \in DOMAIN CopyOf(r)
                             THEN Resolved(CopyOf(r), i) ELSE CopyOf(r)
  <2>1. orders'[r] =
          IF orders[r] # None /\ orders[r].answer = None /\ i \in DOMAIN CopyOf(r)
          THEN [orders[r] EXCEPT !.request.open_positions = Resolved(@, i)]
          ELSE orders[r]
    BY DEF Resolve, CopyOf
  <2>2. CASE orders[r] # None /\ orders[r].answer = None /\ i \in DOMAIN CopyOf(r)
    <3>1. /\ DOMAIN orders[r] = {"request", "answer"}
          /\ DOMAIN orders[r].request = RequestFields
      BY <2>2 DEF DeskInv, OrderTyped
    <3>2. orders'[r] = [orders[r] EXCEPT
                          !.request.open_positions = Resolved(CopyOf(r), i)]
      BY <2>1, <2>2 DEF CopyOf
    <3> DEFINE copy == Resolved(CopyOf(r), i)
    <3>3. orders'[r] = [orders[r] EXCEPT !.request.open_positions = copy]
      BY <3>2
    <3> HIDE DEF copy
    <3>4. SameOrderButPositions(orders'[r], orders[r])
      BY <3>1, <3>3, PositionsChange
    <3>5. orders'[r].request.open_positions = copy
      <4>1. orders'[r].request = [orders[r].request EXCEPT !.open_positions = copy]
        BY <3>1, <3>3
      <4> QED BY <3>1, <4>1 DEF RequestFields
    <3> QED BY <2>2, <3>4, <3>5
            DEF SameOrderButPositions, RequestFields, CopyOf, FamilyOf, CostOf, copy
  <2>3. CASE ~(orders[r] # None /\ orders[r].answer = None /\ i \in DOMAIN CopyOf(r))
    <3>1. orders'[r] = orders[r]
      BY <2>1, <2>3
    <3> QED BY <1>2, <2>3, <3>1 DEF CopyOf, FamilyOf, CostOf
  <2> QED BY <2>2, <2>3
<1> QED BY <1>1, <1>2

(* A copy still tracks the book when both resolve, or the book alone if    *)
(* the order is answered.                                                  *)
LEMMA TracksResolved ==
  ASSUME NEW copy, NEW open \in BOOLEAN, Tracks(copy, open_positions, open),
         open_positions \in Seq(Positions), MaxCost \in Nat,
         NEW i \in DOMAIN open_positions, ~open_positions[i].is_resolved
  PROVE  LET next == IF open /\ i \in DOMAIN copy THEN Resolved(copy, i) ELSE copy
         IN  /\ Tracks(next, Resolved(open_positions, i), open)
             /\ Len(next) = Len(copy)
             /\ \A family :
                  \/ /\ Exposure(family, copy)
                          = Exposure(family, next) + Adds(family, open_positions[i])
                  \/ Exposure(family, next) = Exposure(family, copy)
<1> DEFINE next == IF open /\ i \in DOMAIN copy THEN Resolved(copy, i) ELSE copy
           positions == Resolved(open_positions, i)
<1>1. /\ copy \in Seq(Positions) /\ Len(copy) \in Nat
      /\ DOMAIN copy = 1 .. Len(copy) /\ Len(copy) <= Len(open_positions)
      /\ DOMAIN open_positions = 1 .. Len(open_positions)
      /\ Len(open_positions) \in Nat
  BY DEF Tracks
<1>2. /\ positions \in Seq(Positions) /\ Len(positions) = Len(open_positions)
      /\ DOMAIN positions = DOMAIN open_positions
  BY <1>1, ExposureOfResolved
<1>3. /\ \A j \in DOMAIN open_positions : j # i => positions[j] = open_positions[j]
      /\ positions[i].family = open_positions[i].family
      /\ positions[i].cost_basis = open_positions[i].cost_basis
      /\ positions[i].is_resolved
  <2>1. open_positions[i] \in Positions
    BY <1>1
  <2> QED BY <2>1 DEF Resolved, Positions
<1> HIDE DEF positions
<1>4. CASE open /\ i \in DOMAIN copy
  <2>1. /\ copy[i] \in Positions /\ ~copy[i].is_resolved
        /\ copy[i].family = open_positions[i].family
        /\ copy[i].cost_basis = open_positions[i].cost_basis
    BY <1>1, <1>4 DEF Tracks
  <2>2. next = Resolved(copy, i)
    BY <1>4
  <2> HIDE DEF next
  <2>3. /\ next \in Seq(Positions) /\ Len(next) = Len(copy)
        /\ DOMAIN next = DOMAIN copy
        /\ \A family : Exposure(family, copy)
                         = Exposure(family, next) + Adds(family, copy[i])
    <3>1. \A family :
            /\ Resolved(copy, i) \in Seq(Positions)
            /\ Len(Resolved(copy, i)) = Len(copy)
            /\ Exposure(family, copy)
                 = Exposure(family, Resolved(copy, i)) + Adds(family, copy[i])
      BY <1>1, <1>4, <2>1, ExposureOfResolved
    <3>2. /\ next \in Seq(Positions) /\ Len(next) = Len(copy)
          /\ \A family : Exposure(family, copy)
                           = Exposure(family, next) + Adds(family, copy[i])
      BY ONLY <2>2, <3>1
    <3> QED BY <1>1, <3>2
  <2>4. /\ \A j \in DOMAIN copy : j # i => next[j] = copy[j]
        /\ next[i].family = copy[i].family
        /\ next[i].cost_basis = copy[i].cost_basis
        /\ next[i].is_resolved
    BY <1>4, <2>1, <2>2 DEF Resolved, Positions
  <2>5. Tracks(next, positions, open)
    <3>1. ASSUME NEW j \in DOMAIN next
          PROVE  /\ next[j].family = positions[j].family
                 /\ next[j].cost_basis = positions[j].cost_basis
                 /\ open => next[j].is_resolved = positions[j].is_resolved
      <4>1. j \in DOMAIN open_positions /\ j \in DOMAIN copy
        BY <1>1, <2>3
      <4>2. CASE j = i
        <5>1. next[i] \in Positions /\ positions[i] \in Positions
          BY <1>1, <1>2, <1>4, <2>3
        <5> QED BY <1>3, <2>1, <2>4, <4>2, <5>1 DEF Positions
      <4>3. CASE j # i
        BY <1>3, <2>4, <4>1, <4>3 DEF Tracks
      <4> QED BY <4>2, <4>3
    <3> QED BY <1>1, <1>2, <2>3, <3>1 DEF Tracks
  <2>6. \A family : Adds(family, copy[i]) = Adds(family, open_positions[i])
    BY <1>4, <2>1 DEF Adds
  <2> QED BY <2>3, <2>5, <2>6 DEF next, positions
<1>5. CASE ~(open /\ i \in DOMAIN copy)
  <2>1. next = copy
    BY <1>5
  <2> HIDE DEF next
  <2>2. Tracks(copy, positions, open)
    <3>1. ASSUME NEW j \in DOMAIN copy
          PROVE  /\ copy[j].family = positions[j].family
                 /\ copy[j].cost_basis = positions[j].cost_basis
                 /\ open => copy[j].is_resolved = positions[j].is_resolved
      <4>1. j \in DOMAIN open_positions
        BY <1>1
      <4>2. CASE j = i
        BY <1>3, <1>5, <4>2 DEF Tracks
      <4>3. CASE j # i
        BY <1>3, <4>1, <4>3 DEF Tracks
      <4> QED BY <4>2, <4>3
    <3> QED BY <1>1, <1>2, <3>1 DEF Tracks
  <2> QED BY <2>1, <2>2 DEF next, positions
<1> QED BY <1>4, <1>5

(* A market that resolves takes no more off a copy than off the book.      *)
LEMMA ResolveStep ==
  ASSUME CostsBounded, ExposureInv, DeskInv, NEW i \in DOMAIN open_positions,
         NEW pnl \in Results, Resolve(i, pnl)
  PROVE  ExposureInv'
<1> USE DEF ExposureInv
<1> DEFINE freed(family) == Adds(family, open_positions[i])
<1>1. /\ open_positions' = Resolved(open_positions, i)
      /\ ~open_positions[i].is_resolved
      /\ \A r \in Routers : orders'[r] # None =>
           /\ orders[r] # None /\ orders'[r].answer = orders[r].answer
           /\ FamilyOf(r)' = FamilyOf(r) /\ CostOf(r)' = CostOf(r)
           /\ CopyOf(r)' = IF orders[r].answer = None /\ i \in DOMAIN CopyOf(r)
                           THEN Resolved(CopyOf(r), i) ELSE CopyOf(r)
  BY ResolveChanges
<1>2. open_positions \in Seq(Positions) /\ MaxCost \in Nat
  BY DEF BookInv, CostsBounded
<1>3. /\ open_positions' \in Seq(Positions)
      /\ Len(open_positions') = Len(open_positions)
      /\ \A family : Exposure(family, open_positions)
                       = Exposure(family, open_positions') + freed(family)
  <2>1. \A family :
          /\ Resolved(open_positions, i) \in Seq(Positions)
          /\ Len(Resolved(open_positions, i)) = Len(open_positions)
          /\ Exposure(family, open_positions)
               = Exposure(family, Resolved(open_positions, i))
                   + Adds(family, open_positions[i])
    BY <1>1, <1>2, ExposureOfResolved
  <2> QED BY ONLY <1>1, <2>1
<1>4. \A family : /\ freed(family) \in Nat
                  /\ Exposure(family, open_positions) \in Nat
                  /\ Exposure(family, open_positions') \in Nat
  <2>1. open_positions[i] \in Positions
    BY <1>2
  <2>2. \A family : freed(family) \in Nat
    BY <1>2, <2>1 DEF Adds, Positions
  <2>3. \A family : /\ Exposure(family, open_positions) \in Nat
                    /\ Exposure(family, open_positions') \in Nat
    BY <1>2, <1>3, ExposureTyped
  <2> QED BY <2>2, <2>3
<1> HIDE DEF freed
<1>5. ASSUME NEW r \in Routers, orders'[r] # None
      PROVE  /\ Tracks(CopyOf(r)', open_positions', orders'[r].answer = None)
             /\ Len(CopyOf(r)') = Len(CopyOf(r))
             /\ \A family :
                  \/ Exposure(family, CopyOf(r))
                       = Exposure(family, CopyOf(r)') + freed(family)
                  \/ Exposure(family, CopyOf(r)') = Exposure(family, CopyOf(r))
  <2> DEFINE open == orders[r].answer = None
  <2>1. Tracks(CopyOf(r), open_positions, open)
    BY <1>1, <1>5 DEF BookInv
  <2>2. open \in BOOLEAN
    OBVIOUS
  <2>3. CopyOf(r)' = IF open /\ i \in DOMAIN CopyOf(r)
                     THEN Resolved(CopyOf(r), i) ELSE CopyOf(r)
    BY <1>1, <1>5
  <2>4. (orders'[r].answer = None) = open
    BY <1>1, <1>5
  <2> HIDE DEF open
  <2> DEFINE next == IF open /\ i \in DOMAIN CopyOf(r)
                     THEN Resolved(CopyOf(r), i) ELSE CopyOf(r)
  <2>5. /\ Tracks(next, Resolved(open_positions, i), open)
        /\ Len(next) = Len(CopyOf(r))
        /\ \A family :
             \/ /\ Exposure(family, CopyOf(r))
                     = Exposure(family, next) + Adds(family, open_positions[i])
             \/ Exposure(family, next) = Exposure(family, CopyOf(r))
    BY <1>1, <1>2, <2>1, <2>2, TracksResolved
  <2> HIDE DEF next
  <2>6. CopyOf(r)' = next
    BY <2>3 DEF next
  <2> QED BY ONLY <1>1, <2>4, <2>5, <2>6 DEF freed
<1>6. BookInv'
  <2>1. ASSUME NEW r \in Routers, orders'[r] # None
        PROVE  /\ FamilyOf(r)' \in Families
               /\ Finite(CostOf(r)') => CostOf(r)' \in 0 .. MaxCost
    BY <1>1, <2>1 DEF BookInv
  <2> QED BY <1>3, <1>5, <2>1 DEF BookInv
<1>7. \A family, j : After(family, j)' = After(family, j)
  <2>0. open_positions' = Resolved(open_positions, i)
    BY <1>1
  <2>1. DOMAIN open_positions' = DOMAIN open_positions
    BY <2>0 DEF Resolved
  <2>2. \A m \in DOMAIN open_positions :
          open_positions'[m].family = open_positions[m].family
    <3>1. open_positions[i] \in Positions
      BY <1>2
    <3>2. open_positions' = [open_positions EXCEPT
                               ![i] = [open_positions[i] EXCEPT !.is_resolved = TRUE]]
      BY <2>0 DEF Resolved
    <3> QED BY ONLY <3>1, <3>2 DEF Positions
  <2> QED BY <2>1, <2>2 DEF After
<1>8. CopyInv'
  <2>1. SUFFICES ASSUME NEW r \in Routers, NEW family \in Families, orders'[r] # None
                 PROVE  Exposure(family, open_positions')
                          <= Exposure(family, CopyOf(r)')
                               + Cardinality(After(family, Len(CopyOf(r)))') * MaxCost
    BY DEF CopyInv
  <2> DEFINE more == Cardinality(After(family, Len(CopyOf(r)))) * MaxCost
  <2>2. /\ Exposure(family, open_positions) <= Exposure(family, CopyOf(r)) + more
        /\ CopyOf(r) \in Seq(Positions)
    BY <1>1, <2>1 DEF CopyInv, BookInv, Tracks
  <2>3. more \in Nat
    <3>1. Len(CopyOf(r)) \in Nat
      BY <2>2
    <3>2. Cardinality(After(family, Len(CopyOf(r)))) \in Nat
      BY <3>1, CountsTyped
    <3> QED BY <1>2, <3>2
  <2>4. Cardinality(After(family, Len(CopyOf(r)))') * MaxCost = more
    BY <1>5, <1>7, <2>1
  <2> HIDE DEF more
  <2>5. CopyOf(r)' \in Seq(Positions)
    BY <1>5, <2>1 DEF Tracks
  <2>6. Exposure(family, CopyOf(r)) \in Nat /\ Exposure(family, CopyOf(r)') \in Nat
    BY <1>2, <2>2, <2>5, ExposureTyped
  <2>7. \/ Exposure(family, CopyOf(r))
             = Exposure(family, CopyOf(r)') + freed(family)
        \/ Exposure(family, CopyOf(r)') = Exposure(family, CopyOf(r))
    BY <1>5, <2>1
  <2>8. Exposure(family, open_positions') <= Exposure(family, CopyOf(r)') + more
    BY SMTT(60), <1>3, <1>4, <2>2, <2>3, <2>6, <2>7
  <2> QED BY ONLY <2>4, <2>8
<1>9. RoutedInv'
  <2>1. SUFFICES ASSUME NEW family \in Families
                 PROVE  \E k \in 0 .. Len(open_positions)' : Bounded(family, k)'
    BY DEF RoutedInv
  <2>2. PICK k \in 0 .. Len(open_positions) : Bounded(family, k)
    BY DEF RoutedInv
  <2>3. CountsKept
    BY <1>1, <1>5 DEF CountsKept
  <2>4. Exposure(family, open_positions') <= Exposure(family, open_positions)
    BY <1>3, <1>4
  <2>5. Bounded(family, k)'
    BY <1>3, <1>4, <1>7, <2>2, <2>3, <2>4, BoundKept
  <2> QED BY <1>3, <2>5
<1> QED BY <1>6, <1>8, <1>9

(* What an order was approved on: the exposure of its copy leaves room.    *)
LEMMA ApprovedHasRoom ==
  ASSUME CostsBounded, BookInv, DeskInv, NEW r \in Routers,
         orders[r] # None, orders[r].answer = "OK"
  PROVE  /\ CostOf(r) \in 0 .. MaxCost
         /\ Exposure(FamilyOf(r), CopyOf(r)) + CostOf(r) <= max_correlated_exposure
<1>1. "OK" \in Answers(orders[r].request)
  BY DEF DeskInv, OrderTyped
<1>2. /\ Finite(CostOf(r))
      /\ evaluate_concentration(FamilyOf(r), CostOf(r), CopyOf(r)) = "OK"
  BY <1>1, ApprovalNeedsEveryGate DEF CostOf, FamilyOf, CopyOf
<1>3. CostOf(r) \in 0 .. MaxCost /\ CopyOf(r) \in Seq(Positions)
  BY <1>2 DEF BookInv, Tracks
<1>4. ~(Exposure(FamilyOf(r), CopyOf(r)) + CostOf(r) > max_correlated_exposure)
  BY <1>2 DEF evaluate_concentration
<1>5. Exposure(FamilyOf(r), CopyOf(r)) \in Nat /\ MaxCost \in Nat
  BY <1>3, ExposureTyped DEF CostsBounded
<1> QED BY <1>3, <1>4, <1>5, PolicyAssumption

(* What a filled order adds to the counts.                                 *)
LEMMA AfterFill ==
  ASSUME CostsBounded, BookInv, NEW position \in Positions,
         open_positions' = Append(open_positions, position),
         NEW family, NEW j \in Nat, j <= Len(open_positions)
  PROVE  Cardinality(After(family, j)')
           = Cardinality(After(family, j))
               + (IF position.family = family THEN 1 ELSE 0)
<1> DEFINE n == Len(open_positions) + 1
<1>1. /\ Len(open_positions) \in Nat
      /\ DOMAIN open_positions = 1 .. Len(open_positions)
      /\ DOMAIN open_positions' = 1 .. n /\ open_positions'[n] = position
      /\ \A i \in 1 .. Len(open_positions) : open_positions'[i] = open_positions[i]
  BY DEF BookInv
<1>2. IsFiniteSet(After(family, j)) /\ Cardinality(After(family, j)) \in Nat
  BY CountsTyped
<1>3. After(family, j) \subseteq 1 .. Len(open_positions)
  BY <1>1 DEF After
<1>4. After(family, j)' = IF position.family = family
                          THEN After(family, j) \cup {n} ELSE After(family, j)
  BY <1>1 DEF After
<1>5. n \notin After(family, j)
  BY <1>1, <1>3
<1> HIDE DEF n
<1>6. Cardinality(After(family, j) \cup {n}) = Cardinality(After(family, j)) + 1
  BY <1>2, <1>5, FS_AddElement
<1> QED BY <1>2, <1>4, <1>6

LEMMA OneMore ==
  ASSUME NEW n \in Nat, NEW m \in Nat
  PROVE  (n + 1) * m = n * m + m /\ n * m \in Nat
OBVIOUS

(* A fill: the copy it was judged on is the one the bound now rests on, if *)
(* it is younger than the one it rested on before.                         *)
LEMMA FillStep ==
  ASSUME CostsBounded, ExposureInv, DeskInv, NEW r \in Routers, Fill(r)
  PROVE  ExposureInv'
<1> USE DEF ExposureInv
<1> DEFINE cost == CostOf(r)
           position == [family |-> FamilyOf(r), cost_basis |-> cost,
                        is_resolved |-> FALSE]
           n == Len(open_positions)
<1>1. /\ orders[r] # None /\ orders[r].answer = "OK"
      /\ open_positions' = Append(open_positions, position)
      /\ orders' = [orders EXCEPT ![r] = None]
      /\ DOMAIN orders = Routers
  BY DEF Fill, DeskInv, FamilyOf, CostOf
<1>2. /\ cost \in 0 .. MaxCost /\ MaxCost \in Nat
      /\ Exposure(FamilyOf(r), CopyOf(r)) + cost <= max_correlated_exposure
      /\ max_correlated_exposure \in Int
  BY <1>1, ApprovedHasRoom, PolicyAssumption DEF CostsBounded
<1>3. FamilyOf(r) \in Families /\ Tracks(CopyOf(r), open_positions, FALSE)
  BY <1>1 DEF BookInv, Tracks
<1>4. position \in Positions /\ open_positions \in Seq(Positions) /\ n \in Nat
  BY <1>2, <1>3 DEF BookInv, Positions
<1>5. /\ position.family = FamilyOf(r)
      /\ \A family : Adds(family, position) = IF family = FamilyOf(r) THEN cost ELSE 0
  BY DEF Adds
<1> HIDE DEF position, cost
<1>6. /\ open_positions' \in Seq(Positions) /\ Len(open_positions') = n + 1
      /\ DOMAIN open_positions = 1 .. n
      /\ \A i \in 1 .. n : open_positions'[i] = open_positions[i]
  BY <1>1, <1>4
<1>7. \A s \in Routers : orders'[s] # None =>
        /\ orders[s] # None /\ orders'[s] = orders[s] /\ s # r
        /\ FamilyOf(s)' = FamilyOf(s) /\ CostOf(s)' = CostOf(s)
        /\ CopyOf(s)' = CopyOf(s)
  BY <1>1 DEF FamilyOf, CostOf, CopyOf
<1>8. \A family :
        /\ Exposure(family, open_positions) \in Nat
        /\ Exposure(family, open_positions')
             = Exposure(family, open_positions)
                 + (IF family = FamilyOf(r) THEN cost ELSE 0)
  <2>1. \A family :
          /\ Exposure(family, open_positions) \in Nat
          /\ Exposure(family, Append(open_positions, position))
               = Exposure(family, open_positions) + Adds(family, position)
    BY <1>2, <1>4, ExposureTyped, ExposureOfAppend
  <2> QED BY ONLY <1>1, <1>5, <2>1
<1>9. \A family : \A j \in 0 .. n :
        /\ Cardinality(After(family, j)) \in Nat
        /\ Cardinality(After(family, j)')
             = Cardinality(After(family, j))
                 + (IF FamilyOf(r) = family THEN 1 ELSE 0)
  BY <1>1, <1>4, <1>5, AfterFill, CountsTyped
<1>10. BookInv'
  <2>1. ASSUME NEW s \in Routers, orders'[s] # None
        PROVE  /\ FamilyOf(s)' \in Families
               /\ Finite(CostOf(s)') => CostOf(s)' \in 0 .. MaxCost
               /\ Tracks(CopyOf(s)', open_positions', orders'[s].answer = None)
    <3>1. /\ FamilyOf(s) \in Families
          /\ Finite(CostOf(s)) => CostOf(s) \in 0 .. MaxCost
          /\ Tracks(CopyOf(s), open_positions, orders[s].answer = None)
      BY <1>7, <2>1 DEF BookInv
    <3>2. Tracks(CopyOf(s), open_positions', orders[s].answer = None)
      <4>1. DOMAIN CopyOf(s) \subseteq 1 .. n
        BY <1>4, <3>1 DEF Tracks
      <4> QED BY <1>4, <1>6, <3>1, <4>1 DEF Tracks
    <3> QED BY <1>7, <2>1, <3>1, <3>2
  <2> QED BY <1>6, <2>1 DEF BookInv
<1>11. CopyInv'
  <2>1. SUFFICES ASSUME NEW s \in Routers, NEW family \in Families, orders'[s] # None
                 PROVE  Exposure(family, open_positions')
                          <= Exposure(family, CopyOf(s)')
                               + Cardinality(After(family, Len(CopyOf(s)))') * MaxCost
    BY DEF CopyInv
  <2> DEFINE j == Len(CopyOf(s))
             c == Cardinality(After(family, j))
  <2>2. /\ orders[s] # None /\ CopyOf(s)' = CopyOf(s)
        /\ CopyOf(s) \in Seq(Positions) /\ j \in 0 .. n
    BY <1>4, <1>7, <2>1 DEF BookInv, Tracks
  <2>3. Exposure(family, open_positions) <= Exposure(family, CopyOf(s)) + c * MaxCost
    BY <2>2 DEF CopyInv
  <2>4. /\ c \in Nat
        /\ Cardinality(After(family, j)')
             = c + (IF FamilyOf(r) = family THEN 1 ELSE 0)
    BY <1>9, <2>2
  <2>5. Exposure(family, CopyOf(s)) \in Nat
    BY <1>2, <2>2, ExposureTyped
  <2> HIDE DEF c
  <2>6. CASE FamilyOf(r) = family
    <3>1. Cardinality(After(family, j)') = c + 1
      BY <2>4, <2>6
    <3>2. (c + 1) * MaxCost = c * MaxCost + MaxCost /\ c * MaxCost \in Nat
      BY <1>2, <2>4, OneMore
    <3>3. /\ Exposure(family, open_positions)
               = Exposure(family, open_positions)
          /\ Exposure(family, open_positions') = Exposure(family, open_positions) + cost
          /\ Exposure(family, open_positions) \in Nat
      BY <1>8, <2>6
    <3>4. Exposure(family, open_positions')
            <= Exposure(family, CopyOf(s)) + (c * MaxCost + MaxCost)
      BY <1>2, <2>3, <2>5, <3>2, <3>3
    <3> QED BY ONLY <2>2, <3>1, <3>2, <3>4
  <2>7. CASE FamilyOf(r) # family
    <3>1. Cardinality(After(family, j)') = c
      BY <2>4, <2>7
    <3>2. Exposure(family, open_positions') = Exposure(family, open_positions)
      BY <1>8, <2>7
    <3> QED BY ONLY <2>2, <2>3, <3>1, <3>2
  <2> QED BY <2>6, <2>7
<1>12. CountsKept
  BY <1>7 DEF CountsKept
<1>13. ASSUME NEW family, family = FamilyOf(r), NEW j \in 0 .. n,
              Len(CopyOf(r)) <= j
       PROVE  /\ Cardinality(Asked(family, j)') \in Nat
              /\ Cardinality(Asked(family, j)') + 1 <= Cardinality(Asked(family, j))
  <2> DEFINE before == Asked(family, j)
             now == Asked(family, j)'
  <2>1. j \in Nat
    BY <1>4
  <2>2. IsFiniteSet(before) /\ Cardinality(before) \in Nat
    BY <2>1, CountsTyped
  <2>3. r \in before
    BY <1>1, <1>13 DEF Asked
  <2>4. now \subseteq before \ {r}
    BY <1>7 DEF Asked
  <2> HIDE DEF before, now
  <2>5. IsFiniteSet(before \ {r}) /\ Cardinality(before \ {r}) = Cardinality(before) - 1
    BY <2>2, <2>3, FS_RemoveElement
  <2>6. /\ Cardinality(now) \in Nat
        /\ Cardinality(now) <= Cardinality(before \ {r})
    BY <2>4, <2>5, FS_Subset, FS_CardinalityType
  <2>7. Cardinality(now) \in Nat /\ Cardinality(now) + 1 <= Cardinality(before)
    BY <2>2, <2>5, <2>6
  <2> QED BY ONLY <2>7 DEF now, before
<1>14. ASSUME NEW family, NEW j, j = n + 1
       PROVE  Cardinality(After(family, j)') + Cardinality(Asked(family, j)')
                <= Cardinality(Routers)
  <2>1. After(family, j)' = {}
    <3>1. DOMAIN open_positions' = 1 .. n + 1
      BY <1>4, <1>6
    <3> QED BY <1>4, <1>14, <3>1 DEF After
  <2>2. Cardinality(After(family, j)') = 0
    BY <2>1, FS_EmptySet
  <2>3. Asked(family, j)' \subseteq Routers
    BY DEF Asked
  <2>4. /\ Cardinality(Asked(family, j)') \in Nat
        /\ Cardinality(Asked(family, j)') <= Cardinality(Routers)
    BY <2>3, FS_Subset, FS_CardinalityType DEF CostsBounded
  <2> QED BY <2>2, <2>4
<1>15. RoutedInv'
  <2>1. SUFFICES ASSUME NEW family \in Families
                 PROVE  \E m \in 0 .. n + 1 : Bounded(family, m)'
    BY <1>6 DEF RoutedInv
  <2>2. PICK k \in 0 .. n : Bounded(family, k)
    BY DEF RoutedInv
  <2> DEFINE e == Exposure(family, open_positions)
             e2 == Exposure(family, open_positions')
             most == max_correlated_exposure
  <2>3. e \in Nat /\ e2 = e + (IF family = FamilyOf(r) THEN cost ELSE 0)
    BY <1>8
  <2>4. \/ e = 0
        \/ e <= most + (Cardinality(After(family, k)) - 1) * MaxCost
    BY <2>2 DEF Bounded
  <2>5. \A j \in k .. n :
          Cardinality(After(family, j)) + Cardinality(Asked(family, j))
            <= Cardinality(Routers)
    BY <2>2 DEF Bounded
  <2>6. Cardinality(Routers) \in Nat
    BY FS_CardinalityType DEF CostsBounded
  <2>7. \A j \in 0 .. n + 1 : j = n + 1 \/ j \in 0 .. n
    BY <1>4
  <2>8. CASE family # FamilyOf(r)
    <3>1. e2 = e
      BY <2>3, <2>8
    <3>2. Cardinality(After(family, k)') = Cardinality(After(family, k))
      BY <1>9, <2>2, <2>8
    <3>3. ASSUME NEW j \in k .. n
          PROVE  Cardinality(After(family, j)') + Cardinality(Asked(family, j)')
                   <= Cardinality(Routers)
      <4>1. j \in Nat /\ j \in 0 .. n
        BY <1>4
      <4>2. /\ Cardinality(After(family, j)) \in Nat
            /\ Cardinality(After(family, j)') = Cardinality(After(family, j))
        BY <1>9, <2>8, <4>1
      <4>3. /\ Cardinality(Asked(family, j)) \in Nat
            /\ Cardinality(Asked(family, j)') \in Nat
            /\ Cardinality(Asked(family, j)') <= Cardinality(Asked(family, j))
        BY <1>12, <4>1, AskedShrinks, CountsTyped
      <4> QED BY <2>5, <2>6, <4>2, <4>3
    <3>4. Bounded(family, k)'
      <4>1. \/ e2 = 0
            \/ e2 <= most + (Cardinality(After(family, k)') - 1) * MaxCost
        BY ONLY <2>4, <3>1, <3>2
      <4>2. \A j \in k .. n + 1 :
              Cardinality(After(family, j)') + Cardinality(Asked(family, j)')
                <= Cardinality(Routers)
        <5>1. \A j \in k .. n + 1 : j = n + 1 \/ j \in k .. n
          BY <1>4
        <5> QED BY <1>14, <3>3, <5>1
      <4> QED BY <1>6, <4>1, <4>2 DEF Bounded
    <3> QED BY <1>4, <3>4
  <2>9. CASE family = FamilyOf(r)
    <3> DEFINE seen == Len(CopyOf(r))
    <3>1. seen \in 0 .. n /\ CopyOf(r) \in Seq(Positions)
      BY <1>3, <1>4 DEF Tracks
    <3>2. PICK m \in 0 .. n : /\ k <= m /\ seen <= m
                             /\ m = IF seen <= k THEN k ELSE seen
      BY <2>2, <3>1
    <3> DEFINE c == Cardinality(After(family, m))
    <3>3. /\ c \in Nat
          /\ Cardinality(After(family, m)') = c + 1
      BY <1>9, <2>9, <3>2
    <3>4. c * MaxCost \in Nat
      BY <1>2, <3>3, OneMore
    <3>5. e2 <= most + c * MaxCost
      <4>1. CASE seen <= k /\ e = 0
        <5>1. Exposure(FamilyOf(r), CopyOf(r)) \in Nat
          BY <1>2, <3>1, ExposureTyped
        <5>2. cost <= most
          BY <1>2, <5>1
        <5> HIDE DEF e, e2, c, most, seen
        <5> QED BY <1>2, <2>3, <2>9, <3>4, <4>1, <5>2 DEF most
      <4>2. CASE seen <= k /\ e # 0
        <5>1. m = k /\ e <= most + (c - 1) * MaxCost
          BY <2>4, <3>2, <4>2
        <5>2. (c - 1) * MaxCost = c * MaxCost - MaxCost
          <6> HIDE DEF c
          <6> QED BY <1>2, <3>3
        <5>3. e <= most + (c * MaxCost - MaxCost)
          BY <5>1, <5>2
        <5> HIDE DEF e, e2, c, seen
        <5> QED BY <1>2, <2>3, <2>9, <3>4, <5>3
      <4>3. CASE ~(seen <= k)
        <5>1. m = seen /\ e <= Exposure(family, CopyOf(r)) + c * MaxCost
          BY <1>1, <3>2, <4>3 DEF CopyInv
        <5>2. Exposure(family, CopyOf(r)) \in Nat
          BY <1>2, <3>1, ExposureTyped
        <5>3. Exposure(family, CopyOf(r)) + cost <= most
          BY <1>2, <2>9
        <5> DEFINE held == Exposure(family, CopyOf(r))
        <5> HIDE DEF e, e2, c, seen, held
        <5> QED BY SMTT(60), <1>2, <2>3, <2>9, <3>4, <5>1, <5>2, <5>3 DEF held
      <4> QED BY <4>1, <4>2, <4>3
    <3>6. ASSUME NEW j \in m .. n
          PROVE  Cardinality(After(family, j)') + Cardinality(Asked(family, j)')
                   <= Cardinality(Routers)
      <4>1. j \in Nat /\ j \in 0 .. n /\ j \in k .. n /\ seen <= j
        BY <1>4, <2>2, <3>1, <3>2
      <4>2. /\ Cardinality(After(family, j)) \in Nat
            /\ Cardinality(After(family, j)') = Cardinality(After(family, j)) + 1
        BY <1>9, <2>9, <4>1
      <4>3. /\ Cardinality(Asked(family, j)') \in Nat
            /\ Cardinality(Asked(family, j)') + 1 <= Cardinality(Asked(family, j))
        BY <1>13, <2>9, <4>1
      <4>4. Cardinality(Asked(family, j)) \in Nat
        BY <4>1, CountsTyped
      <4> QED BY SMTT(60), <2>5, <2>6, <4>1, <4>2, <4>3, <4>4
    <3>7. Bounded(family, m)'
      <4>1. e2 <= most + (Cardinality(After(family, m)') - 1) * MaxCost
        <5>1. Cardinality(After(family, m)') - 1 = c
          <6> HIDE DEF c
          <6> QED BY <3>3
        <5> HIDE DEF c
        <5> QED BY <3>5, <5>1
      <4>2. \A j \in m .. n + 1 :
              Cardinality(After(family, j)') + Cardinality(Asked(family, j)')
                <= Cardinality(Routers)
        <5>1. \A j \in m .. n + 1 : j = n + 1 \/ j \in m .. n
          BY <1>4
        <5> QED BY <1>14, <3>6, <5>1
      <4> QED BY <1>6, <4>1, <4>2 DEF Bounded
    <3> QED BY <1>4, <3>2, <3>7
  <2> QED BY <2>8, <2>9
<1> QED BY <1>10, <1>11, <1>15

-----------------------------------------------------------------------------

(* A finite set of naturals has a greatest member: the one with the fewest *)
(* members above it.                                                       *)
LEMMA GreatestIsIn ==
  ASSUME NEW S, S \subseteq Nat, IsFiniteSet(S), S # {}
  PROVE  Max(S) \in S /\ \A y \in S : Max(S) >= y
<1> DEFINE Above(x) == {y \in S : y > x}
           T == {Above(x) : x \in S}
<1>1. IsFiniteSet(S) /\ T \subseteq SUBSET S /\ T # {}
  OBVIOUS
<1>2. PICK U \in T : \A V \in T : V \subseteq U => V = U
  <2> HIDE DEF T
  <2> QED BY ONLY <1>1, SmallestSet
<1>3. PICK x \in S : U = Above(x)
  OBVIOUS
<1>4. \A y \in S : x >= y
  <2>1. SUFFICES ASSUME NEW y \in S, y > x PROVE FALSE
    OBVIOUS
  <2>2. Above(y) \in T /\ Above(y) \subseteq U
    <3>1. \A z \in S : z > y => z > x
      <4>1. \A z \in S : z \in Nat
        OBVIOUS
      <4> QED BY <2>1, <4>1
    <3>2. Above(y) \subseteq Above(x)
      BY <3>1
    <3>3. Above(y) \in T
      OBVIOUS
    <3> HIDE DEF Above, T
    <3> QED BY <1>3, <3>2, <3>3
  <2>3. y \in U /\ y \notin Above(y)
    BY <1>3, <2>1
  <2> QED BY <1>2, <2>2, <2>3
<1> QED BY <1>4 DEF Max

(* What strategies propose may not cost less than nothing.                 *)
CostsAreNatural ==
  \A p \in Proposals : Finite(p.proposed_cost) => p.proposed_cost >= 0

LEMMA CostsAreBounded ==
  ASSUME IsFiniteSet(Routers), IsFiniteSet(Proposals), CostsAreNatural
  PROVE  CostsBounded
<1> DEFINE Q == {q \in Proposals : Finite(q.proposed_cost)}
           C == {p.proposed_cost : p \in Q}
<1>1. IsFiniteSet(Q)
  <2>1. Q \subseteq Proposals
    OBVIOUS
  <2> HIDE DEF Q
  <2> QED BY <2>1, FS_Subset
<1>2. IsFiniteSet(C)
  <2> DEFINE f == [p \in Q |-> p.proposed_cost]
  <2>1. f \in Surjection(Q, C)
    BY DEF Surjection
  <2> HIDE DEF f, C, Q
  <2> QED BY <1>1, <2>1, FS_Surjection
<1>3. C \subseteq Nat
  BY DeskAssumption DEF Money, Finite, CostsAreNatural
<1>4. {0} \cup C \subseteq Nat /\ IsFiniteSet({0} \cup C)
  <2> HIDE DEF C
  <2>1. IsFiniteSet({0})
    BY FS_Singleton
  <2>2. IsFiniteSet({0} \cup C)
    BY <1>2, <2>1, FS_Union
  <2> QED BY <1>3, <2>2
<1>5. MaxCost \in {0} \cup C /\ \A y \in {0} \cup C : MaxCost >= y
  <2> HIDE DEF C
  <2>1. Max({0} \cup C) \in {0} \cup C /\ \A y \in {0} \cup C : Max({0} \cup C) >= y
    BY <1>4, GreatestIsIn
  <2> USE DEF C
  <2> QED BY <2>1 DEF MaxCost
<1>6. MaxCost \in Nat
  BY <1>3, <1>5
<1>7. ASSUME NEW p \in Proposals, Finite(p.proposed_cost)
      PROVE  p.proposed_cost \in 0 .. MaxCost
  <2>1. p.proposed_cost \in C
    BY <1>7
  <2> QED BY <1>3, <1>5, <1>6, <2>1
<1> QED BY <1>6, <1>7 DEF CostsBounded

LEMMA ExposureStep ==
  ASSUME CostsBounded, DeskInv, ExposureInv, [Next]_vars
  PROVE  ExposureInv'
<1>1. ASSUME NEW r \in Routers, NEW p \in Proposals, NEW figures \in Reports,
             Ask(r, p, figures)
      PROVE  ExposureInv'
  BY <1>1, AskStep
<1>2. ASSUME NEW r \in Routers, EvaluateTrade(r)
      PROVE  ExposureInv'
  <2>1. PICK answer \in Answers(orders[r].request) :
          orders' = [orders EXCEPT ![r].answer = answer]
    BY <1>2 DEF EvaluateTrade
  <2>2. /\ orders[r] # None /\ orders[r].answer = None
        /\ DOMAIN orders = Routers /\ DOMAIN orders[r] = {"request", "answer"}
    BY <1>2 DEF EvaluateTrade, DeskInv, OrderTyped
  <2>3. orders'[r].request = orders[r].request
    BY <2>1, <2>2
  <2>4. \A s \in Routers : s # r => orders'[s] = orders[s]
    BY <2>1, <2>2
  <2>5. OrdersKept
    BY <2>2, <2>3, <2>4 DEF OrdersKept
  <2> QED BY <1>2, <2>5, QuietStep DEF EvaluateTrade, book
<1>3. ASSUME NEW r \in Routers, Fill(r)
      PROVE  ExposureInv'
  BY <1>3, FillStep
<1>4. ASSUME NEW r \in Routers, Drop(r)
      PROVE  ExposureInv'
  <2>1. OrdersKept
    BY <1>4 DEF Drop, DeskInv, OrdersKept
  <2> QED BY <1>4, <2>1, QuietStep DEF Drop, book
<1>5. ASSUME NEW i \in DOMAIN open_positions, NEW pnl \in Results,
             Resolve(i, pnl)
      PROVE  ExposureInv'
  BY <1>5, ResolveStep
<1>6. ASSUME Tick \/ UNCHANGED vars
      PROVE  ExposureInv'
  <2>1. UNCHANGED <<open_positions, orders>>
    BY <1>6 DEF Tick, vars, book
  <2>2. OrdersKept
    BY <2>1 DEF OrdersKept
  <2> QED BY <2>1, <2>2, QuietStep
<1> QED BY <1>1, <1>2, <1>3, <1>4, <1>5, <1>6 DEF Next

LEMMA ExposureStarts ==
  ASSUME CostsBounded, Init
  PROVE  ExposureInv
<1>1. BookInv /\ CopyInv
  BY DEF Init, BookInv, CopyInv
<1>2. ASSUME NEW family \in Families
      PROVE  Bounded(family, 0)
  <2>1. Exposure(family, open_positions) = 0
    <3>1. Held(family, open_positions) = {}
      BY DEF Init, Held
    <3>2. Total(open_positions, Held(family, open_positions)) = 0
      BY <3>1, TotalEmpty
    <3> QED BY <3>2 DEF Exposure, Total
  <2>2. \A j \in 0 .. Len(open_positions) :
          /\ Cardinality(After(family, j)) = 0
          /\ Cardinality(Asked(family, j)) \in Nat
          /\ Cardinality(Asked(family, j)) <= Cardinality(Routers)
          /\ Cardinality(Routers) \in Nat
    <3>1. Len(open_positions) = 0
      BY DEF Init
    <3> QED BY <1>1, <3>1, NothingAfter, CountsTyped
  <2> QED BY <2>1, <2>2 DEF Bounded
<1>3. 0 \in 0 .. Len(open_positions)
  BY DEF Init
<1> QED BY <1>1, <1>2, <1>3 DEF ExposureInv, RoutedInv

LEMMA ExposureFollows ==
  ASSUME CostsBounded, ExposureInv
  PROVE  ExposureBounded
<1>1. SUFFICES ASSUME NEW family \in Families
               PROVE  \/ Exposure(family, open_positions) = 0
                      \/ Exposure(family, open_positions)
                           <= max_correlated_exposure
                                + (Cardinality(Routers) - 1) * MaxCost
  BY DEF ExposureBounded
<1>2. PICK k \in 0 .. Len(open_positions) : Bounded(family, k)
  BY DEF ExposureInv, RoutedInv
<1> DEFINE e == Exposure(family, open_positions)
           c == Cardinality(After(family, k))
           n == Cardinality(Routers)
<1>3. e \in Nat
  BY ExposureTyped DEF ExposureInv, BookInv, CostsBounded
<1>4. e = 0 \/ e <= max_correlated_exposure + (c - 1) * MaxCost
  BY <1>2 DEF Bounded
<1>5. c \in Nat /\ n \in Nat /\ c <= n
  <2>1. k \in Nat /\ k \in k .. Len(open_positions)
    BY DEF ExposureInv, BookInv
  <2>2. /\ c \in Nat /\ n \in Nat /\ Cardinality(Asked(family, k)) \in Nat
        /\ c + Cardinality(Asked(family, k)) <= n
    BY <1>2, <2>1, CountsTyped DEF ExposureInv, Bounded
  <2> HIDE DEF c, n
  <2> QED BY <2>2
<1> HIDE DEF e, c, n
<1>6. (c - 1) * MaxCost <= (n - 1) * MaxCost
  <2>1. n - c \in Nat /\ MaxCost \in Nat
    BY <1>5 DEF CostsBounded
  <2>2. (n - c) * MaxCost \in Nat
    BY <2>1
  <2>3. (n - 1) * MaxCost = (c - 1) * MaxCost + (n - c) * MaxCost
    BY <1>5, <2>1
  <2>4. (c - 1) * MaxCost \in Int
    BY <1>5, <2>1
  <2> QED BY <2>2, <2>3, <2>4
<1>7. (c - 1) * MaxCost \in Int /\ (n - 1) * MaxCost \in Int
  BY <1>5 DEF CostsBounded
<1> QED BY <1>3, <1>4, <1>6, <1>7, PolicyAssumption DEF e, n

(* However many routers share the book, and however stale their copies of  *)
(* it: evaluate_concentration lets a family grow beyond the limit by at    *)
(* most one order for each other router.  There are finitely many routers  *)
(* and proposals, and no proposal costs less than nothing: the code would  *)
(* take such a figure, and the exposure would grow as it resolves.         *)
THEOREM ExposureLimited ==
  ASSUME IsFiniteSet(Routers), IsFiniteSet(Proposals), CostsAreNatural
  PROVE  Spec => []ExposureBounded
<1>1. CostsBounded
  BY CostsAreBounded
<1>2. Init => ExposureInv
  BY <1>1, ExposureStarts
<1>3. DeskInv /\ ExposureInv /\ [Next]_vars => ExposureInv'
  BY <1>1, ExposureStep
<1>4. ExposureInv => ExposureBounded
  BY <1>1, ExposureFollows
<1> QED BY <1>2, <1>3, <1>4, DeskInvariant, PTL DEF Spec
=============================================================================
