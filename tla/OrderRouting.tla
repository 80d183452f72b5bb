---------------------------- MODULE OrderRouting ----------------------------
(***************************************************************************)
(* A desk that routes orders through RiskAuthority.evaluate_trade: several *)
(* routers copy the book, the settled outcomes and the PnL of the day into *)
(* a request, have it evaluated, and fill what is approved.  The library   *)
(* is evaluate_trade; the desk around it is its environment, as README.md  *)
(* describes it: state lives with the caller, outside the pure evaluation. *)
(***************************************************************************)
EXTENDS StatelessGates

CONSTANTS
  Routers,
  Proposals,  \* what strategies propose
  Equity,     \* equity at the start of the day
  Garbled,    \* what the account may report instead of its figures
  Results,    \* PnL figures a position may settle with
  MaxTime,    \* the last instant of the modelled horizon
  MaxFills    \* bound on the length of the book

Money == Int \cup {Nan}

Clusters ==
  [known : BOOLEAN, cluster_open_usd : Money, proposed_cost : Money,
   max_cluster_usd : Money]

ASSUME DeskAssumption ==
  /\ \A p \in Proposals :
       /\ p.proposed_cost \in Money /\ p.expected_value \in Money
       /\ p.cluster_cap_ctx \in {None} \cup Clusters
  /\ None \notin Clusters
  /\ Equity \in Int /\ Results \subseteq Int
  /\ MaxTime \in Nat /\ MaxFills \in Nat

(* A wrong report is one that cannot be right: a NaN, or an account that   *)
(* is worth nothing.                                                       *)
ASSUME GarbledAssumption ==
  \A f \in Garbled :
    /\ f.daily_realized_pnl \in Money /\ f.equity \in Money
    /\ ~Finite(f.daily_realized_pnl) \/ ~Finite(f.equity) \/ f.equity <= 0

Causes == {"drawdown", "losses"}

VARIABLES
  open_positions,      \* the book, resolved positions included
  trade_outcomes,      \* the settled outcomes, in the order they settled
  daily_realized_pnl,
  clock,
  orders,              \* per router: None, a request, or an answered request
  late                 \* per router and cause, the fills since that cause
                       \* bars new trades; 0 while it does not

book == <<open_positions, trade_outcomes, daily_realized_pnl, clock>>
vars == <<book, orders, late>>

Init ==
  /\ open_positions = <<>> /\ trade_outcomes = <<>>
  /\ daily_realized_pnl = 0
  /\ clock = 0
  /\ orders = [r \in Routers |-> None]
  /\ late = [r \in Routers |-> [c \in Causes |-> 0]]

-----------------------------------------------------------------------------
(* Desk-level conditions under which the policy lets no trade through.     *)

DrawdownBreached ==
  100 * daily_realized_pnl < -(max_daily_drawdown_pct * Equity)

(* The last outcomes, as many as the limit, are losses inside the window.  *)
LossRun(outcomes, at) ==
  LET n == Len(outcomes)
  IN /\ consecutive_loss_limit \in 1 .. n
     /\ \A i \in n - consecutive_loss_limit + 1 .. n :
          outcomes[i].pnl < 0 /\ at - outcomes[i].t <= consecutive_loss_window

Barred(cause) ==
  \/ cause = "drawdown" /\ DrawdownBreached
  \/ cause = "losses" /\ LossRun(trade_outcomes, clock)

(* The fills of a step, filled being the routers that fill in it.          *)
CountLate(filled) ==
  late' = [r \in Routers |-> [c \in Causes |->
             IF ~Barred(c)' THEN 0
             ELSE IF r \in filled /\ Barred(c) THEN late[r][c] + 1
             ELSE late[r][c]]]

-----------------------------------------------------------------------------

Figures == [daily_realized_pnl |-> daily_realized_pnl, equity |-> Equity]

(* What the account may report.                                            *)
Reports == {Figures} \cup Garbled

Request(p, figures) ==
  [daily_realized_pnl |-> figures.daily_realized_pnl, equity |-> figures.equity,
   target_family |-> p.target_family, proposed_cost |-> p.proposed_cost,
   open_positions |-> open_positions, expected_value |-> p.expected_value,
   trade_outcomes |-> trade_outcomes,
   current_time |-> [zone |-> "aware", t |-> clock],
   cluster_cap_ctx |-> p.cluster_cap_ctx]

Ask(r, p, figures) ==
  /\ orders[r] = None
  /\ orders' = [orders EXCEPT ![r] = [request |-> Request(p, figures),
                                      answer |-> None]]
  /\ UNCHANGED book /\ CountLate({})

EvaluateTrade(r) ==
  /\ orders[r] # None /\ orders[r].answer = None
  /\ \E answer \in Answers(orders[r].request) :
       orders' = [orders EXCEPT ![r].answer = answer]
  /\ UNCHANGED book /\ CountLate({})

Fill(r) ==
  /\ orders[r] # None /\ orders[r].answer = "OK"
  /\ Len(open_positions) < MaxFills
  /\ open_positions' =
       Append(open_positions,
              [family |-> orders[r].request.target_family,
               cost_basis |-> orders[r].request.proposed_cost,
               is_resolved |-> FALSE])
  /\ orders' = [orders EXCEPT ![r] = None]
  /\ UNCHANGED <<trade_outcomes, daily_realized_pnl, clock>>
  /\ CountLate({r})

(* A refused order is dropped; an approved one may fail to fill.           *)
Drop(r) ==
  /\ orders[r] # None /\ orders[r].answer # None
  /\ orders' = [orders EXCEPT ![r] = None]
  /\ UNCHANGED book /\ CountLate({})

Resolved(positions, i) ==
  [positions EXCEPT ![i] = [@ EXCEPT !.is_resolved = TRUE]]

(* A Position is a mutable object, shared by the book and the requests     *)
(* that wait for an answer: a router copies the list, not what is in it.   *)
Resolve(i, pnl) ==
  /\ ~open_positions[i].is_resolved
  /\ open_positions' = Resolved(open_positions, i)
  /\ orders' = [r \in Routers |->
                  IF /\ orders[r] # None /\ orders[r].answer = None
                     /\ i \in DOMAIN orders[r].request.open_positions
                  THEN [orders[r] EXCEPT !.request.open_positions = Resolved(@, i)]
                  ELSE orders[r]]
  /\ trade_outcomes' = Append(trade_outcomes,
                              [zone |-> "aware", t |-> clock, pnl |-> pnl])
  /\ daily_realized_pnl' = daily_realized_pnl + pnl
  /\ UNCHANGED clock /\ CountLate({})

Tick ==
  /\ clock < MaxTime /\ clock' = clock + 1
  /\ UNCHANGED <<open_positions, trade_outcomes, daily_realized_pnl, orders>>
  /\ CountLate({})

Next ==
  \/ \E r \in Routers, p \in Proposals, figures \in Reports : Ask(r, p, figures)
  \/ \E r \in Routers : EvaluateTrade(r)
  \/ \E r \in Routers : Fill(r)
  \/ \E r \in Routers : Drop(r)
  \/ \E i \in DOMAIN open_positions, pnl \in Results : Resolve(i, pnl)
  \/ Tick

Spec == Init /\ [][Next]_vars

-----------------------------------------------------------------------------

Families == {p.target_family : p \in Proposals}

(* The most that one order can cost.                                       *)
MaxCost ==
  Max({0} \cup {p.proposed_cost : p \in {q \in Proposals : Finite(q.proposed_cost)}})

(* evaluate_concentration keeps the exposure of a family within the limit  *)
(* up to the orders that other routers had in flight: however stale the    *)
(* books they were judged on, at most one order each goes over it.  Under  *)
(* a limit below zero nothing is held at all.                              *)
ExposureBounded ==
  \A family \in Families :
    \/ Exposure(family, open_positions) = 0
    \/ Exposure(family, open_positions)
         <= max_correlated_exposure + (Cardinality(Routers) - 1) * MaxCost

(* Once the loss of the day is over the limit, evaluate_drawdown lets no   *)
(* order through that is asked for from then on: each router fills at most *)
(* the one it had in flight.                                               *)
DrawdownStopsDesk == \A r \in Routers : late[r]["drawdown"] <= 1

(* The same of a run of losses and evaluate_consecutive_losses.            *)
LossRunStopsDesk == \A r \in Routers : late[r]["losses"] <= 1

Approved(r) == orders[r] # None /\ orders[r].answer = "OK"

(* The policy, read off RiskContext and ClusterCapContext rather than off  *)
(* the gates.  A cluster that is known has a cap above zero, and the trade *)
(* fits under it, as far as the two can be compared.                       *)
MeetsPolicy(q) ==
  /\ AtMost(min_expected_value, q.expected_value)
  /\ Finite(q.equity) /\ Finite(q.daily_realized_pnl) /\ q.equity > 0
  /\ -(max_daily_drawdown_pct * q.equity) <= 100 * q.daily_realized_pnl
  /\ consecutive_loss_limit >= 0 /\ consecutive_loss_window >= 0
  /\ ~LossRun(q.trade_outcomes, q.current_time.t)
  /\ Finite(q.proposed_cost)
  /\ ~(Exposure(q.target_family, q.open_positions) + q.proposed_cost
         > max_correlated_exposure)
  /\ LET c == q.cluster_cap_ctx
     IN c # None =>
          /\ Finite(c.proposed_cost)
          /\ c.known /\ c.proposed_cost > 0 /\ Finite(c.max_cluster_usd) =>
               /\ c.max_cluster_usd > 0
               /\ Finite(c.cluster_open_usd) =>
                    c.cluster_open_usd + c.proposed_cost <= c.max_cluster_usd

(* evaluate_trade approves only what meets every limit of the policy: the  *)
(* expected value, the drawdown, the run of losses, the exposure and the   *)
(* cap of the cluster.  No gate of the chain is skipped or undoes the      *)
(* rejection of another, and no malformed figure slips past a comparison,  *)
(* but for the exposure and the cap of a cluster.                          *)
ApprovedMeetsPolicy ==
  \A r \in Routers : Approved(r) => MeetsPolicy(orders[r].request)

(* SECURITY.md: "NaN, infinity, and subnormal values must be handled       *)
(* explicitly": no trade is approved in a cluster whose figures cannot be  *)
(* compared.                                                               *)
ClusterFiguresFinite ==
  \A r \in Routers :
    LET cluster == orders[r].request.cluster_cap_ctx
    IN Approved(r) /\ cluster # None => Finite(cluster.cluster_open_usd)
=============================================================================
