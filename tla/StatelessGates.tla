--------------------------- MODULE StatelessGates ---------------------------
(***************************************************************************)
(* The pure gates of gates.py and the chain that runs them (engine.py,     *)
(* _evaluate_stateless).  A gate is an operator from its inputs to a       *)
(* reason code, "OK" when it lets the trade through.                       *)
(*                                                                         *)
(* Money is a whole number, percentages are whole, times are instants, and *)
(* Nan is the float NaN.  An infinity is refused wherever a NaN is, but by *)
(* the cluster cap, where it compares as a number; it is left out.         *)
(***************************************************************************)
EXTENDS Integers, Sequences, FiniteSetsExt

CONSTANTS
  None,                       \* Python's None
  Nan,                        \* the float NaN
  min_expected_value, max_daily_drawdown_pct, max_correlated_exposure,
  consecutive_loss_limit, consecutive_loss_window,  \* RiskContext
  MayBeSlow                   \* whether an evaluation can miss its budget

(* RiskContext.__post_init__: the policy is made of finite numbers.        *)
ASSUME PolicyAssumption ==
  /\ min_expected_value \in Int /\ max_daily_drawdown_pct \in Int
  /\ max_correlated_exposure \in Int
  /\ consecutive_loss_limit \in Int /\ consecutive_loss_window \in Int
  /\ MayBeSlow \in BOOLEAN
ASSUME NanAssumption == Nan \notin Int
ASSUME NoneAssumption ==
  /\ None \notin Int /\ None # "OK"
  /\ None \notin [zone : {"aware", "naive"}, t : Int]

Finite(x) == x # Nan

\* Comparisons with NaN are false.
AtMost(x, y) == Finite(x) /\ Finite(y) /\ x <= y

(* The first reason of a list of verdicts that is not "OK".                *)
FirstReason(verdicts) ==
  IF \A i \in DOMAIN verdicts : verdicts[i] = "OK" THEN "OK"
  ELSE verdicts[CHOOSE i \in DOMAIN verdicts :
                  /\ verdicts[i] # "OK"
                  /\ \A j \in 1 .. i - 1 : verdicts[j] = "OK"]

-----------------------------------------------------------------------------

evaluate_expected_value(expected_value) ==
  IF ~Finite(expected_value) THEN "ERR_INVALID_FLOAT_EXPECTED_VALUE"
  ELSE IF expected_value < min_expected_value THEN "ERR_EXPECTED_VALUE"
  ELSE "OK"

\* Fault: a loss is compared with the limit without its sign.
DrawdownUnsigned(daily_realized_pnl, equity) ==
  IF ~Finite(daily_realized_pnl) \/ ~Finite(equity)
    THEN "ERR_INVALID_FLOAT_DRAWDOWN"
  ELSE IF equity <= 0 THEN "ERR_ZERO_OR_NEGATIVE_EQUITY"
  ELSE IF 100 * daily_realized_pnl > max_daily_drawdown_pct * equity
    THEN "ERR_DAILY_DRAWDOWN"
  ELSE "OK"

(* daily_realized_pnl / equity < -max_daily_drawdown_pct, with the equity  *)
(* multiplied out.                                                         *)
evaluate_drawdown(daily_realized_pnl, equity) ==
  IF ~Finite(daily_realized_pnl) \/ ~Finite(equity)
    THEN "ERR_INVALID_FLOAT_DRAWDOWN"
  ELSE IF equity <= 0 THEN "ERR_ZERO_OR_NEGATIVE_EQUITY"
  ELSE IF 100 * daily_realized_pnl < -(max_daily_drawdown_pct * equity)
    THEN "ERR_DAILY_DRAWDOWN"
  ELSE "OK"

-----------------------------------------------------------------------------
(* Concentration: the unresolved positions of a family.                    *)

Held(family, positions) ==
  {i \in DOMAIN positions :
     ~positions[i].is_resolved /\ positions[i].family = family}

Exposure(family, positions) ==
  MapThenSumSet(LAMBDA i : positions[i].cost_basis, Held(family, positions))

\* Fault: the proposed trade itself is not counted.
ConcentrationBefore(family, proposed_cost, positions) ==
  IF \/ ~Finite(proposed_cost)
     \/ \E i \in Held(family, positions) : ~Finite(positions[i].cost_basis)
    THEN "ERR_INVALID_FLOAT_CONCENTRATION"
  ELSE IF Exposure(family, positions) > max_correlated_exposure
    THEN "ERR_CONCENTRATION"
  ELSE "OK"

evaluate_concentration(family, proposed_cost, positions) ==
  IF \/ ~Finite(proposed_cost)
     \/ \E i \in Held(family, positions) : ~Finite(positions[i].cost_basis)
    THEN "ERR_INVALID_FLOAT_CONCENTRATION"
  ELSE IF Exposure(family, positions) + proposed_cost > max_correlated_exposure
    THEN "ERR_CONCENTRATION"
  ELSE "OK"

-----------------------------------------------------------------------------
(* Consecutive losses: the newest outcomes are counted as long as they are *)
(* losses inside the window.  The scan goes through the list sorted by     *)
(* time; sorted() is stable, so of two outcomes with one timestamp the     *)
(* later in the list is the newer.                                         *)

Modes(outcomes) == {outcomes[i].zone : i \in DOMAIN outcomes}

\* Fault: the oldest outcome is taken for now.
EarliestStamp(outcomes) == Min({outcomes[i].t : i \in DOMAIN outcomes})

LatestStamp(outcomes) == Max({outcomes[i].t : i \in DOMAIN outcomes})

\* Fault: the list is scanned from its end, without sorting it.
LaterInList(outcomes, i, j) == i > j

\* Fault: the scan starts with the oldest outcome.
Older(outcomes, i, j) ==
  outcomes[i].t < outcomes[j].t \/ (outcomes[i].t = outcomes[j].t /\ i < j)

Newer(outcomes, i, j) ==
  outcomes[i].t > outcomes[j].t \/ (outcomes[i].t = outcomes[j].t /\ i > j)

\* Fault: the window has no far end.
CountedForever(outcome, at) == outcome.pnl < 0 /\ outcome.t <= at

Counted(outcome, at) ==
  outcome.pnl < 0 /\ at - outcome.t \in 0 .. consecutive_loss_window

(* The scan has counted everything newer than i.                           *)
Reached(outcomes, at, i) ==
  \A j \in DOMAIN outcomes : Newer(outcomes, j, i) => Counted(outcomes[j], at)

\* Fault: a win or an old loss is skipped, and the scan goes on.
AllCounted(outcomes, at) == {i \in DOMAIN outcomes : Counted(outcomes[i], at)}

(* The outcomes that are counted before the scan breaks.                   *)
CountedRun(outcomes, at) ==
  {i \in DOMAIN outcomes : Reached(outcomes, at, i) /\ Counted(outcomes[i], at)}

\* Fault: the limit itself is still allowed.
ScanOverLimit(outcomes, at) ==
  IF Cardinality(CountedRun(outcomes, at)) > consecutive_loss_limit
  THEN "ERR_CONSECUTIVE_LOSS_LIMIT" ELSE "OK"

(* The scan stops at the limit, or at the first outcome that is not        *)
(* counted; it is refused if that one is a loss dated after the trade.     *)
ScanLosses(outcomes, at) ==
  IF Cardinality(CountedRun(outcomes, at)) >= consecutive_loss_limit
    THEN "ERR_CONSECUTIVE_LOSS_LIMIT"
  ELSE IF \E i \in DOMAIN outcomes :
            /\ Reached(outcomes, at, i)
            /\ outcomes[i].pnl < 0 /\ at < outcomes[i].t
    THEN "ERR_INVALID_TIME_ORDER"
  ELSE "OK"

evaluate_consecutive_losses(outcomes, current_time) ==
  IF consecutive_loss_limit < 0 \/ consecutive_loss_window < 0
    THEN "ERR_INVALID_CONSECUTIVE_LOSS_CONTEXT"
  ELSE IF consecutive_loss_limit = 0 \/ outcomes = <<>> THEN "OK"
  ELSE IF Cardinality(Modes(outcomes)) > 1 THEN "ERR_INVALID_TIMEZONE_MIXED"
  ELSE IF \E i \in DOMAIN outcomes : ~Finite(outcomes[i].pnl)
    THEN "ERR_INVALID_FLOAT_CONSECUTIVE_LOSSES"
  ELSE IF current_time = None THEN ScanLosses(outcomes, LatestStamp(outcomes))
  ELSE IF current_time.zone \notin Modes(outcomes)
    THEN "ERR_INVALID_TIMEZONE_MIXED"
  ELSE ScanLosses(outcomes, current_time.t)

-----------------------------------------------------------------------------

(* ClusterCapContext: known is cluster_id # "unknown".  A trade that is    *)
(* let through goes with a RiskDecision of its size, which refuses a NaN.  *)
evaluate_cluster_cap(cluster) ==
  LET capped == cluster.known /\ ~AtMost(cluster.proposed_cost, 0)
      exceeds ==
        /\ Finite(cluster.cluster_open_usd) /\ Finite(cluster.proposed_cost)
        /\ Finite(cluster.max_cluster_usd)
        /\ cluster.cluster_open_usd + cluster.proposed_cost
             > cluster.max_cluster_usd
  IN IF capped /\ (AtMost(cluster.max_cluster_usd, 0) \/ exceeds)
       THEN "ERR_CLUSTER_CAP"
     ELSE IF ~Finite(cluster.proposed_cost) THEN "ValueError"
     ELSE "OK"

-----------------------------------------------------------------------------

(* The gates in the order of _evaluate_stateless.                          *)
Verdicts(request) ==
  << evaluate_expected_value(request.expected_value),
     evaluate_drawdown(request.daily_realized_pnl, request.equity),
     evaluate_consecutive_losses(request.trade_outcomes, request.current_time),
     evaluate_concentration(request.target_family, request.proposed_cost,
                            request.open_positions),
     IF request.cluster_cap_ctx = None THEN "OK"
     ELSE evaluate_cluster_cap(request.cluster_cap_ctx) >>

(* What evaluate_trade may answer: a RiskDecision cannot be built with a   *)
(* NaN size, and the latency budget is looked at when every gate passed.   *)
Answers(request) ==
  LET reason == FirstReason(Verdicts(request))
  IN IF ~Finite(request.proposed_cost) THEN {"ValueError"}
     ELSE IF reason = "OK" /\ MayBeSlow THEN {"OK", "ERR_LATENCY_BUDGET"}
     ELSE {reason}
=============================================================================
