------------------------ MODULE RiskAuthorityClaims ------------------------
(***************************************************************************)
(* What comments in gates.py and engine.py say of the authority and the    *)
(* code does not do.  Each claim is refuted by a run of its own; the call  *)
(* that settled a trade in the last step is kept to state them.            *)
(***************************************************************************)
EXTENDS RiskAuthorityAudit

VARIABLE call  \* the arguments of record_resolved_trade, None in other steps

claimVars == <<auditVars, call>>

ClaimsInit == AuditInit /\ call = None

ClaimsNext ==
  \/ NotSettle /\ call' = None
  \/ \E pnl \in Pnls, at \in Datetimes :
       Settle(pnl, at) /\ call' = [pnl |-> pnl, at |-> at]

ClaimsSpec == ClaimsInit /\ [][ClaimsNext]_claimVars

(* gates.py, record(): "A loss (pnl < 0) advances the streak and may       *)
(* trip", while the breaker is clear and the figure is a number.           *)
CountsEveryLoss ==
  [][call' # None /\ IsLoss(call'.pnl) /\ ~cb_tripped =>
       loss_streak' = loss_streak + 1]_claimVars

(* engine.py, __init__: "Callback fired once per unique stateful rejection *)
(* reason", in the life of one authority.                                  *)
AlertOncePerReason ==
  [][alert' # None => alert' \notin alerted]_claimVars

(* gates.py, TimedCircuitBreaker: "the breaker stays tripped until         *)
(* cooldown_hours elapses, at which point the streak is cleared and        *)
(* trading resumes automatically": a loss dated after that point is the    *)
(* first of a new streak.                                                  *)
LossAfterCooldownCounts ==
  [][call' # None /\ call'.pnl = "loss" /\ Breaker!Expired(call'.at) =>
       loss_streak' = 1]_claimVars
=============================================================================
