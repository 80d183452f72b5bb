------------------------ MODULE TimedCircuitBreaker ------------------------
(***************************************************************************)
(* The cooldown breaker (gates.py, class TimedCircuitBreaker).  record()   *)
(* feeds it settled trades, check() both judges a trade and clears the     *)
(* breaker when the caller's clock says that the cooldown is over.         *)
(***************************************************************************)
EXTENDS RiskValues

CONSTANTS
  Threshold,  \* consecutive_loss_threshold, at least 1
  Cooldown    \* cooldown_hours, in instants of the clock, at least 1

VARIABLES loss_streak, tripped, tripped_at

breaker == <<loss_streak, tripped, tripped_at>>

New == [loss_streak |-> 0, tripped |-> FALSE, tripped_at |-> None]

\* Fault: a snapshot leaves the streak out.
ToStateForgetsStreak ==
  [loss_streak |-> 0, tripped |-> tripped, tripped_at |-> tripped_at]

ToState ==
  [loss_streak |-> loss_streak, tripped |-> tripped, tripped_at |-> tripped_at]

FromState(s) ==
  /\ loss_streak' = s.loss_streak
  /\ tripped' = s.tripped
  /\ tripped_at' = s.tripped_at

(* What TimedCircuitBreakerState.__post_init__ accepts.                    *)
ValidState(s) == s.loss_streak \in Nat

States ==
  [loss_streak : Nat, tripped : BOOLEAN, tripped_at : Stamps \cup {None}]

Init == loss_streak = 0 /\ tripped = FALSE /\ tripped_at = None

-----------------------------------------------------------------------------

\* Fault: the streak keeps growing while the breaker is tripped.
RecordWhileTripped(pnl, at) ==
  \/ ~IsFinite(pnl) /\ UNCHANGED breaker
  \/ /\ IsFinite(pnl) /\ IsLoss(pnl)
     /\ loss_streak' = loss_streak + 1
     /\ tripped' = (loss_streak' >= Threshold)
     /\ tripped_at' = IF tripped' THEN at ELSE tripped_at
  \/ /\ IsFinite(pnl) /\ ~IsLoss(pnl)
     /\ loss_streak' = 0
     /\ UNCHANGED <<tripped, tripped_at>>

(* record(): a figure that is not a finite float is ignored, and so is     *)
(* every figure while tripped.                                             *)
Record(pnl, at) ==
  \/ (~IsFinite(pnl) \/ tripped) /\ UNCHANGED breaker
  \/ /\ IsFinite(pnl) /\ ~tripped /\ IsLoss(pnl)
     /\ loss_streak' = loss_streak + 1
     /\ tripped' = (loss_streak' >= Threshold)
     /\ tripped_at' = IF tripped' THEN at ELSE tripped_at
  \/ /\ IsFinite(pnl) /\ ~tripped /\ ~IsLoss(pnl)
     /\ loss_streak' = 0
     /\ UNCHANGED <<tripped, tripped_at>>

-----------------------------------------------------------------------------

(* check() compares times only when it is tripped and both are given.      *)
Dated(now) == tripped /\ tripped_at # None /\ now # None

ZoneMismatch(now) ==
  Dated(now) /\ TimezoneMode(now) # TimezoneMode(tripped_at)

\* Fault: the last instant of the cooldown is waited out twice.
ExpiredLate(now) ==
  /\ Dated(now) /\ ~ZoneMismatch(now)
  /\ now.t - tripped_at.t > Cooldown

\* Fault: the cooldown is over one instant early.
ExpiredEarly(now) ==
  /\ Dated(now) /\ ~ZoneMismatch(now)
  /\ now.t - tripped_at.t >= Cooldown - 1

Expired(now) ==
  /\ Dated(now) /\ ~ZoneMismatch(now)
  /\ now.t - tripped_at.t >= Cooldown

Reset == FromState(New)

(* The state change of check(): an expired cooldown clears the breaker.    *)
Check(now) ==
  \/ Expired(now) /\ FromState(New)
  \/ ~Expired(now) /\ UNCHANGED breaker

Blocks(now) == tripped /\ ~Expired(now)

Reason(now) == IF ZoneMismatch(now) THEN MixedZones
               ELSE <<"ERR_TIMED_CIRCUIT_BREAKER", loss_streak>>
=============================================================================
