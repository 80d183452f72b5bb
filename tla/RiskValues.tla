----------------------------- MODULE RiskValues -----------------------------
(***************************************************************************)
(* Values shared by the stateful controls of trade_risk_engine: settled    *)
(* PnL figures, the datetimes callers pass in, and reason codes.           *)
(*                                                                         *)
(* A PnL figure is known by its sign and by whether it is a Python float,  *)
(* because that is all the stateful gates look at.  A datetime is a zone   *)
(* mode ("aware" or "naive") and an instant; None is the default of every  *)
(* datetime parameter.  A reason code is its ERR_ name and the number that *)
(* is formatted into it, since on_trip compares whole strings.             *)
(***************************************************************************)
EXTENDS Integers, Sequences, FiniteSets

CONSTANTS
  None,      \* Python's None
  Zones,     \* the zone modes callers use, a subset of {"aware", "naive"}
  MaxTime    \* the last instant of the modelled horizon

ASSUME ZonesAssumption == Zones \subseteq {"aware", "naive"} /\ Zones # {}
ASSUME MaxTimeAssumption == MaxTime \in Nat

Instants == 0 .. MaxTime
Stamps == [zone : Zones, t : Instants]

(* "loss" and "gain" are finite floats; the int_ figures are Python ints,  *)
(* and nan stands for every NaN or infinite float.                         *)
Pnls == {"loss", "gain", "int_loss", "int_gain", "nan"}

\* isinstance(x, float) and neither NaN nor infinite
IsFinite(pnl) == pnl \in {"loss", "gain"}

\* pnl < 0
IsLoss(pnl) == pnl \in {"loss", "int_loss"}

TimezoneMode(stamp) == stamp.zone

OK == <<"OK", 0>>
MixedZones == <<"ERR_INVALID_TIMEZONE_MIXED", 0>>
StatelessCodes == {"ERR_STATELESS_GATE"}
Codes == {"OK", "ERR_INVALID_TIMEZONE_MIXED", "ERR_KILL_SWITCH_MANUAL",
          "ERR_TIMED_CIRCUIT_BREAKER", "ERR_CONSECUTIVE_LOSS_GATE"}
            \cup StatelessCodes
Reasons == Codes \X Nat

\* None is not a datetime, an instant or a reason.
ASSUME NoneAssumption == None \notin Stamps \cup Nat \cup Reasons
=============================================================================
