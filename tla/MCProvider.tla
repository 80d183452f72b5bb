----------------------------- MODULE MCProvider -----------------------------
(* Gate sets and requests for the run of RiskProvider.                     *)
EXTENDS RiskProvider, RiskAuthorityHalts

AllGates == {"kill", "breaker", "window"}
OneZone == {"aware"}

At(zone, t) == [zone |-> zone, t |-> t]

Sound ==
  [run_id |-> "run", target_family |-> "rates", daily_realized_pnl |-> 0,
   equity |-> 10, proposed_cost |-> 1, expected_value |-> 1,
   open_positions |-> <<>>, trade_outcomes |-> <<>>,
   current_time |-> At("aware", 1), advisory |-> None]

Held == <<[family |-> "rates", cost_basis |-> 1, is_resolved |-> FALSE]>>
Lost == <<[zone |-> "aware", t |-> 0, pnl |-> -1]>>

(* A position and an outcome that were changed after they were built.      *)
HeldOfNan == <<[Held[1] EXCEPT !.cost_basis = Nan]>>
LostNan == <<[Lost[1] EXCEPT !.pnl = Nan]>>

(* Stopped by one gate, by two, and by a clock in another zone mode.       *)
Rejected ==
  { [Sound EXCEPT !.open_positions = Held],
    [Sound EXCEPT !.expected_value = -1, !.daily_realized_pnl = -2],
    [Sound EXCEPT !.trade_outcomes = Lost, !.current_time = At("naive", 1)] }

(* Refused: one field, two fields, and a number no float can hold.         *)
Unsound ==
  {[Sound EXCEPT ![field] = Nan] : field \in Numbers}
    \cup { [Sound EXCEPT !.run_id = Invalid, !.equity = Huge],
           [Sound EXCEPT !.expected_value = Huge, !.advisory = Invalid] }

AllDrafts ==
  LET known == {Sound} \cup Rejected
  IN Unsound \cup known \cup {[Sound EXCEPT !.current_time = None]}
       \cup {[draft EXCEPT !.advisory = "secret"] :
               draft \in {d \in known : d.expected_value > 0}}
       \cup {[Sound EXCEPT !.advisory = a] : a \in {"hint", "unsortable"}}
       \cup { [Sound EXCEPT !.open_positions = HeldOfNan],
              [Sound EXCEPT !.trade_outcomes = LostNan] }
=============================================================================
