----------------------------- MODULE KillSwitch -----------------------------
(***************************************************************************)
(* The manual kill switch (gates.py, class KillSwitch): a flag and the     *)
(* time it was first pulled.                                               *)
(***************************************************************************)
EXTENDS RiskValues

VARIABLES tripped, tripped_at

switch == <<tripped, tripped_at>>

New == [tripped |-> FALSE, tripped_at |-> None]

ToState == [tripped |-> tripped, tripped_at |-> tripped_at]

States == [tripped : BOOLEAN, tripped_at : Stamps \cup {None}]

FromState(s) == tripped' = s.tripped /\ tripped_at' = s.tripped_at

Init == tripped = FALSE /\ tripped_at = None

(* A second pull keeps the time of the first one.                          *)
Trip(at) ==
  \/ ~tripped /\ tripped' = TRUE /\ tripped_at' = at
  \/ tripped /\ UNCHANGED switch

Reset == FromState(New)

Blocks == tripped

Reason == <<"ERR_KILL_SWITCH_MANUAL", 0>>
=============================================================================
