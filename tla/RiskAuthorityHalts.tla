------------------------- MODULE RiskAuthorityHalts -------------------------
(***************************************************************************)
(* RiskAuthority implements DeskHalt.                                      *)
(***************************************************************************)
EXTENDS RiskAuthority

(* The causes a set of gate values puts in force.                          *)
CausesIn(kill_tripped, breaker_tripped, trades) ==
  (IF kill_tripped THEN {"kill"} ELSE {})
    \cup (IF breaker_tripped THEN {"breaker"} ELSE {})
    \cup (IF Window!TooManyLosses(trades) THEN {"window"} ELSE {})

Halts == CausesIn(ks_tripped, cb_tripped, history)

Durable ==
  IF saved = None THEN {}
  ELSE CausesIn(saved.kill_switch.tripped, saved.timed_breaker.tripped,
                saved.consecutive_loss_gate)

Verdict ==
  CASE result = None -> "none"
    [] result = OK -> "approved"
    [] result \in StatelessCodes \X {0} -> "refused"
    [] OTHER -> "halted"

Desk == INSTANCE DeskHalt
          WITH halts <- Halts, durable <- Durable, verdict <- Verdict

(* Every behaviour of the authority is one that DeskHalt allows: no trade  *)
(* is let through while a cause is in force, no evaluation lifts a cause   *)
(* other than a breaker it was allowed to ask, no settled trade clears the *)
(* breaker or the kill switch, and a crash loses exactly what the last     *)
(* snapshot does not hold.                                                 *)
ImplementsDeskHalt == Desk!Spec
=============================================================================
