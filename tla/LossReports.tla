---------------------------- MODULE LossReports ----------------------------
(***************************************************************************)
(* The list of settled outcomes a caller keeps for the consecutive-loss    *)
(* gate (evaluate_consecutive_losses in gates.py).  Reports arrive in any  *)
(* order: late, dated after the clock of the caller, or with equal times.  *)
(***************************************************************************)
EXTENDS StatelessGates

CONSTANTS
  ZoneModes,   \* the zone modes of reports, a subset of {"aware", "naive"}
  MaxTime,     \* the last instant of the modelled horizon
  MaxSkew,     \* how far a report may be dated after the clock
  MaxReports   \* bound on the length of the list

ASSUME ReportsAssumption ==
  /\ ZoneModes \subseteq {"aware", "naive"} /\ ZoneModes # {}
  /\ MaxTime \in Nat /\ MaxSkew \in Nat /\ MaxReports \in Nat

(* The gate is switched on.                                                *)
ASSUME LimitAssumption ==
  consecutive_loss_limit > 0 /\ consecutive_loss_window >= 0

VARIABLES
  outcomes,  \* trade_outcomes, in the order in which the reports arrived
  clock      \* the clock of the caller

reportVars == <<outcomes, clock>>

\* A loss, and a figure that is just not a loss.
Pnls == {-1, 0}

Outcomes ==
  [zone : ZoneModes, t : 0 .. clock + MaxSkew, pnl : Pnls]

Init == outcomes = <<>> /\ clock = 0

Report(outcome) ==
  /\ Len(outcomes) < MaxReports
  /\ outcomes' = Append(outcomes, outcome)
  /\ UNCHANGED clock

Tick == clock < MaxTime /\ clock' = clock + 1 /\ UNCHANGED outcomes

Without(i) ==
  [j \in 1 .. Len(outcomes) - 1 |-> outcomes[IF j < i THEN j ELSE j + 1]]

(* The caller drops a report, whatever its rule for that is.               *)
Forget(i) == outcomes' = Without(i) /\ UNCHANGED clock

Next ==
  \/ \E outcome \in Outcomes : Report(outcome)
  \/ \E i \in DOMAIN outcomes : Forget(i)
  \/ Tick

Spec == Init /\ [][Next]_reportVars

-----------------------------------------------------------------------------

Now(zone) == [zone |-> zone, t |-> clock]

Verdict(list) == [zone \in ZoneModes |-> evaluate_consecutive_losses(list, Now(zone))]

Recent(outcome) == outcome.t >= clock - consecutive_loss_window

DistinctTimes ==
  \A i, j \in DOMAIN outcomes : outcomes[i].t = outcomes[j].t => i = j

NothingAhead == \A i \in DOMAIN outcomes : outcomes[i].t <= clock

(* The newest outcomes, at least consecutive_loss_limit of them, are       *)
(* losses inside the window.                                               *)
RecentLossRun ==
  \E run \in SUBSET DOMAIN outcomes :
    /\ Cardinality(run) >= consecutive_loss_limit
    /\ \A i \in run : outcomes[i].pnl < 0 /\ Recent(outcomes[i])
    /\ \A i \in run, j \in DOMAIN outcomes \ run : outcomes[j].t < outcomes[i].t

(* "Blocks trades after N consecutive losses within Y minutes": exactly    *)
(* then, when times tell the reports apart and none lies ahead.            *)
BlocksLossRuns ==
  DistinctTimes /\ NothingAhead /\ Cardinality(Modes(outcomes)) <= 1 =>
    \A zone \in Modes(outcomes) :
      Verdict(outcomes)[zone] =
        IF RecentLossRun THEN "ERR_CONSECUTIVE_LOSS_LIMIT" ELSE "OK"

(* Dropping a report that is older than the window is safe: the gate       *)
(* answers the same, as long as something is left to tell the zone mode.   *)
OldOutcomesDoNotMatter ==
  \A i \in DOMAIN outcomes :
    ~Recent(outcomes[i]) /\ Modes(Without(i)) = Modes(outcomes) =>
      Verdict(Without(i)) = Verdict(outcomes)

(* The order in which reports arrive does not matter, even for reports     *)
(* dated ahead, when times tell them apart: sorted() undoes it.            *)
ArrivalOrderDoesNotMatter ==
  DistinctTimes =>
    \A i \in 1 .. Len(outcomes) - 1 :
      Verdict([outcomes EXCEPT ![i] = outcomes[i + 1], ![i + 1] = outcomes[i]])
        = Verdict(outcomes)

(* A caller that leaves current_time out is judged no more mildly: what is *)
(* too many losses by the clock is too many by the newest outcome, which   *)
(* stands in for the clock.                                                *)
OmittedTimeNeverHelps ==
  \A zone \in ZoneModes :
    Verdict(outcomes)[zone] = "ERR_CONSECUTIVE_LOSS_LIMIT" =>
      evaluate_consecutive_losses(outcomes, None) = "ERR_CONSECUTIVE_LOSS_LIMIT"

(* Another loss never opens the gate: a report of a loss, however late,    *)
(* cannot turn a rejection for too many losses into an approval.           *)
LossNeverHelps ==
  [][\A outcome \in Outcomes, zone \in ZoneModes :
       /\ Report(outcome) /\ outcome.pnl < 0 /\ outcome.t <= clock
       /\ outcome.zone \in Modes(outcomes)
       /\ Verdict(outcomes)[zone] = "ERR_CONSECUTIVE_LOSS_LIMIT"
       => Verdict(outcomes')[zone] = "ERR_CONSECUTIVE_LOSS_LIMIT"]_reportVars
=============================================================================
