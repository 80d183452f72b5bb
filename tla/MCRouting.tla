----------------------------- MODULE MCRouting -----------------------------
(* Strategies for the runs of OrderRouting.                                *)
EXTENDS OrderRouting, TLC

RouterSymmetry == Permutations(Routers)

Proposal(family, cost, ev, cluster) ==
  [target_family |-> family, proposed_cost |-> cost, expected_value |-> ev,
   cluster_cap_ctx |-> cluster]

Cluster(known, held, cost, cap) ==
  [known |-> known, cluster_open_usd |-> held, proposed_cost |-> cost,
   max_cluster_usd |-> cap]

OneFamily == {Proposal("rates", 1, 1, None)}

(* Orders that each gate judges, some of them malformed.                   *)
Mixed ==
  { Proposal("rates", 2, 1, None), Proposal("energy", 1, 0, None),
    Proposal("rates", 1, -1, None), Proposal("rates", Nan, 1, None),
    Proposal("rates", 1, Nan, None),
    Proposal("energy", 1, 1, Cluster(TRUE, 1, 1, 1)),
    Proposal("energy", 1, 1, Cluster(TRUE, 1, Nan, 3)),
    Proposal("energy", 1, 1, Cluster(TRUE, -2, 1, 0)),
    Proposal("energy", 1, 1, Cluster(TRUE, Nan, 1, 0)),
    Proposal("energy", 1, 1, Cluster(TRUE, 1, 1, Nan)),
    Proposal("energy", 1, 1, Cluster(FALSE, 9, 1, 1)) }

NanCluster == {Proposal("rates", 1, 1, Cluster(TRUE, Nan, 1, 1))}

Reported(pnl, equity) == [daily_realized_pnl |-> pnl, equity |-> equity]

NoReports == {}

(* Reports that the drawdown gate has to refuse, each in its own way.      *)
BadReports ==
  {Reported(Nan, 20), Reported(0, Nan), Reported(0, 0), Reported(0, -20)}

WinOrLose == {-1, 0}

(* A loss within the limit of the day, and one that exceeds it.            *)
SmallOrLarge == {-1, -3}
=============================================================================
