CONSTANTS
  None = None
  Nan = Nan
  min_expected_value = 0
  max_daily_drawdown_pct = 10
  max_correlated_exposure = 3
  consecutive_loss_limit = 0
  consecutive_loss_window = 0
  MayBeSlow = FALSE
  Routers = {r1}
  Proposals <- NanCluster
  Equity = 10
  Garbled <- NoReports
  Results <- WinOrLose
  MaxTime = 0
  MaxFills = 1
SPECIFICATION Spec
INVARIANTS
  ClusterFiguresFinite
