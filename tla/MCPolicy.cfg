CONSTANTS
  None = None
  Nan = Nan
  min_expected_value = 0
  max_daily_drawdown_pct = 10
  max_correlated_exposure = 3
  consecutive_loss_limit = 2
  consecutive_loss_window = 1
  MayBeSlow = TRUE
  Routers = {r1}
  Proposals <- Mixed
  Equity = 20
  Garbled <- BadReports
  Results <- WinOrLose
  MaxTime = 1
  MaxFills = 3
SPECIFICATION Spec
INVARIANTS
  ApprovedMeetsPolicy
