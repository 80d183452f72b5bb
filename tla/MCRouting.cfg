CONSTANTS
  None = None
  Nan = Nan
  min_expected_value = 0
  max_daily_drawdown_pct = 10
  max_correlated_exposure = 2
  consecutive_loss_limit = 2
  consecutive_loss_window = 1
  MayBeSlow = FALSE
  Routers = {r1, r2}
  Proposals <- OneFamily
  Equity = 20
  Garbled <- NoReports
  Results <- SmallOrLarge
  MaxTime = 2
  MaxFills = 4
SPECIFICATION Spec
SYMMETRY RouterSymmetry
INVARIANTS
  ExposureBounded
  DrawdownStopsDesk
  LossRunStopsDesk
