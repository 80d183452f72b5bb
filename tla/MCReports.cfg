CONSTANTS
  None = None
  Nan = Nan
  min_expected_value = 0
  max_daily_drawdown_pct = 10
  max_correlated_exposure = 4
  consecutive_loss_limit = 2
  consecutive_loss_window = 2
  MayBeSlow = FALSE
  ZoneModes <- BothZones
  MaxTime = 3
  MaxSkew = 1
  MaxReports = 4
SPECIFICATION Spec
INVARIANTS
  BlocksLossRuns
  OldOutcomesDoNotMatter
  ArrivalOrderDoesNotMatter
  OmittedTimeNeverHelps
PROPERTIES
  LossNeverHelps
