CONSTANTS
  None = None
  Nan = Nan
  Invalid = Invalid
  Huge = Huge
  Zones <- OneZone
  MaxTime = 1
  Gates <- AllGates
  Threshold = 1
  Cooldown = 1
  MaxLosses = 1
  WindowTrades = 2
  HasCallback = TRUE
  MayOmit = FALSE
  MaxLag = 0
  min_expected_value = 0
  max_daily_drawdown_pct = 10
  max_correlated_exposure = 1
  consecutive_loss_limit = 1
  consecutive_loss_window = 1
  MayBeSlow = TRUE
  Drafts <- AllDrafts
SPECIFICATION ProviderSpec
INVARIANTS
  ReportExplains
  FiguresAreChecked
PROPERTIES
  RetryIsSafe
  ImplementsDeskHalt
