CONSTANTS
  None = None
  Zones <- BothZones
  MaxTime = 5
  Gates <- BreakerOnly
  Threshold = 2
  Cooldown = 2
  MaxLosses = 1
  WindowTrades = 1
  HasCallback = FALSE
  MayOmit = TRUE
  MaxLag = 1
  MaxTrades = 5
SPECIFICATION AuditFairSpec
INVARIANTS
  BreakerMatchesLog
PROPERTIES
  HaltLastsCooldown
  TradingResumes
