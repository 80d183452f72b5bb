CONSTANTS
  None = None
  Zones <- OneZone
  MaxTime = 0
  Gates <- BreakerOnly
  Threshold = 2
  Cooldown = 1
  MaxLosses = 1
  WindowTrades = 1
  HasCallback = FALSE
  MayOmit = FALSE
  MaxLag = 0
  MaxTrades = 3
SPECIFICATION ClaimsSpec
PROPERTIES
  CountsEveryLoss
