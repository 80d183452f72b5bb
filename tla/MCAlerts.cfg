CONSTANTS
  None = None
  Zones <- OneZone
  MaxTime = 0
  Gates <- KillAndBreaker
  Threshold = 1
  Cooldown = 1
  MaxLosses = 1
  WindowTrades = 1
  HasCallback = TRUE
  MayOmit = FALSE
  MaxLag = 0
  MaxTrades = 2
SPECIFICATION ClaimsSpec
PROPERTIES
  AlertOncePerReason
