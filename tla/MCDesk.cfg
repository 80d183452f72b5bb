CONSTANTS
  None = None
  Zones <- OneZone
  MaxTime = 1
  Gates <- AllGates
  Threshold = 2
  Cooldown = 1
  MaxLosses = 1
  WindowTrades = 2
  HasCallback = TRUE
  MayOmit = FALSE
  MaxLag = 0
  MaxTrades = 3
SPECIFICATION AuditSpec
INVARIANTS
  AuditTypeOK
  ApprovedMeansClear
  SnapshotRestorable
  HaltAnnounced
  WindowMatchesLog
