SPECIFICATION Spec
CONSTANTS
  NJobs = 3
  Size = 1
  MaxDownloads = 2
  MaxAttempts = 1
  OfflineTicks = 1
  LeaseTicks = 2
  None = None
  Event = {"overlap", "outage"}
  MaxEvents = 3
INVARIANTS
  SlotsAreTheLimit
