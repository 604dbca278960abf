SPECIFICATION Spec
CONSTANTS
  NJobs = 2
  Size = 2
  MaxDownloads = 2
  MaxAttempts = 1
  OfflineTicks = 1
  LeaseTicks = 2
  None = None
  Event = {"overlap", "pause", "pause queued", "cancel", "unflushed", "crash", "no range", "broken stream"}
  MaxEvents = 3
INVARIANTS
  TargetIsRight
PROPERTIES
  OnlyCancelDeletes
