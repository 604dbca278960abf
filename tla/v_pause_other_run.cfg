SPECIFICATION Spec
CONSTANTS
  NRuns = 2
  NItems = 1
  NeedsInstall = {}
  Batch <- Alone
  Outcome = {"done", "failed"}
  MaxAttempts = 1
  OfflineTicks = 1
  LeaseTicks = 2
  None = None
  Event = {"crash", "pause"}
  MaxEvents = 2
PROPERTY PauseHitsItsOwnRun
