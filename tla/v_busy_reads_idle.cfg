SPECIFICATION Spec
CONSTANTS
  NRuns = 1
  NItems = 1
  NeedsInstall = {}
  Batch <- Alone
  Outcome = {"done", "failed"}
  MaxAttempts = 1
  OfflineTicks = 1
  LeaseTicks = 2
  None = None
  Event = {}
  MaxEvents = 0
INVARIANT BusyWhileExecuting
