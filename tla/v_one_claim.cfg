SPECIFICATION Spec
CONSTANTS
  NRuns = 1
  NItems = 1
  NeedsInstall = {1}
  Batch <- Alone
  Outcome = {"done", "failed"}
  MaxAttempts = 1
  OfflineTicks = 1
  LeaseTicks = 2
  None = None
  Event = {"outage"}
  MaxEvents = 1
INVARIANT OneClaimPerRun
