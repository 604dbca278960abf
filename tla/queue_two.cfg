SPECIFICATION Spec
CONSTANTS
  NRuns = 2
  NItems = 2
  NeedsInstall = {1}
  Batch <- Alone
  Outcome = {"done"}
  MaxAttempts = 1
  OfflineTicks = 1
  LeaseTicks = 2
  None = None
  Event = {"stop", "crash", "late"}
  MaxEvents = 2
INVARIANTS
  NoFreshJobForFinishedRun
  StopSparesOtherRuns
  CompletedMeansFinished
