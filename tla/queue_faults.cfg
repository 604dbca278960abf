SPECIFICATION Spec
CONSTANTS
  NRuns = 1
  NItems = 2
  NeedsInstall = {1}
  Batch <- Alone
  Outcome = {"done", "failed"}
  MaxAttempts = 1
  OfflineTicks = 1
  LeaseTicks = 2
  None = None
  Event = {"stop", "crash", "late", "outage", "unflushed"}
  MaxEvents = 3
INVARIANTS
  FinishedIffClosed
  LeaseOutlivesWorker
  StoppedByUserIsAccurate
PROPERTIES
  OutcomeIsFinal
  DoneItemStaysDone
  EndedJobStaysEnded
  Lifecycle
