SPECIFICATION Spec
CONSTANTS
  NJobs = 1
  Size = 1
  MaxDownloads = 2
  MaxAttempts = 1
  OfflineTicks = 1
  LeaseTicks = 2
  None = None
  Event = {"crash"}
  MaxEvents = 1
INVARIANTS
  ResumeHasBytes
