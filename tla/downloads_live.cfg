SPECIFICATION FairSpec
CONSTANTS
  NJobs = 1
  Size = 2
  MaxDownloads = 2
  MaxAttempts = 1
  OfflineTicks = 1
  LeaseTicks = 2
  None = None
  Event = {"outage", "crash", "pause", "cancel", "refused"}
  MaxEvents = 2
INVARIANTS
  CompletedIsRegistered
  DownloadsAreHeld
PROPERTIES
  EveryDownloadEnds
