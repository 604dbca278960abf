SPECIFICATION FairSpec
CONSTANTS
  NJobs = 1
  Size = 1
  MaxDownloads = 2
  MaxAttempts = 1
  OfflineTicks = 1
  LeaseTicks = 2
  None = None
  Event = {"pause queued"}
  MaxEvents = 1
PROPERTIES
  EveryDownloadEnds
