SPECIFICATION FairSpec
CONSTANTS
  Key = {k}
  Model = {a}
  MaxSpooled = 1
  Batch = 1
  MaxRows = 2
  MaxEdits = 3
  None = None
  Event = {"timeout", "crash", "over budget", "port taken", "old load", "re-added"}
  MaxEvents = 2
INVARIANTS
  NothingLost
  ListenerFollows
PROPERTIES
  Converges
CHECK_DEADLOCK FALSE
