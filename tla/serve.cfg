SPECIFICATION FairDaemonSpec
CONSTANTS
  Spec = {a, b}
  Request = {r}
  MaxRestarts = 1
  MaxJobs = 3
  None = None
  Event = {"crash", "bad load", "port taken", "stop", "hang", "restart"}
  MaxEvents = 4
INVARIANTS
  GpuIsFree
  OneModel
  KillsIdle
  Accounted
PROPERTIES
  ComesBack
CHECK_DEADLOCK FALSE
