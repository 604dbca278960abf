SPECIFICATION DaemonSpec
CONSTANTS
  Spec = {a, b}
  Request = {r}
  MaxRestarts = 2
  MaxJobs = 4
  None = None
  Event = {"crash"}
  MaxEvents = 2
INVARIANT ServesLast
CHECK_DEADLOCK FALSE
