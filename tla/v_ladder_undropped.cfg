SPECIFICATION Spec
CONSTANTS
  Mode = {"custom"}
  Contexts = 1
  NglMax = 1
  MaxLoads = 1
  MaxTrouble = 0
  None = None
  Cap = {}
  Seed = {0}
  Trouble = {}
  MaxBlocks = 2
  Routed = 4
INVARIANT UndroppedGrows
CHECK_DEADLOCK FALSE
