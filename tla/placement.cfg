SPECIFICATION Spec
CONSTANTS
  Mode = {"custom"}
  Contexts = 1
  NglMax = 1
  MaxLoads = 1
  MaxTrouble = 0
  None = None
  Cap = {}
  Seed = {0}
  Trouble = {}
  MaxBlocks = 4
  Routed = 4
INVARIANTS
  PlacementRoundTrips
  LadderGrows
CHECK_DEADLOCK FALSE
