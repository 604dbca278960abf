SPECIFICATION Spec
CONSTANTS
  Mode = {"frontier", "keep_context", "fixed_offload", "custom"}
  Contexts = 2
  NglMax = 3
  MaxLoads = 10
  MaxTrouble = 1
  None = None
  Cap <- SomeCaps
  Seed = {2}
  Trouble = {"error", "stop", "unsupported","sibling","out of memory"}
  MaxBlocks = 4
  Routed = 4
INVARIANTS
  FitIsRight
  CleanIsSeen
  ClaimOnlySuffices
  AtMostTwice
  EndsSettled
CHECK_DEADLOCK FALSE
