SPECIFICATION FairSpec
CONSTANTS
  NRows = 2
  NInstalls = 2
  User = {u1}
  MaxTokens = 3
  MaxCodes = 5
  MaxPending = 1
  None = None
  Event = {"crash", "lost", "sleep", "code expires", "reinstall", "revoke", "delete"}
  MaxEvents = 2
INVARIANTS
  RevokedStaysOut
  OneSession
  PresentsCurrent
PROPERTIES
  OnlyOwnerRevokes
  ComesBack
CHECK_DEADLOCK FALSE
