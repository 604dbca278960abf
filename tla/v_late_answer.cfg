SPECIFICATION Spec
CONSTANTS
  Key = {k1, k2}
  Model = {a}
  MaxSpooled = 1
  Batch = 1
  MaxRows = 0
  MaxEdits = 4
  None = None
  Event = {"timeout"}
  MaxEvents = 1
PROPERTIES RevokedStaysOut
CHECK_DEADLOCK FALSE
