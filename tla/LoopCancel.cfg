SPECIFICATION LoopSpec
CONSTANTS
  Loop = {u1}
  NoHolder = NoHolder
  MaxRevise = 1
PROPERTIES
  CancelHonored
CHECK_DEADLOCK FALSE
