SPECIFICATION Spec
CONSTANTS
  Project = {alpha, beta}
  NoProject = NoProject
  Command = {c1, c2}
  MaxPlan = 2
  MaxStamp = 4
PROPERTIES
  OnlyOpenSwitches
CHECK_DEADLOCK FALSE
