SPECIFICATION Spec
CONSTANTS
  Project = {alpha, beta}
  NoProject = NoProject
  Command = {c1, c2}
  MaxPlan = 2
  MaxStamp = 5
SYMMETRY Symmetry
INVARIANTS
  OwnWorkspace
  ExecutedWasBuilt
PROPERTIES
  ReplayRefused
CHECK_DEADLOCK FALSE
