SPECIFICATION Spec
CONSTANTS
  File = {a, b}
  Written = {old, new}
  Text <- Texts
  Empty = Empty
  Missing = Missing
  Proposal = {p1}
  Client = {c1, c2}
  NoProposal = NoProposal
  MaxItems = 2
  MaxEdit = 1
SYMMETRY Symmetry
INVARIANTS
  ComparedBeforeWrite
PROPERTIES
  DecisionStands
  OkMeansWritten
CHECK_DEADLOCK FALSE
