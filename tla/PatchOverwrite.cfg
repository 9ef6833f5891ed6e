SPECIFICATION Spec
CONSTANTS
  File = {a}
  Written = {old, new}
  Text <- Texts
  Empty = Empty
  Missing = Missing
  Proposal = {p1}
  Client = {c1, c2}
  NoProposal = NoProposal
  MaxItems = 1
  MaxEdit = 1
PROPERTIES
  OverwritesOnlyBase
CHECK_DEADLOCK FALSE
