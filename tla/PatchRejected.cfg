SPECIFICATION Spec
CONSTANTS
  File = {a}
  Written = {old, new}
  Text <- Texts
  Empty = Empty
  Missing = Missing
  Proposal = {p1}
  Client = {c1}
  NoProposal = NoProposal
  MaxItems = 1
  MaxEdit = 0
PROPERTIES
  RejectedStaysUnwritten
CHECK_DEADLOCK FALSE
