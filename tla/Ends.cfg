SPECIFICATION AllSpec
CONSTANTS
  openclaw = openclaw
  Request = {e1}
  Provider = {openclaw}
  ProviderOf <- ToOpenclaw
  Ref = {f1}
  NoRef = NoRef
  Caller = {ignore, answer}
  Word = {w1}
  MarkTarget <- Outcomes
  NoteGiven = {TRUE, FALSE}
  Nothing = Nothing
  Project = {alpha}
  NoProject = NoProject
  Command = {c1, c2}
  MaxPlan = 2
  MaxStamp = 4
  File = {a}
  Text = {Empty, old, new}
  Empty = Empty
  Missing = Missing
  Proposal = {p1}
  Client = {k1, k2}
  NoProposal = NoProposal
  MaxItems = 2
  MaxEdit = 0
  Primary = {p1, p2}
  Adjudicator = {adj}
  Worker = 2
  MaxHandoff = 1
  MaxCall = 1
  NoPersona = NoPersona
INVARIANTS
  EveryAgentReports
  PatchAgrees
  NotesFormPath
PROPERTIES
  CancelEnds
  IgnoreSettles
  CommandsEnd
  ExecutionDecides
CHECK_DEADLOCK FALSE
