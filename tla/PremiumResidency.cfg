SPECIFICATION Spec
CONSTANTS
  tui = tui
  mcp = mcp
  m1 = m1
  m2 = m2
  Owner = {tui, mcp}
  Process = {tui, mcp}
  ProcessOf <- OwnProcess
  Model = {m1, m2}
  NoModel = NoModel
  NoOwner = NoOwner
  StaleTTL = 2
  AcquireTimeout = 1
INVARIANTS
  OnePremiumResident
