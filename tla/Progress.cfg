SPECIFICATION AllSpec
CONSTANTS
  tui = tui
  mcp = mcp
  m1 = m1
  m2 = m2
  Owner = {tui, mcp}
  Process = {tui, mcp}
  ProcessOf <- OwnProcess
  Model = {m1, m2}
  NoModel = NoModel
  NoOwner = NoOwner
  StaleTTL = 2
  AcquireTimeout = 1
  Watch = {w1}
  WatchThread = {t1, t2}
  Schedule = {"hourly"}
  MaxTick = 1
  MaxFault = 1
  Loop = {u1, u2}
  NoHolder = NoHolder
  MaxRevise = 1
INVARIANTS
  TypesOK
  ExclusiveUntilStale
  NoOrphanedRecord
  OneRunPerWatch
  NoLeaseLeft
PROPERTIES
  LeaseKept
  LoopKeepsLease
  AcquireReturns
  DueWatchServed
  LoopEnds
CHECK_DEADLOCK FALSE
