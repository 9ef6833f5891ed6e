SPECIFICATION RecordSpec
CONSTANTS
  openclaw = openclaw
  Request = {e1, e2}
  Provider = {openclaw}
  ProviderOf <- ToOpenclaw
  Ref = {x1, x2}
  NoRef = NoRef
  Caller = {ignore}
  Word = {w1, w2}
  MarkTarget <- Outcomes
  NoteGiven = {FALSE}
  Nothing = Nothing
  Service = {s1}
  Item = {i1, i2}
  Ingester = {t1, t2}
  Project = {g1, g2}
  NoItem = NoItem
  Learner = {t1, t2}
  Cycle = {c1}
  Letter = {f1}
  NoTopic = NoTopic
  Clerk = {p1, p2}
  Handoff = {h1}
  Errand = {a1, a2}
  NoErrand = NoErrand
  MaxSlip = 1
  Writer = {t1, t2}
  Chat = {c1, c2}
  Index = Index
  NoDoc = NoDoc
  Entry = {n1}
  MaxChange = 4
  Topic = {o1, o2}
  Claim = {c1}
  ReviewId = {r1}
  Extractor = {t1, t2}
  Field = {f1, f2}
  Detail = {f2}
  MaxText = 2
  Speaker = {k1, k2}
  Job = {j1}
  Reporter = {p1, p2}
  Agent = {a1, a2}
  NoJob = NoJob
SYMMETRY Symmetry
INVARIANTS
  RecordTypesOK
  LibraryConsistent
  LessonsEarned
  KeptUnlessClash
  FactsReachReader
  ConfirmedStands
  CancelSticks
PROPERTIES
  KeepsLifecycle
  KeepsLedger
CHECK_DEADLOCK FALSE
