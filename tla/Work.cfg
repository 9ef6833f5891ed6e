SPECIFICATION WorkSpec
CONSTANTS
  Handler = {c1, c2}
  Seed = {s1}
  ForageLimit = 1
  MaxRow = 3
  Turn = {t1, t2}
  Slug = {g1}
  NoSlug = NoSlug
  Query = {q1, q2}
  Key = {k1}
  WebRequest = {r1}
  NoRequest = NoRequest
  MaxRaise = 1
  Call = {c1, c2}
  Retry = 2
  Paper = {r1, r2}
  Round = 1
  MaxSecond = 1
  Asker = {a1, a2}
  Model = {m1, m2}
  Server = {s1}
  NoServer = NoServer
INVARIANTS
  WorkTypesOK
  ForageBudget
  
  OneForagingPerProject
  AnswerStaysReadable
  FindsWhatAnswers
  ReportHolds
  RaisesUnanswered
CHECK_DEADLOCK FALSE
