\* Accounts, scores, the back office and the scripts, one moving at a time.
SPECIFICATION BackofficeSpec
CONSTANTS
  u1 = u1
  u2 = u2
  o1 = o1
  o2 = o2
  x1 = x1
  x2 = x2
  d1 = d1
  d2 = d2
  s1 = s1
  s2 = s2
  e1 = e1
  e2 = e2
  Users = {u1, u2}
  Members = {m1}
  Admins = {o1, o2}
  Sanctions = {x1, x2}
  Reports = {r1}
  Devices = {d1, d2}
  Sources = {s1, s2}
  Keys = {k1}
  Senders = {o1, o2}
  Campaigns = {c1}
  Reached = {u1, u2}
  Events = {e1, e2}
  Reviewers = {o1}
  GuildIds = {g1, g2}
  MemberOrders = {n1, n2, n3}
  PlanDays = {1, 2}
  MaxPeriods = 3
  LastMemberDay = 4
  Staff = {f1, f2}
  FirstAdmin = f1
  DailyLimit = 2
  MaxTokens = 4
  Worths <- MCWorths
  MaxSamples = 5
  MaxNotes = 2
  MaxAge = 1
  Retention = 2
  Rebuildable = 1
  LastDay = 3
  MaxActs = 3
  MaxCrowd = 9
  RailLimit = 2
  MoreLimit = 3
  Score <- MCScore
  Steps = 3
  Times = {1, 2, 3}
  Titles = 2
  LeftPending = {2}
  Days = 1
  MaxRows = 2
  EventDays = 2
  Slack = 2
  RecountDays = 4
  LastDemoDay = 4
CONSTRAINT MCSmall
SYMMETRY MCSymmetry
INVARIANTS
  BackofficeTypeOK
  StatusHasItsReason
  OneTokenPerLogin
  ScoreIsEarned
  OnceEach
  ListsAsMeant
  RunsAgain
  SomebodyManages
CHECK_DEADLOCK FALSE
