\* Tokens, rate limiter, packaging, live lists, profile, lists, log stream, launchers, answers, chart.
\* Bounds on rows, time, releases, records, visits, loads, commands and lines end behaviours.
CONSTANTS
  TokenCalls = {c1, c2}
  Limits = {1}
  TopLimit = 1
  Attempts = 2
  MaxTokens = 5
  Subjects = {s1, s2}
  Cost = 2
  Rate = 1
  Burst = 4
  StaleAge = 4
  SweepEvery = 3
  MaxTime = 12
  MaxRelease = 2
  MaxCrashes = 2
  Traffic <- TwoKinds
  MaxRecords = 3
  Retained = 2
  MaxVisits = 2
  MaxMounts = 2
  ProfileCalls = {p1, p2}
  Domains = {d1}
  PageCalls = {q1, q2}
  MaxLoads = 3
  MaxCommands = 2
  Steps = {i1, i2}
  Conns = {l1, l2}
  Writers = {w1, w2}
  MaxLines = 3
  MaxLogBacklog = 2
  MaxAnswerLines = 4
  Window = 12
SPECIFICATION Spec
SYMMETRY Symmetry
CHECK_DEADLOCK FALSE
INVARIANTS
  PartsTypeOK
  TokensOvershootBounded
  SweepIsInvisible
  SyncHeals
  ReleasesInOrder
  EmptyIsExplained
  OneCallPerForm
  OwnCommandsAreShown
  EachLineOnce
PROPERTIES
  RevokeTakes
  DrawerKeepsItsRecord
