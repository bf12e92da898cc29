\* A preview instance under the scheduler's fairness (no symmetry).
CONSTANTS
  Subdomains = {s1, s2}
  NoSub = NoSub
  Users = {operator}
  NoUser = NoUser
  Conns = {c1, c2}
  NoConn = NoConn
  ApiCalls = {}
  Callers = {}
  RowIds = {r1, r2}
  NoId = NoId
  FreePlan = 0
  PreviewLimit = 0
  ActiveLimit <- SamePlan
  ReserveLimit <- SameReserve
  AuthEnabled = FALSE
SPECIFICATION FairSpec
PROPERTIES
  ClosedHandlerEnds
