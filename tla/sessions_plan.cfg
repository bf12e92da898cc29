\* Two handshakes of one free account at once.
CONSTANTS
  Subdomains = {s1, s2}
  NoSub = NoSub
  Users = {u1}
  NoUser = NoUser
  Conns = {c1, c2}
  NoConn = NoConn
  ApiCalls = {}
  Callers = {}
  RowIds = {r1, r2}
  NoId = NoId
  FreePlan = 1
  PreviewLimit = 3
  ActiveLimit <- SamePlan
  ReserveLimit <- SameReserve
  AuthEnabled = TRUE
SPECIFICATION Spec
INVARIANTS
  ActiveWithinPlan
