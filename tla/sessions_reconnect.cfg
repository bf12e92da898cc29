\* An agent reconnects before the control plane has seen its old session end.
CONSTANTS
  Subdomains = {s1}
  NoSub = NoSub
  Users = {u1}
  NoUser = NoUser
  Conns = {c1, c2}
  NoConn = NoConn
  ApiCalls = {}
  Callers = {}
  RowIds = {r1}
  NoId = NoId
  FreePlan = 1
  PreviewLimit = 3
  ActiveLimit <- SamePlan
  ReserveLimit <- SameReserve
  AuthEnabled = TRUE
SPECIFICATION Spec
INVARIANTS
  LiveAgentRouted
