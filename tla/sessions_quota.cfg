\* A preview instance: one operator on a one-tunnel plan, no accounts, three
\* names, two agents at a time; no API calls.
CONSTANTS
  Subdomains = {s1, s2, s3}
  NoSub = NoSub
  Users = {operator}
  NoUser = NoUser
  Conns = {c1, c2}
  NoConn = NoConn
  ApiCalls = {}
  Callers = {}
  RowIds = {r1, r2, r3}
  NoId = NoId
  FreePlan = 1
  PreviewLimit = 3
  ActiveLimit <- SamePlan
  ReserveLimit <- SameReserve
  AuthEnabled = FALSE
SPECIFICATION Spec
SYMMETRY Symmetry
INVARIANTS
  OvershootBounded
