\* A subdomain is deleted and taken by another account during a handshake.
CONSTANTS
  Subdomains = {s1}
  NoSub = NoSub
  Users = {u1, u2}
  NoUser = NoUser
  Conns = {c1}
  NoConn = NoConn
  ApiCalls = {a1}
  Callers = {u1, u2}
  RowIds = {r1, r2}
  NoId = NoId
  FreePlan = 1
  PreviewLimit = 3
  ActiveLimit <- SamePlan
  ReserveLimit <- SameReserve
  AuthEnabled = TRUE
SPECIFICATION Spec
INVARIANTS
  RoutedToOwner
