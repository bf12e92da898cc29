\* Accounts enabled: two accounts compete for two names.
CONSTANTS
  Subdomains = {s1, s2}
  NoSub = NoSub
  Users = {u1, u2}
  NoUser = NoUser
  Conns = {c1, c2}
  NoConn = NoConn
  ApiCalls = {a1}
  Callers = {u1, u2}
  RowIds = {r1, r2, r3}
  NoId = NoId
  FreePlan = 1
  PreviewLimit = 3
  ActiveLimit <- SamePlan
  ReserveLimit <- SameReserve
  AuthEnabled = TRUE
SPECIFICATION Spec
SYMMETRY Symmetry
INVARIANTS
  TypeOK
  MappedIsServed
PROPERTIES
  OwnerKept
  StaleActiveSources
  ImplementsRouting
