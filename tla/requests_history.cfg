\* One account with two names for tunnels, two requests at a time, a history of one
\* row.
CONSTANTS
  Accounts = {u1}
  TunnelIds = {d1, d2}
  Subdomains = {s1, s2}
  NoTunnel = NoTunnel
  Procs = {p1, p2}
  Ids = {i1, i2}
  NoId = NoId
  DailyLimit = 1
  StoredLimit = 1
  ReplayLimit = 1
  Retention = TRUE
SPECIFICATION Spec
SYMMETRY Symmetry
INVARIANTS
  TypeOK
  ReplayOvershootBounded
  DailyOvershootBounded
  ArchivedOrDue
  SettledWithinLimit
