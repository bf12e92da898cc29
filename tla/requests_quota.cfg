\* Two accounts with a tunnel each, one request at a time, a history of one row.
CONSTANTS
  Accounts = {u1, u2}
  TunnelIds = {d1, d2}
  Subdomains = {s1, s2}
  NoTunnel = NoTunnel
  Procs = {p1}
  Ids = {i1, i2, i3}
  NoId = NoId
  DailyLimit = 1
  StoredLimit = 1
  ReplayLimit = 1
  Retention = FALSE
SPECIFICATION Spec
INVARIANTS
  DailyWithinPlan
