\* Two accounts, two domains, an API call, and a worker that checks one domain per
\* cycle (no symmetry: PublishedIsVerified is a liveness property).
CONSTANTS
  Names = {n1, n2}
  NoName = NoName
  Users = {u1, u2}
  NoUser = NoUser
  Callers = {u1, u2}
  Calls = {a1}
  Ids = {i1, i2}
  NoId = NoId
  Junk = Junk
  PaidPlan = 1
  DomainLimit <- SameLimit
  BatchSize = 1
  AuthEnabled = TRUE
SPECIFICATION FairSpec
INVARIANTS
  TypeOK
  VerifiedWasSeen
PROPERTIES
  NeverDisplaced
  PublishedIsVerified
