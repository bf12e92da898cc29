\* A domain deleted while a check of it is under way.
CONSTANTS
  Names = {n1}
  NoName = NoName
  Users = {u1}
  NoUser = NoUser
  Callers = {u1}
  Calls = {a1}
  Ids = {i1}
  NoId = NoId
  Junk = Junk
  PaidPlan = 1
  DomainLimit <- SameLimit
  BatchSize = 1
  AuthEnabled = TRUE
SPECIFICATION Spec
PROPERTIES
  DeletedStaysDeleted
