CONSTANTS
  u1 = u1 u2 = u2
  d0 = d0 d1 = d1 d2 = d2
  h1 = h1 h2 = h2
  NoOwner = NoOwner
  Deleted = Deleted
  Users = {u1}
  DbIds = {d1, d2}
  Handlers = {h1, h2}
  Resident = {}
  MaxDatabases = 1
  Operations = {"create", "delete", "usage", "autoscale"}
  Faulty = {"usage", "crash"}
  MaxFaults = 1
SPECIFICATION FairSpec
INVARIANT CalmWithinQuota
INVARIANT CalmNoLeftovers
INVARIANT CalmCountCovers
PROPERTY CountReconciled
CHECK_DEADLOCK FALSE
