CONSTANTS
  u1 = u1 u2 = u2
  d0 = d0 d1 = d1 d2 = d2
  h1 = h1 h2 = h2
  NoOwner = NoOwner
  Deleted = Deleted
  Users = {u1, u2}
  DbIds = {d0, d1, d2}
  Handlers = {h1, h2}
  Resident = {}
  MaxDatabases = 1
  Operations = {"create", "delete"}
  Faulty = {}
  MaxFaults = 0
SPECIFICATION Spec
PROPERTY WipesAfterLastOnly
CHECK_DEADLOCK FALSE
