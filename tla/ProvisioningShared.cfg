CONSTANTS
  u1 = u1 u2 = u2
  d0 = d0 d1 = d1 d2 = d2
  h1 = h1 h2 = h2
  NoOwner = NoOwner
  Deleted = Deleted
  Users = {u1, u2}
  DbIds = {d0, d1, d2}
  Handlers = {h1, h2}
  Resident = {d0}
  MaxDatabases = 1
  Operations <- AllOperations
  Faulty <- AllButList
  MaxFaults = 1
SPECIFICATION Spec
SYMMETRY Symmetry
INVARIANT LiveHasKeyspace
PROPERTY OwnKeyspaceOnly
PROPERTY RegistrySpec
CHECK_DEADLOCK FALSE
