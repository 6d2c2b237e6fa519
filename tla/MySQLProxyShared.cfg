CONSTANTS
  c1 = c1 c2 = c2
  u1 = u1 u2 = u2
  l1 = l1 l2 = l2
  a1 = a1
  None = None
  Conns = {c1}
  Users = {u1, u2}
  Logins = {l1, l2}
  OwnerOf <- Owners
  Addresses = {a1}
  MaxSignals = 2
SPECIFICATION FairSpec
INVARIANT RelayedWasListed
PROPERTY RelayEnds
PROPERTY SecondSignalEnds
CHECK_DEADLOCK FALSE
