CONSTANTS
  h1 = h1 h2 = h2
  c1 = c1 c2 = c2
  a1 = a1 a2 = a2
  None = None
  Handlers = {h1, h2}
  Cidrs = {c1, c2}
  Ips = {a1, a2}
  Faulty = {"call", "answer", "crash"}
  MaxFaults = 1
  MaxLogins = 2
SPECIFICATION Spec
SYMMETRY Symmetry
INVARIANT LoginIsLatest
INVARIANT RangesKept
INVARIANT ListIsTheUsers
PROPERTY GoneForGood
CHECK_DEADLOCK FALSE
