CONSTANTS
  u1 = u1 u2 = u2
  p1 = p1 p2 = p2
  r1 = r1 r2 = r2
  h1 = h1 h2 = h2
  None = None
  Free = "free"
  Tiers = {"free", "scale"}
  Payable = {"scale"}
  PaymentIds = {p1, p2}
  Users = {u1, u2}
  Replicas = {r1}
  Handlers = {h1, h2}
  Operations = {"webhook", "confirm", "admin"}
  Faulty = {"mollie", "tiers", "answer", "crash"}
  MaxFaults = 1
SPECIFICATION Spec
SYMMETRY Symmetry
INVARIANT TierJustified
INVARIANT RecordedIsApplied
INVARIANT PaidIsKept
PROPERTY LedgerSpec
CHECK_DEADLOCK FALSE
