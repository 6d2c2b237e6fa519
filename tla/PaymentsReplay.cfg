CONSTANTS
  u1 = u1 u2 = u2
  p1 = p1 p2 = p2
  r1 = r1 r2 = r2
  h1 = h1 h2 = h2
  None = None
  Free = "free"
  Tiers = {"free", "scale", "team"}
  Payable = {"scale", "team"}
  PaymentIds = {p1, p2}
  Users = {u1}
  Replicas = {r1, r2}
  Handlers = {h1}
  Operations = {"webhook"}
  Faulty = {"answer"}
  MaxFaults = 1
SPECIFICATION Spec
PROPERTY NotAppliedAgain
CHECK_DEADLOCK FALSE
