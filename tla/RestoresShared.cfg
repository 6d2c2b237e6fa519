CONSTANTS
  i1 = i1 i2 = i2
  r1 = r1
  q1 = q1 q2 = q2
  None = None
  Restores = {i1, i2}
  Replicas = {r1}
  Pollers = {q1, q2}
  Faulty = {"create", "answer", "get", "restart", "expire"}
  MaxFaults = 2
SPECIFICATION FairSpec
INVARIANT CompletedIsTrue
INVARIANT FailedIsTrue
PROPERTY ReportsSpec
PROPERTY RestoreSettles
CHECK_DEADLOCK FALSE
