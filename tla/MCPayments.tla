----------------------------- MODULE MCPayments -----------------------------
EXTENDS Payments, TLC

CONSTANTS u1, u2, p1, p2, r1, r2, h1, h2

\* Users, payments, replicas and handler slots are interchangeable.
Symmetry == Permutations(Users) \cup Permutations(PaymentIds)
              \cup Permutations(Replicas) \cup Permutations(Handlers)
=============================================================================
