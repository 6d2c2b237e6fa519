--------------------------- MODULE MCProvisioning ---------------------------
EXTENDS Provisioning, TLC

CONSTANTS u1, u2, d0, d1, d2, h1, h2

\* d0 may be a resident and is kept out.
Symmetry == Permutations({u1, u2}) \cup Permutations({d1, d2})
              \cup Permutations(Handlers)

AllOperations == {"create", "delete", "rotate", "autoscale", "usage"}

\* Every call but the listing of the secrets.
AllButList == Calls \ {"list"}
=============================================================================
