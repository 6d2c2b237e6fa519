---------------------------- MODULE MCAccessLists ---------------------------
EXTENDS AccessLists, TLC

CONSTANTS h1, h2, c1, c2, a1, a2

\* Handler slots, ranges and addresses are interchangeable.
Symmetry == Permutations(Handlers) \cup Permutations(Cidrs) \cup Permutations(Ips)
=============================================================================
