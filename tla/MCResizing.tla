----------------------------- MODULE MCResizing -----------------------------
EXTENDS Resizing, TLC

CONSTANTS h1, h2, d1, d2

\* Handler slots are interchangeable.
Symmetry == Permutations(Handlers)
=============================================================================
