----------------------------- MODULE MCRestores -----------------------------
EXTENDS Restores, TLC

CONSTANTS i1, i2, r1, q1, q2
=============================================================================
