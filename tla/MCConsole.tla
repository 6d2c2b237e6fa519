------------------------------- MODULE MCConsole -------------------------------
EXTENDS Console, TLC

CONSTANTS d1, d2

ConstDbs == {d1, d2}
ConstSlots == 1 .. 2
=============================================================================
