-------------------------------- MODULE MCDesk --------------------------------
EXTENDS Desk, TLC

CONSTANTS c1, c2, k1, k2, k3, s1, s2, alice, bob

ConstSlots == 1 .. 2
ConstCidrs == {c1, c2}
ConstKeys == {k1, k2, k3}
ConstMock == {k1}
ConstStores == {s1, s2}
ConstSizes == {1, 2}
ConstUsers == {alice, bob}
=============================================================================
