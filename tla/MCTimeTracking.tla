----------------------------- MODULE MCTimeTracking ---------------------------
\* Model values for TLC.
EXTENDS TimeTracking, TLC

CONSTANTS p1, p2, i1, i2

TwoPings     == {p1, p2}
OneInstance  == {i1}
TwoInstances == {i1, i2}
PingPerm     == Permutations(TwoPings)
=============================================================================
