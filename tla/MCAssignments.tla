---------------------------- MODULE MCAssignments -----------------------------
\* Model values for TLC.
EXTENDS Assignments, TLC

CONSTANTS r1, r2

OneSlot  == {r1}
TwoSlots == {r1, r2}
SlotPerm == Permutations(TwoSlots)
=============================================================================
