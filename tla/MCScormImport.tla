----------------------------- MODULE MCScormImport ----------------------------
\* Model values for TLC.
EXTENDS ScormImport, TLC

CONSTANTS a1, a2

OneAdmin  == {a1}
TwoAdmins == {a1, a2}
AdminPerm == Permutations(TwoAdmins)
=============================================================================
