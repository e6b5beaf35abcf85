--------------------------- MODULE MCLearnerProgress --------------------------
\* Two chapters of one module, a section each, the first with a quiz; a newer version
\* of the course has only the second chapter.
EXTENDS LearnerProgress, TLC

CONSTANTS s1, s2, m1, r1, r2

TwoSections == {s1, s2}
Places      == s1 :> 1 @@ s2 :> 2
OneModule   == 1 :> m1 @@ 2 :> m1
Whole       == [chapters |-> {1, 2}, sections |-> {s1, s2}]
Shorter     == [chapters |-> {2}, sections |-> {s2}]
TwoVersions == {Whole, Shorter}
TwoSlots    == {r1, r2}
SlotPerm    == Permutations(TwoSlots)
=============================================================================
