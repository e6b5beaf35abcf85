------------------------- MODULE MCAssessmentAttempt -------------------------
(* Model values and symmetry for the small instances of AssessmentAttempt.  *)
EXTENDS AttemptRefinement, TLC

CONSTANTS at1, at2, s1, s2, ad1, ad2, q1, q2

TwoAttempts == {at1, at2}
OneAttempt  == {at1}
TwoSlots    == {s1, s2}
OneSlot     == {s1}
OneAdmin    == {ad1}
TwoAdmins   == {ad1, ad2}
MixedAdmins == {s2, ad1}
NoOne       == {}
OneQuestion == {q1}
TwoQuestions == {q1, q2}
OneManual   == {q2}

\* Attempt rows and the learner's tabs are interchangeable.
Symmetry == Permutations(TwoAttempts) \cup Permutations(TwoSlots)
=============================================================================
