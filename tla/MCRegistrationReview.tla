-------------------------- MODULE MCRegistrationReview -------------------------
\* Model values for TLC.
EXTENDS RegistrationReview, TLC

CONSTANTS t1, t2, a1, a2

LearnerTabs    == {t1, t2}
AdviserPages   == {a1, a2}
Pages          == Permutations(LearnerTabs) \cup Permutations(AdviserPages)
=============================================================================
