CONSTANTS
  t1 = t1
  t2 = t2
  a1 = a1
  a2 = a2
  Tabs <- LearnerTabs
  Advisers <- AdviserPages
  Unset = Unset
  OldClients = FALSE
  MaxWrites = 4
  MayWipe = TRUE
  MayCrash = TRUE
SPECIFICATION Spec
SYMMETRY Pages
INVARIANTS NewestStands UnlockedIsApproved EverySubmissionIsNews
PROPERTY Informed
