SPECIFICATION Spec
CONSTANTS
  at1 = at1
  at2 = at2
  s1 = s1
  s2 = s2
  ad1 = ad1
  ad2 = ad2
  q1 = q1
  q2 = q2
  Null = Null
  Unlimited = Unlimited
  Attempts <- TwoAttempts
  Questions <- OneManual
  Manual <- OneManual
  Learners <- TwoSlots
  Admins <- NoOne
  Limits = {1, 2}
  PassMark = 1
  Timed = TRUE
  MayCrash = TRUE
  MayFail = TRUE
SYMMETRY Symmetry
INVARIANTS
  OneOpenAttempt
  SideEffectsOnce
