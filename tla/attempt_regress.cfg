SPECIFICATION Spec
CONSTANTS
  at1 = at1
  at2 = at2
  s1 = s1
  s2 = s2
  ad1 = ad1
  ad2 = ad2
  q1 = q1
  q2 = q2
  Null = Null
  Unlimited = Unlimited
  Attempts <- OneAttempt
  Questions <- OneQuestion
  Manual <- NoOne
  Learners <- OneSlot
  Admins <- OneAdmin
  Limits = {1}
  PassMark = 1
  Timed = FALSE
  MayCrash = FALSE
  MayFail = TRUE
PROPERTY GradedBeforeFinal
