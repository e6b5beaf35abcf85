SPECIFICATION FairSpec
CONSTANTS
  at1 = at1
  at2 = at2
  s1 = s1
  s2 = s2
  ad1 = ad1
  ad2 = ad2
  q1 = q1
  q2 = q2
  Null = Null
  Unlimited = Unlimited
  Attempts <- OneAttempt
  Questions <- TwoQuestions
  Manual <- OneManual
  Learners <- OneSlot
  Admins <- OneAdmin
  Limits = {2}
  PassMark = 1
  Timed = TRUE
  MayCrash = FALSE
  MayFail = TRUE
INVARIANT MarksMatchSheet
PROPERTY PassReachesCourse
