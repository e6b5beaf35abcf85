SPECIFICATION FairSpec
CONSTANTS
  sec1 = sec1
  sec2 = sec2
  quiz1 = quiz1
  r1 = r1
  r2 = r2
  r3 = r3
  id1 = id1
  id2 = id2
  id3 = id3
  Null = Null
  Sections <- OneSection
  Quizzes <- OneQuiz
  Curricula <- Whole
  Trees <- Full
  Slots <- ThreeSlots
  Kinds = {"section", "quiz", "assess", "student"}
  CertIds <- ThreeIds
  AutoIssue = TRUE
  MayEdit = FALSE
  MayCrash = FALSE
INVARIANTS
  CompletedOnce
  AnnouncedOnce
  DoneIsStamped
PROPERTY FinishedGetsCertificate
