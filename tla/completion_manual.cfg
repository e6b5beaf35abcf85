SPECIFICATION Spec
CONSTANTS
  sec1 = sec1
  sec2 = sec2
  quiz1 = quiz1
  r1 = r1
  r2 = r2
  r3 = r3
  id1 = id1
  id2 = id2
  id3 = id3
  Null = Null
  Sections <- TwoSections
  Quizzes <- OneQuiz
  Curricula <- OldAndNew
  Trees <- Edited
  Slots <- TwoSlots
  Kinds = {"section", "quiz", "assess", "student", "manual"}
  CertIds <- TwoIds
  AutoIssue = TRUE
  MayEdit = TRUE
  MayCrash = TRUE
SYMMETRY Symmetry
INVARIANTS
  CompletionEarned
  CertificateEarned
PROPERTY IssuedStands
