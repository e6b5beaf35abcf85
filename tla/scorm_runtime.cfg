SPECIFICATION FairSpec
CONSTANTS
  h1 = h1
  p1 = p1
  l1 = l1
  Hooks <- MCHooks
  Pulls <- MCPulls
  Lessons <- MCLessons
  Manifest = TRUE
  NotTaken = NotTaken
  MaxTime = 2
  MaxFaults = 1
INVARIANTS AppliedIsRecorded SeenIsCurrent LessonsBacked CertifiedComplete
PROPERTIES NeverBack Settles
CHECK_DEADLOCK FALSE
