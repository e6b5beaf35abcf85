CONSTANTS
  s1 = s1
  s2 = s2
  m1 = m1
  r1 = r1
  r2 = r2
  Last = 2
  Sections <- TwoSections
  ChapterOf <- Places
  Quizzed = {1}
  ModuleOf <- OneModule
  Curricula <- TwoVersions
  Live <- Whole
  Tables = {"time"}
  Slots <- TwoSlots
  MayMigrate = TRUE
  MayCrash = TRUE
SPECIFICATION Spec
SYMMETRY SlotPerm
INVARIANTS InOrder RecordedIsEarned FinishedIsRecorded
