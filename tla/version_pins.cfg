SPECIFICATION Spec
CONSTANTS
  sec1 = sec1
  sec2 = sec2
  ver1 = ver1
  ver2 = ver2
  ver3 = ver3
  en1 = en1
  r1 = r1
  r2 = r2
  Null = Null
  Sections <- OneSection
  Versions <- ThreeVersions
  Enrolments <- OneEnrolment
  Slots <- TwoSlots
  Kinds = {"create", "delete", "restore", "publish", "archive", "prune", "toggle", "migrate", "bulk", "tidy"}
  MayCrash = TRUE
INVARIANTS
  LatestIsNewest
  PinsResolve
PROPERTY OnlyMigrationsMovePins
SYMMETRY Symmetry
