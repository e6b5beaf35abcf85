CONSTANTS
  a1 = a1
  a2 = a2
  Cron = Cron
  Admins <- OneAdmin
  MaxPackages = 2
  MayCrash = FALSE
  MayDestroy = FALSE
SPECIFICATION Spec
CHECK_DEADLOCK FALSE
INVARIANT PinnedIsKept
