CONSTANTS
  a1 = a1
  a2 = a2
  Cron = Cron
  Admins <- OneAdmin
  MaxPackages = 2
  MayCrash = TRUE
  MayDestroy = TRUE
SPECIFICATION FairSpec
INVARIANTS OneInFlight ReadyIsLive BuiltIsKept CloudIsNamed
PROPERTY Decided
CHECK_DEADLOCK FALSE
