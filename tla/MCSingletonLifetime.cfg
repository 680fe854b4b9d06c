SPECIFICATION LifeSpec
CONSTANTS
  Singletons <- McSingletons
  Tracker = "tracker"
  Policy <- McPolicy
  Longevity <- McLongevity
  MainUses = 4
  FrameUses = 1
CHECK_DEADLOCK FALSE
INVARIANTS
  TypeOK
  DestroyedOnce
  NoneLeft
  LongerLivedUsable
PROPERTIES
  ShorterLivedFirst
