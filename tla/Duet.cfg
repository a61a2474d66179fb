SPECIFICATION FairSpec
CONSTANTS
  N = 3
  ClksPerSecond = 1
  ClksPerBlink = 1
  YMax = 5
  HitTop = 2
  HitBottom = 4
  Keys <- MCKeys
INVARIANTS
  TypeOK
  NoInvisibleObstacle
  InReleaseOrder
  NoOvershoot
  HitRestartsLevel
  EndLevelIsFresh
PROPERTIES
  PlaysByTheRules
  WinEnds
  SurvivorWins
