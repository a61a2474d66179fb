SPECIFICATION Spec
CONSTANTS
  Obstacles <- SomeObstacles
  Keys <- AllKeys
INVARIANTS
  TypeOK
  NearlyOpposite
PROPERTIES
  HitIsPainted
  LeavesCircleOnce
