SPECIFICATION Spec
CONSTANTS
  Obstacles <- OneObstacle
  Keys <- RightKey
INVARIANT
  RestApart
