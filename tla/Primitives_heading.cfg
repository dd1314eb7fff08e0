CONSTANTS
  Goals <- PointsAndHold
  MaxGoals = 2
SPECIFICATION Safety
INVARIANTS HasItsControllers
CHECK_DEADLOCK FALSE
