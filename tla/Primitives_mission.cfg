CONSTANTS
  Goals <- AllGoals
  MaxGoals = 3
SPECIFICATION FrequentSafety
INVARIANTS TypeOK NoneForgotten PrivateAsWanted GoalBehindPointer
PROPERTIES EndsBySuccess
CHECK_DEADLOCK FALSE
