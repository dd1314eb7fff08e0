CONSTANTS
  Goals <- AllGoals
  MaxGoals = 2
SPECIFICATION FrequentSpec
PROPERTIES OffInTheEnd GoalTaken
CHECK_DEADLOCK FALSE
