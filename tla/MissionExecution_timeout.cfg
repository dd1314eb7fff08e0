CONSTANTS
  Missions <- PlainOnly
  NoMission = NoMission
  Commands = {}
  MaxCommands = 1
  Ending = {"go2point"}
SPECIFICATION ConsiderateSafety
INVARIANTS PrimitiveHasItsTimeout
CHECK_DEADLOCK FALSE
