CONSTANTS
  Missions <- PlainOnly
  NoMission = NoMission
  Commands = {"PAUSE", "CONTINUE", "STOP"}
  MaxCommands = 3
  Ending = {"go2point"}
SPECIFICATION ConsiderateSpec
INVARIANTS TypeOK LostOnlyByStop
PROPERTIES MissionEnds
CHECK_DEADLOCK FALSE
