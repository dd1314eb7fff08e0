CONSTANTS
  Missions <- TransectOnly
  NoMission = NoMission
  Commands = {"PAUSE", "CONTINUE"}
  MaxCommands = 3
  Ending = {"go2point"}
SPECIFICATION ConsiderateSafety
INVARIANTS NeverBackwards PrimitiveFitsState
CHECK_DEADLOCK FALSE
