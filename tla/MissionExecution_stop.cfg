CONSTANTS
  Missions <- AnyFile
  NoMission = NoMission
  Commands = {"STOP", "START_DISPATCHER", "PAUSE", "MANUAL_ENABLE", "MANUAL_DISABLE"}
  MaxCommands = 2
  Ending = {"go2point", "docking"}
SPECIFICATION FairSpec
INVARIANTS QuietOutsidePrimitive
PROPERTIES StopHeeded
CHECK_DEADLOCK FALSE
