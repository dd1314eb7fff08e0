SPECIFICATION HalfSpec
CONSTANTS
  Topics <- AllTopics
  AbsoluteEKF = FALSE
  DiagTimeout = 1
  DvlTimeout = 1
  AltTimeout = 1
  SampleCounts = {1, 3}
  Cap = 2
  MaxOps = 3
INVARIANTS TypeOK NoStalePosition FramesNotMixed StatusIsTrue UnsafeTold
PROPERTIES AltitudeTrusted AltitudeRegained
