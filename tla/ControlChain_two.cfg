CONSTANTS
  Controllers = {"hdg", "alt"}
  Axes = {"yaw", "heave"}
  Requesters = {"hdg_controller", "alt_controller", "altitude_controller"}
  Ts = 2
  Timeout = 4
  RefDelay = 5
  DoSafetyTest = TRUE
  ExternalIdent = TRUE
  MaxOps = 2
SPECIFICATION Spec
INVARIANTS TypeOK FreshCommand SilenceStops OthersDoNotInterfere
PROPERTIES OnlySilentRemoved VelocityControlAlone
