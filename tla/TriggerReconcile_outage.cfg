SPECIFICATION FairSpec
CONSTANTS
  Key = {"n1"}
  Setup = {"hook", "hook2"}
  Polling = {}
  AppOf <- Apps
  Upserts = {"typeform"}
  Refuses = {"github"}
  Silent = {"linear"}
  Version = {"v_hook", "v_hook2"}
  TriggerOf <- Triggers
  None = None
  MaxMoves = 3
  MaxFailures = 1
  MaxCrashes = 0
  MaxEvents = 0
PROPERTIES Reconverges
CHECK_DEADLOCK FALSE
