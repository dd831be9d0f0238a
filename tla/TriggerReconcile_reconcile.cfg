SPECIFICATION FairSpec
CONSTANTS
  Key = {"n1", "n2"}
  Setup = {"tag", "tag2", "hook", "issue", "feed"}
  Polling = {"feed"}
  AppOf <- Apps
  Upserts = {"typeform"}
  Refuses = {"github"}
  Silent = {"linear"}
  Version = {"v_tag", "v_tag2", "v_hook", "v_issue", "v_feed", "v_renamed"}
  TriggerOf <- Triggers
  None = None
  MaxMoves = 3
  MaxFailures = 1
  MaxCrashes = 1
  MaxEvents = 2
INVARIANTS WebhooksAreKnown
PROPERTIES DeletesSpareLive EventRunsOnce NoEventSkipped PendingDeletesEnd ConvergesAfterOneFailure
CHECK_DEADLOCK FALSE
