SPECIFICATION FairSpec
CONSTANTS
  Lane <- Lanes
  Root = "root"
  Key <- Keys
  Code <- TwoBranches
  None = None
  MaxCrashes = 2
INVARIANTS NeverDiverges NobodyForgotten
PROPERTIES SettledIsHanded ImplementsLog RunEnds
CHECK_DEADLOCK FALSE
