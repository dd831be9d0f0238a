SPECIFICATION FairSpec
CONSTANTS
  Level <- Levels
  Root = "root"
  NodesOf <- PlanNodes
  Node <- Nodes
  Kind <- Kinds
  Guards <- Wires
  Tolerant = {"try"}
  Nested <- NestedIn
  Port = {0, 1}
  Concurrency = 2
  MaxSteps = 6
  MaxRounds = 3
  MaxItems = 2
  None = None
INVARIANTS RoutedNodesRun WalkGoesOn NeverBothLanes FatalEndsRun NothingOutlivesRun
PROPERTIES RunEnds
CHECK_DEADLOCK FALSE
