SPECIFICATION Spec
CONSTANTS
  a = a
  b = b
  va = va
  vb = vb
  x = x
  y = y
  None = None
  NodeId = {a, b}
  Name = {x, y}
  Lane = {"main", "error"}
  Param = {"p", "p.k"}
  Sub = {"k"}
  SplitAt <- Splits
  Settings = Settings
  Scalar = {va, vb}
  Docs <- SmallDocs
  Authored <- ByHand
INVARIANTS MergeIsThreeWay ResolvedAsChosen
CHECK_DEADLOCK FALSE
