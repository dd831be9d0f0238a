SPECIFICATION Spec
CONSTANTS
  VersionId <- UpTo5
  Main = main
  BranchId = {main, feature, fix}
  BranchName = {"main", "feature"}
  MainName = "main"
  Field = {"position"}
  Position = "position"
  Value = {va, vb, vc}
  Session = {s1}
  None = None
SYMMETRY FullSymmetry
INVARIANTS NothingLost LatestFloats RollbackStaysOnLine MergesBringNews
PROPERTIES ImplementsLines HeadOnlyAdvances UpToDateMergeTakesSource
CONSTRAINT SmallUnlessPlain
