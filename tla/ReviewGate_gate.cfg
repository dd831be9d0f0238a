SPECIFICATION GateSpec
CONSTANTS
  VersionId <- UpTo4
  Main = main
  BranchId = {main, feature}
  BranchName = {"main", "feature"}
  MainName = "main"
  Field = {"step"}
  Position = "position"
  Value = {va, vb}
  Session = {}
  None = None
  ReviewId = {r1}
  Reviewer = {alice}
  Tester = {x1, x2}
  Protectable = {main}
  MaxDecisions = 2
  MaxTests = 2
SYMMETRY GateSymmetry
INVARIANTS LastTestIsNewest
PROPERTIES ProtectedTakesApproved MergedReviewLanded FailedTestBlocks GateImplementsVersions
CONSTRAINT SmallWhileTested
