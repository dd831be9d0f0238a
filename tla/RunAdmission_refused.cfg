SPECIFICATION Spec
CONSTANTS
  Run = {r1, r2}
  Caller = {c1, c2}
  Cap = 1
  MaxFaults = 1
  None = None
INVARIANTS HeldWorkflowRuns
