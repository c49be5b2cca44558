SPECIFICATION Spec
CONSTANTS
  r1 = r1
  r2 = r2
  wf1 = wf1
  w1 = w1
  w2 = w2
  Runs = {r1, r2}
  Workflows = {wf1}
  Loops = {w1, w2}
  WorkflowOf <- TwoRuns
  Plan <- UngatedPlan
  SingleInstance = {wf1}
  MaxRetries <- Retries
  Routes = {"paper", "live", "registered"}
  MaxCrashes = 1
  None = None
SYMMETRY RunSymmetry
INVARIANTS
  RunIsolation
  NoLockLeak
CHECK_DEADLOCK FALSE
