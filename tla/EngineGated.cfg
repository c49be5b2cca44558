SPECIFICATION FairSpec
CONSTANTS
  r1 = r1
  r2 = r2
  wf1 = wf1
  w1 = w1
  w2 = w2
  Runs = {r1}
  Workflows = {wf1}
  Loops = {w1, w2}
  WorkflowOf <- OneRun
  Plan <- GatedPlan
  SingleInstance = {wf1}
  MaxRetries <- Retries
  Routes = {"paper", "live"}
  MaxCrashes = 1
  None = None
INVARIANTS
  TypeOK
  GateHolds
  OneDriver
  ResendsAreRetries
PROPERTIES
  ImplementsApprovalDesk
  RunsSettle
  ApprovalIsActedOn
CHECK_DEADLOCK FALSE
