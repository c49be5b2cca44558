SPECIFICATION Spec
CONSTANTS
  wf1 = wf1
  Workflows = {wf1}
  Plans <- MixedPlans
  Expiries <- MCExpiries
  ListingEnd = 2
  MaxTime = 2
  MaxVersion = 2
  MaxCrashes = 1
  None = None
INVARIANTS
  TypeOK
  ArmedTogether
  FiresOnce
  LatchMeansRun
CHECK_DEADLOCK FALSE
