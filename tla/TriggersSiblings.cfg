SPECIFICATION Spec
CONSTANTS
  wf1 = wf1
  Workflows = {wf1}
  Plans <- SiblingPlans
  Expiries <- MCExpiries
  ListingEnd = 3
  MaxTime = 3
  MaxVersion = 1
  MaxCrashes = 0
  None = None
PROPERTIES
  SiblingsStillFire
CHECK_DEADLOCK FALSE
