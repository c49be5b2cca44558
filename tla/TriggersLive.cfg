SPECIFICATION FairSpec
CONSTANTS
  wf1 = wf1
  Workflows = {wf1}
  Plans <- SchedulePlans
  Expiries <- Forever
  ListingEnd = 3
  MaxTime = 3
  MaxVersion = 1
  MaxCrashes = 1
  None = None
PROPERTIES
  DueIsServed
  OneTimeAgentEnds
CHECK_DEADLOCK FALSE
