\* A request that is sent twice under one key, two platforms, a crash and a lost answer.
SPECIFICATION FairSpec
CONSTANTS
  p1 = p1 p2 = p2
  None = None
  Calls <- TwoCalls
  Keyed <- TwoCalls
  SameId = FALSE
  Slots = 1
  MaxServices = 2
  MaxCrashes = 1
  MaxLost = 1
INVARIANTS
  UsageConserved
  OpenRunIsExecuted
PROPERTIES
  RunsAreBilled
\* Calls are made once and the platform is built a bounded number of times.
CHECK_DEADLOCK FALSE
