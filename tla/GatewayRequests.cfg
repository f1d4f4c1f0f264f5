\* Two requests with one key, two local runtimes and the cloud, while the
\* configuration is replaced.
SPECIFICATION Spec
CONSTANTS
  p1 = p1 p2 = p2 l1 = l1 l2 = l2 public = public confidential = confidential
  Requests <- TwoRequests
  Locals <- TwoLocals
  Cloud = Cloud
  Undeclared = Undeclared
  Classes <- BothClasses
  Exportable <- OnlyPublic
  Candidates <- AllCandidates
  MaxApplies = 1
SYMMETRY Symmetric
INVARIANTS
  NothingConfidentialLeaves
  RecordMatchesOutcome
PROPERTIES
  NoRetryAfterTimeout
\* Both requests are answered and no configuration is left to apply.
CHECK_DEADLOCK FALSE
