SPECIFICATION ReloadSpec
CONSTANTS
  c1 = c1
  c2 = c2
  q1 = q1
  q2 = q2
  Calls <- TwoCalls
  Requests <- TwoRequests
  SeenLimit = 1
  MaxVersion <- Versions
  HotReload = TRUE
SYMMETRY Symmetry
INVARIANTS StoredOnce AckedIsKept SummarisedIsGone
PROPERTIES TurnsBuiltOnHistory
\* A torn file is the end.
CHECK_DEADLOCK FALSE
