\* A client that loses its connection, resumes and comes back after the end, while the run and two
\* CancelRun calls emit seven events; its channel has room for two.
SPECIFICATION FairSpec
CONSTANTS
  c1 = c1 x1 = x1 x2 = x2
  Runner = Runner
  Clients <- OneClient
  Cancels <- TwoCancels
  NPlain = 4
  Buffer = 2
  MayDisconnect = TRUE
  MayReturn = TRUE
INVARIANTS
  TypeOK
  RunEventsOnceInOrder
PROPERTIES
  StreamEnds
\* The run ends and clients need not come.
CHECK_DEADLOCK FALSE
