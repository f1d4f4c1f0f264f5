\* One call at a time over two deployments.
SPECIFICATION Spec
CONSTANTS
  q1 = q1 q2 = q2 d1 = d1 d2 = d2
  Requests <- TwoRequests
  Streams <- OneStream
  Deadlined <- OneStep
  Deployments <- TwoNodes
  MaxConcurrent = 1
  MaxQueue = 1
  Threshold = 2
  Drainable <- NoNode
INVARIANT
  FailoverOnlyIfUnanswered
\* Requests are answered and no more may come.
CHECK_DEADLOCK FALSE
