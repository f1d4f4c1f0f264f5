\* A call and a stream at once over two deployments; breakers that open on one
\* failure, an administrator who drains one deployment.
SPECIFICATION Spec
CONSTANTS
  q1 = q1 q2 = q2 d1 = d1 d2 = d2
  Requests <- TwoRequests
  Streams <- OneStream
  Deadlined <- OneStep
  Deployments <- TwoNodes
  MaxConcurrent = 2
  MaxQueue = 1
  Threshold = 1
  Drainable <- OneNode
INVARIANTS
  AdmissionAccounting
  InflightAccounting
  NoFailoverAfterTimeout
PROPERTY
  BreakerOpensAfresh
\* Requests are answered and no more may come.
CHECK_DEADLOCK FALSE
