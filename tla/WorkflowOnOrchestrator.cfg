\* A run of one step with two attempts and a call of another client want the one
\* place of the semaphore and the one place of the queue; a CancelRun may come at
\* any moment; fair.
SPECIFICATION FairSystemSpec
CONSTANTS
  r1 = r1 x1 = x1 p1 = p1 q1 = q1 d1 = d1
  NoKey = NoKey
  None = None
  Requests <- OneRun
  Cancels <- OneCancel
  Keys <- Nobody
  Payloads <- OnePayload
  NSteps = 1
  NTargets = 1
  MaxAttempts = 2
  MaxConcurrentRuns = 1
  MaxTotalTokens = 0
  Usage = {0}
  DiskMayFail = FALSE
  KeysExpire = FALSE
  Direct <- OneCall
  Streams <- Nobody
  Deployments <- OneNode
  MaxConcurrent = 1
  MaxQueue = 1
  Threshold = 1
  Drainable <- Nobody
INVARIANT
  NothingAfterAnswerOrTimeout
PROPERTIES
  CancelStopsInference
  ContractLiveness
\* The run and the call have ended and nobody cancels any more.
CHECK_DEADLOCK FALSE
