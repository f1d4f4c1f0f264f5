\* Two StartRun calls race for one slot and one idempotency key with two
\* payloads; persisting may fail, the key may expire and a run may be cancelled.
SPECIFICATION Spec
CONSTANTS
  r1 = r1 r2 = r2 r3 = r3 x1 = x1 x2 = x2 k1 = k1 p1 = p1 p2 = p2
  NoKey = NoKey
  None = None
  Requests <- TwoRuns
  Cancels <- OneCancel
  Keys <- OneKey
  Payloads <- TwoPayloads
  NSteps = 1
  NTargets = 1
  MaxAttempts = 1
  MaxConcurrentRuns = 1
  MaxTotalTokens = 0
  Usage = {0}
  DiskMayFail = TRUE
  KeysExpire = TRUE
SYMMETRY Symmetric
INVARIANTS
  SlotAccounting
  AnswerMatchesRequest
PROPERTIES
  ImplementsContract
\* The system stops when every call is answered and every run has ended.
CHECK_DEADLOCK FALSE
