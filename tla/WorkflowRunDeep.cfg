\* One run in depth: two steps, a fallback pool, two attempts per target, a
\* token budget, and two CancelRun calls that may come at any moment; fair.
SPECIFICATION FairSpec
CONSTANTS
  r1 = r1 r2 = r2 r3 = r3 x1 = x1 x2 = x2 k1 = k1 p1 = p1 p2 = p2
  NoKey = NoKey
  None = None
  Requests <- OneRun
  Cancels <- TwoCancels
  Keys <- NoKeys
  Payloads <- OnePayload
  NSteps = 2
  NTargets = 2
  MaxAttempts = 2
  MaxConcurrentRuns = 1
  MaxTotalTokens = 1
  Usage = {0, 1}
  DiskMayFail = TRUE
  KeysExpire = FALSE
INVARIANTS
  SettledRunIsClosed
  NoSecondInference
  VerdictIsJustified
  HeardCancelStays
PROPERTIES
  TerminalIsFinal
  ContractLiveness
\* The system stops when its one run has ended and nobody cancels any more.
CHECK_DEADLOCK FALSE
