\* Four generations, the second of which does not verify; one crash or failure anywhere.
SPECIFICATION FairSpec
CONSTANTS
  k1 = k1 a1 = a1
  Modes <- BothModes
  MaxVersion = 4
  Bad = {2}
  Admins <- OneAdmin
  Keys <- OneKey
  LkgKeep = 1
  MaxFaults = 1
INVARIANTS
  CurrentIsKept
  FileIsServed
  PlatformFollowsConfig
PROPERTIES
  NoSilentDowngrade
  RestartKnowsItsGeneration
  Converges
