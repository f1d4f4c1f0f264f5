\* Two flow ids under one alias; writes fail, the process crashes, files are damaged,
\* the configuration is reloaded.
SPECIFICATION ReloadSpec
CONSTANTS
  f1 = f1 f2 = f2 a1 = a1 good1 = good1 good2 = good2 c1 = c1 c2 = c2
  None = None
  Aliases <- OneAlias
  Flows <- TwoFlows
  Bodies <- GoodOnes
  GoodBodies <- GoodOnes
  Clients <- TwoClients
  MaxFlows = 2
  MaxRevision = 2
  MaxVersion = 1
  DiskMayFail = TRUE
  ProcessMayCrash = TRUE
  FilesMayBeDamaged = TRUE
  Reloads = TRUE
SYMMETRY Symmetric
INVARIANTS
  AnsweredSurvives
  AliasHasOneOwner
PROPERTIES
  FrozenAsValidated
  ImplementsFlowContract
\* Every bounded history ends.
CHECK_DEADLOCK FALSE
