\* Every definition with up to two steps, one reference per template and two
\* inputs, run with every set of inputs.
SPECIFICATION DefinitionSpec
CONSTANTS
  s1 = s1 s2 = s2 s3 = s3 i1 = i1 i2 = i2
  StepIds <- ThreeSteps
  Inputs <- TwoInputs
  RunId = RunId
  Definitions <- SmallDefinitions
INVARIANT
  AcceptedFlowsRender
\* A definition is rejected, a run refused, ended or failed.
CHECK_DEADLOCK FALSE
