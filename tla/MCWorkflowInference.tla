------------------------ MODULE MCWorkflowInference ------------------------
(***************************************************************************)
(* Instances of WorkflowInference for TLC.                                 *)
(***************************************************************************)
EXTENDS WorkflowInference

CONSTANTS r1, x1, p1, q1, d1

OneRun     == {r1}
OneCancel  == {x1}
OnePayload == {p1}
OneCall    == {q1}
OneNode    == {d1}
Nobody     == {}
=============================================================================
