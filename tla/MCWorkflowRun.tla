--------------------------- MODULE MCWorkflowRun ---------------------------
(***************************************************************************)
(* Instances of WorkflowRun for TLC.                                       *)
(***************************************************************************)
EXTENDS WorkflowRun, TLC

CONSTANTS r1, r2, r3, x1, x2, k1, p1, p2

OneRun    == {r1}
TwoRuns   == {r1, r2}
OneCancel == {x1}
TwoCancels == {x1, x2}
OneKey    == {k1}
NoKeys    == {}
OnePayload  == {p1}
TwoPayloads == {p1, p2}

\* Calls are interchangeable, and so are payloads (safety runs only).
Symmetric == Permutations(Requests) \cup Permutations(Payloads)
=============================================================================
