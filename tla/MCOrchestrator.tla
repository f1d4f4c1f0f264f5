--------------------------- MODULE MCOrchestrator ---------------------------
(***************************************************************************)
(* Instances of Orchestrator for TLC.                                      *)
(***************************************************************************)
EXTENDS Orchestrator

CONSTANTS q1, q2, d1, d2

TwoRequests == {q1, q2}
OneStream   == {q1}
OneStep     == {q2}    \* a workflow step: its context has a deadline
OneNode     == {d1}
NoNode      == {}
TwoNodes    == {d1, d2}
=============================================================================
