----------------------------- MODULE MCFlowReload ----------------------------
(***************************************************************************)
(* Instances of FlowReload for TLC.                                        *)
(***************************************************************************)
EXTENDS FlowReload, TLC

CONSTANTS f1, f2, a1, good1, good2, c1, c2

TwoFlows   == {f1, f2}
OneAlias   == {a1}
GoodOnes   == {good1, good2}
TwoClients == {c1, c2}

\* Ids, calls and valid bodies are interchangeable.
Symmetric == Permutations(Flows) \cup Permutations(Clients) \cup Permutations(GoodBodies)
=============================================================================
