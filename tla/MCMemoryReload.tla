--------------------------- MODULE MCMemoryReload ---------------------------
(* Small instances of MemoryReload: two calls, two requests. *)
EXTENDS MemoryReload, TLC

CONSTANTS c1, c2, q1, q2

TwoCalls == {c1, c2}
TwoRequests == {q1, q2}
Versions == <<2, 4>>  \* of the two conversations created one after the other
Symmetry == Permutations(TwoCalls) \cup Permutations(TwoRequests)
=============================================================================
