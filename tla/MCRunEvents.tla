----------------------------- MODULE MCRunEvents -----------------------------
(***************************************************************************)
(* An instance of RunEvents for TLC.                                       *)
(***************************************************************************)
EXTENDS RunEvents

CONSTANTS c1, x1, x2

OneClient  == {c1}
TwoCancels == {x1, x2}
=============================================================================
