--------------------------- MODULE MCGatewayRuns ---------------------------
(***************************************************************************)
(* Instances of GatewayRuns for TLC.                                       *)
(***************************************************************************)
EXTENDS GatewayRuns

CONSTANTS p1, p2

TwoCalls == {p1, p2}
=============================================================================
