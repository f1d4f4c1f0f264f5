---------------------------- MODULE MCConfigSync ----------------------------
(***************************************************************************)
(* Instances of ConfigSync for TLC.                                        *)
(***************************************************************************)
EXTENDS ConfigSync

CONSTANTS k1, a1

OneKey      == {k1}
OneAdmin    == {a1}
BothModes   == {"connected", "airgapped"}
=============================================================================
