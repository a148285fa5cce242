------------------------------ MODULE MCEffects ------------------------------
(***************************************************************************)
(* A finite instance of Effects for TLC.                                   *)
(***************************************************************************)
EXTENDS Effects, TLC

CONSTANTS panel

=============================================================================
