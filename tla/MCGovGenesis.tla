---------------------------- MODULE MCGovGenesis ----------------------------
(***************************************************************************)
(* Instances of GovGenesis for TLC.                                         *)
(***************************************************************************)
EXTENDS GovGenesis, MCGov
=============================================================================
