-------------------------- MODULE MCCenterTransfer --------------------------
(***************************************************************************)
(* CenterTransfer on small instances.                                      *)
(***************************************************************************)
EXTENDS CenterTransfer
=============================================================================
