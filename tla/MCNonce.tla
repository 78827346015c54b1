------------------------------- MODULE MCNonce -------------------------------
(***************************************************************************)
(* Model-checking instance of NonceLane.                                   *)
(***************************************************************************)
EXTENDS NonceLane
=============================================================================
