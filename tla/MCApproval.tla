----------------------------- MODULE MCApproval -----------------------------
(***************************************************************************)
(* Model-checking instances of ApprovalRefinement.                         *)
(***************************************************************************)
EXTENDS ApprovalRefinement, TLC

\* Handlers are interchangeable; sound for the safety runs only.
HandlerSymmetry == Permutations(Handlers)
=============================================================================
