---------------------------- MODULE MCRegistration ----------------------------
(***************************************************************************)
(* Model-checking instance of Registration.                                *)
(***************************************************************************)
EXTENDS Registration, TLC

\* Workers, and passkeys, are interchangeable.
MCSymmetry == Permutations(Workers) \cup Permutations(Passkeys)
=============================================================================
