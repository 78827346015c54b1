------------------------------ MODULE MCAccounts ------------------------------
(***************************************************************************)
(* Model-checking instance of Accounts.                                    *)
(***************************************************************************)
EXTENDS Accounts, TLC

\* Requests, and sessions, are interchangeable.
MCSymmetry == Permutations(Requests) \cup Permutations(Sessions)
=============================================================================
