-------------------------- MODULE ApprovalRefinement --------------------------
(***************************************************************************)
(* ApprovalLifecycle implements OneShotPermit.  A permit is claimed by the *)
(* requests past their re-check under approvalMu, settled when the row's   *)
(* status is anything but pending, and copied when the sweep drops the     *)
(* mutex of a pending approval because its count failed.                   *)
(***************************************************************************)
EXTENDS ApprovalLifecycle

RowOf(s) == IF s \in {"none", "pending"} THEN s ELSE "settled"

rowBar    == [a \in Approvals |-> RowOf(status[a])]
claimsBar == [a \in Approvals |-> Cardinality(On(a, Critical))]
copiesBar == [a \in Approvals |-> Cardinality(dropped[a])]

Permit == INSTANCE OneShotPermit
            WITH Permits <- Approvals, row <- rowBar, claims <- claimsBar,
                 used <- effects, lost <- lost, copies <- copiesBar

\* Approve, Reject, GetApproval, expireLoop with its sweep of approvalMu,
\* wallet deletion and crashes together behave like a permit for one use, which
\* a failed count of the sweep copies.
ImplementsPermit == Permit!Spec
=============================================================================
