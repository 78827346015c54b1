---------------------------- MODULE OneShotPermit ----------------------------
(***************************************************************************)
(* What the approval machinery promises, without mutexes, requests, sweeps *)
(* or clocks: an approval is a permit for one use.  It is claimed by one   *)
(* at a time and only while it is pending; whoever used it lets go of it   *)
(* settled; and what is settled is never reopened.  There are two ways     *)
(* out.  The record of a use may get lost (a refused write, a crash), and  *)
(* the permit may be copied while it is pending (its mutex is dropped),    *)
(* which lets one more claim it beside the first.  Each loss and each copy *)
(* costs at most one more use.                                             *)
(***************************************************************************)
EXTENDS Naturals

CONSTANT Permits

VARIABLES
  row,      \* "none", "pending" or "settled"
  claims,   \* how many are working with the permit
  used,     \* how often it was used
  lost,     \* how often the record of it got lost
  copies    \* how often it was copied

vars == <<row, claims, used, lost, copies>>

Init ==
  /\ row = [a \in Permits |-> "none"]
  /\ claims = [a \in Permits |-> 0]
  /\ used = [a \in Permits |-> 0]
  /\ lost = [a \in Permits |-> 0]
  /\ copies = [a \in Permits |-> 0]

Issue(a) ==
  /\ row[a] = "none"
  /\ row' = [row EXCEPT ![a] = "pending"]
  /\ UNCHANGED <<claims, used, lost, copies>>

Copy(a) ==
  /\ row[a] = "pending"
  /\ copies' = [copies EXCEPT ![a] = @ + 1]
  /\ UNCHANGED <<row, claims, used, lost>>

Claim(a) ==
  /\ row[a] = "pending" /\ claims[a] <= copies[a]
  /\ claims' = [claims EXCEPT ![a] = @ + 1]
  /\ UNCHANGED <<row, used, lost, copies>>

Use(a) ==
  /\ claims[a] > 0 /\ used[a] <= lost[a] + copies[a]
  /\ used' = [used EXCEPT ![a] = @ + 1]
  /\ UNCHANGED <<row, claims, lost, copies>>

\* Deadlines pass and wallets are deleted, for several permits at once.
Settle(S) ==
  /\ \A a \in S : row[a] = "pending"
  /\ row' = [a \in Permits |-> IF a \in S THEN "settled" ELSE row[a]]
  /\ UNCHANGED <<claims, used, lost, copies>>

\* A permit is not left pending with a use that nobody is about to record.
Finish(a) ==
  /\ claims[a] > 0
  /\ claims' = [claims EXCEPT ![a] = @ - 1]
  /\ \/ row' = [row EXCEPT ![a] = "settled"]
     \/ row' = row /\ (row[a] = "pending" => used[a] <= lost[a] + claims'[a])
  /\ UNCHANGED <<used, lost, copies>>

Forget(a) ==
  /\ claims[a] > 0
  /\ claims' = [claims EXCEPT ![a] = @ - 1]
  /\ lost' = [lost EXCEPT ![a] = @ + 1]
  /\ UNCHANGED <<row, used, copies>>

\* Everybody lets go at once, and what was not recorded is lost.
Restart ==
  /\ claims' = [a \in Permits |-> 0]
  /\ \A a \in Permits :
       /\ lost[a] <= lost'[a] /\ lost'[a] <= lost[a] + claims[a]
       /\ row[a] = "pending" => used[a] <= lost'[a]
  /\ UNCHANGED <<row, used, copies>>

Next ==
  \/ \E a \in Permits :
       Issue(a) \/ Copy(a) \/ Claim(a) \/ Use(a) \/ Finish(a) \/ Forget(a)
  \/ \E S \in SUBSET Permits : Settle(S)
  \/ Restart

Spec == Init /\ [][Next]_vars
=============================================================================
