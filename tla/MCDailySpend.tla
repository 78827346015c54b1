---------------------------- MODULE MCDailySpend ----------------------------
(***************************************************************************)
(* Model-checking instances of DailySpend: amounts, settings.              *)
(***************************************************************************)
EXTENDS DailySpend

CONSTANTS t1, a1, c1

\* The limit 2 admits t1, or two of the others.  t1 is above the threshold of
\* the second setting; the third is switched off.
MCAmount == [r \in Requests |-> IF r = t1 THEN 2 ELSE 1]
MCSettings ==
  {[enabled |-> TRUE,  limit |-> 2, threshold |-> 2],
   [enabled |-> TRUE,  limit |-> 2, threshold |-> 1],
   [enabled |-> FALSE, limit |-> 2, threshold |-> 2]}
=============================================================================
