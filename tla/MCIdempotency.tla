---------------------------- MODULE MCIdempotency ----------------------------
(* Four requests with one key and one without, for TLC.                    *)
EXTENDS Idempotency, TLC

CONSTANTS r1, r2, r3, r4, k1

MCKeyOf == [r \in Requests |-> IF r = r4 THEN None ELSE k1]

RetrySymmetry == Permutations(Requests \ {r4})
=============================================================================
