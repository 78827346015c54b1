------------------------ MODULE Idempotency_proofs ------------------------
(***************************************************************************)
(* IndInv of Idempotency is inductive for any requests, keys, TTL, and     *)
(* bounds.  What carries it is StoredInv: the hourly cleanup removes a     *)
(* record only after it expired and the unique index refuses a second one  *)
(* until then, so a stored answer is in the table as long as it is live.   *)
(***************************************************************************)
EXTENDS Idempotency, TLAPS

USE DEF ExpiresAt, Goto, Hit, Processed, Underway, DBFault, Expired

\* A live record is the answer; the look-back sees at most the answer it returns,
\* since a stored answer stays in the table while it is live.
LEMMA CheckPreserves ==
  ASSUME IndInv, NEW r \in Requests, Check(r)
  PROVE  IndInv'
<1>1. TypeOK'
  <2>1. faults' \in 0 .. MaxFaults /\ blind' \subseteq Requests
    BY IdempotencyAssumption DEF IndInv, TypeOK, Check
  <2>2. pc' \in [Requests -> {"idle", "work", "respond", "queued", "done"}]
    BY DEF IndInv, TypeOK, Check
  <2>3. reply' \in [Requests -> Requests \cup {None}]
    BY IdempotencyAssumption DEF IndInv, TypeOK, Check
  <2>4. prior' \in [Requests -> SUBSET Requests] /\ alone' \subseteq Requests
    BY DEF IndInv, TypeOK, Check
  <2> QED
    BY <2>1, <2>2, <2>3, <2>4 DEF IndInv, TypeOK, Check
<1>2. StoredInv'
  BY IdempotencyAssumption DEF IndInv, TypeOK, StoredInv, StageInv, Check
<1>3. StageInv'
  BY IdempotencyAssumption DEF IndInv, TypeOK, StoredInv, StageInv, Check
<1>4. RetryReplays'
  BY IdempotencyAssumption DEF IndInv, TypeOK, StoredInv, StageInv, RetryReplays, Check
<1>5. StoredApart'
  BY IdempotencyAssumption DEF IndInv, TypeOK, StoredInv, StageInv, StoredApart, Check
<1>6. ReplaysReal'
  <2>1. CASE Hit(r)
    <3>1. KeyOf[r] \in Keys /\ rec[KeyOf[r]] \in stored /\ KeyOf[rec[KeyOf[r]]] = KeyOf[r]
      BY <2>1, IdempotencyAssumption DEF IndInv, StoredInv
    <3>2. rec[KeyOf[r]] \in executed
      BY <3>1, IdempotencyAssumption DEF IndInv, TypeOK, StoredInv, ReplaysReal
    <3> QED
      BY <2>1, <3>1, <3>2 DEF IndInv, TypeOK, ReplaysReal, Check
  <2>2. CASE ~Hit(r)
    BY <2>2 DEF IndInv, ReplaysReal, Check
  <2> QED
    BY <2>1, <2>2
<1> QED
  BY <1>1, <1>2, <1>3, <1>4, <1>5, <1>6 DEF IndInv

\* A request that executes found no live record.
LEMMA ExecutePreserves ==
  ASSUME IndInv, NEW r \in Requests, Execute(r)
  PROVE  IndInv'
<1>1. TypeOK'
  BY IdempotencyAssumption DEF IndInv, TypeOK, Execute
<1>2. StoredInv'
  BY IdempotencyAssumption DEF IndInv, TypeOK, StoredInv, StageInv, Execute
<1>3. StageInv'
  BY IdempotencyAssumption DEF IndInv, TypeOK, StoredInv, StageInv, Execute
<1>4. RetryReplays'
  BY IdempotencyAssumption DEF IndInv, TypeOK, StoredInv, StageInv, RetryReplays, Execute
<1>5. StoredApart'
  BY IdempotencyAssumption DEF IndInv, TypeOK, StoredInv, StageInv, StoredApart, Execute
<1>6. ReplaysReal'
  BY IdempotencyAssumption DEF IndInv, TypeOK, StoredInv, StageInv, ReplaysReal, Execute
<1> QED
  BY <1>1, <1>2, <1>3, <1>4, <1>5, <1>6 DEF IndInv

\* A queued request answers nothing.
LEMMA QueuePreserves ==
  ASSUME IndInv, NEW r \in Requests, Queue(r)
  PROVE  IndInv'
<1>1. TypeOK'
  BY IdempotencyAssumption DEF IndInv, TypeOK, Queue
<1>2. StoredInv'
  BY IdempotencyAssumption DEF IndInv, TypeOK, StoredInv, StageInv, Queue
<1>3. StageInv'
  BY IdempotencyAssumption DEF IndInv, TypeOK, StoredInv, StageInv, Queue
<1>4. RetryReplays'
  BY IdempotencyAssumption DEF IndInv, TypeOK, StoredInv, StageInv, RetryReplays, Queue
<1>5. StoredApart'
  BY IdempotencyAssumption DEF IndInv, TypeOK, StoredInv, StageInv, StoredApart, Queue
<1>6. ReplaysReal'
  BY IdempotencyAssumption DEF IndInv, TypeOK, StoredInv, StageInv, ReplaysReal, Queue
<1> QED
  BY <1>1, <1>2, <1>3, <1>4, <1>5, <1>6 DEF IndInv

\* Nor does a failed one.
LEMMA FailPreserves ==
  ASSUME IndInv, NEW r \in Requests, Fail(r)
  PROVE  IndInv'
<1>1. TypeOK'
  BY IdempotencyAssumption DEF IndInv, TypeOK, Fail
<1>2. StoredInv'
  BY IdempotencyAssumption DEF IndInv, TypeOK, StoredInv, StageInv, Fail
<1>3. StageInv'
  BY IdempotencyAssumption DEF IndInv, TypeOK, StoredInv, StageInv, Fail
<1>4. RetryReplays'
  BY IdempotencyAssumption DEF IndInv, TypeOK, StoredInv, StageInv, RetryReplays, Fail
<1>5. StoredApart'
  BY IdempotencyAssumption DEF IndInv, TypeOK, StoredInv, StageInv, StoredApart, Fail
<1>6. ReplaysReal'
  BY IdempotencyAssumption DEF IndInv, TypeOK, StoredInv, StageInv, ReplaysReal, Fail
<1> QED
  BY <1>1, <1>2, <1>3, <1>4, <1>5, <1>6 DEF IndInv

\* The insert needs an empty slot, so every earlier answer of the key has expired.
LEMMA RespondPreserves ==
  ASSUME IndInv, NEW r \in Requests, Respond(r)
  PROVE  IndInv'
<1>1. TypeOK'
  BY IdempotencyAssumption DEF IndInv, TypeOK, Respond
<1>2. StoredInv'
  <2>1. r \notin stored
    BY IdempotencyAssumption DEF IndInv, TypeOK, StoredInv, StageInv, Respond
  <2>2. /\ at' = [at EXCEPT ![r] = now] /\ reply' = [reply EXCEPT ![r] = r] /\ now' = now
        /\ now \in Nat
    BY DEF IndInv, TypeOK, Respond
  <2>3. CASE rec' = rec /\ stored' = stored
    BY <2>1, <2>2, <2>3 DEF IndInv, TypeOK, StoredInv
  <2>4. CASE /\ KeyOf[r] \in Keys /\ rec[KeyOf[r]] = None
             /\ rec' = [rec EXCEPT ![KeyOf[r]] = r] /\ stored' = stored \cup {r}
    <3>1. \A k \in Keys : rec'[k] # None => rec'[k] \in stored' /\ KeyOf[rec'[k]] = k
      BY <2>4 DEF IndInv, TypeOK, StoredInv
    <3>2. ASSUME NEW s \in stored
          PROVE  /\ KeyOf[s] \in Keys /\ reply'[s] = s /\ at'[s] = at[s] /\ at[s] <= now
                 /\ rec'[KeyOf[s]] = s \/ at[s] + TTL < now
      BY <2>1, <2>2, <2>4, IdempotencyAssumption DEF IndInv, TypeOK, StoredInv
    <3>3. reply'[r] = r /\ at'[r] = now /\ rec'[KeyOf[r]] = r
      BY <2>2, <2>4 DEF IndInv, TypeOK
    <3> QED
      BY <3>1, <3>2, <3>3, <2>2, <2>4 DEF StoredInv
  <2> QED
    BY <2>3, <2>4, IdempotencyAssumption DEF Respond
<1>3. StageInv'
  BY IdempotencyAssumption DEF IndInv, TypeOK, StoredInv, StageInv, Respond
<1>4. RetryReplays'
  BY IdempotencyAssumption DEF IndInv, TypeOK, StoredInv, StageInv, RetryReplays, Respond
<1>5. StoredApart'
  BY IdempotencyAssumption DEF IndInv, TypeOK, StoredInv, StageInv, StoredApart, Respond
<1>6. ReplaysReal'
  BY IdempotencyAssumption DEF IndInv, TypeOK, StoredInv, StageInv, ReplaysReal, Respond
<1> QED
  BY <1>1, <1>2, <1>3, <1>4, <1>5, <1>6 DEF IndInv

\* Time passes; what has expired stays expired.
LEMMA TickPreserves ==
  ASSUME IndInv, Tick
  PROVE  IndInv'
<1>1. TypeOK'
  BY IdempotencyAssumption DEF IndInv, TypeOK, Tick
<1>2. StoredInv'
  BY IdempotencyAssumption DEF IndInv, TypeOK, StoredInv, StageInv, Tick
<1>3. StageInv'
  BY IdempotencyAssumption DEF IndInv, TypeOK, StoredInv, StageInv, Tick
<1>4. RetryReplays'
  BY IdempotencyAssumption DEF IndInv, TypeOK, StoredInv, StageInv, RetryReplays, Tick
<1>5. StoredApart'
  BY IdempotencyAssumption DEF IndInv, TypeOK, StoredInv, StageInv, StoredApart, Tick
<1>6. ReplaysReal'
  BY IdempotencyAssumption DEF IndInv, TypeOK, StoredInv, StageInv, ReplaysReal, Tick
<1> QED
  BY <1>1, <1>2, <1>3, <1>4, <1>5, <1>6 DEF IndInv

\* Only expired records go.
LEMMA CleanupPreserves ==
  ASSUME IndInv, Cleanup
  PROVE  IndInv'
<1>1. TypeOK'
  BY IdempotencyAssumption DEF IndInv, TypeOK, Cleanup
<1>2. StoredInv'
  BY IdempotencyAssumption DEF IndInv, TypeOK, StoredInv, StageInv, Cleanup
<1>3. StageInv'
  BY IdempotencyAssumption DEF IndInv, TypeOK, StoredInv, StageInv, Cleanup
<1>4. RetryReplays'
  BY IdempotencyAssumption DEF IndInv, TypeOK, StoredInv, StageInv, RetryReplays, Cleanup
<1>5. StoredApart'
  BY IdempotencyAssumption DEF IndInv, TypeOK, StoredInv, StageInv, StoredApart, Cleanup
<1>6. ReplaysReal'
  BY IdempotencyAssumption DEF IndInv, TypeOK, StoredInv, StageInv, ReplaysReal, Cleanup
<1> QED
  BY <1>1, <1>2, <1>3, <1>4, <1>5, <1>6 DEF IndInv

\* The table and the answers survive.
LEMMA CrashPreserves ==
  ASSUME IndInv, Crash
  PROVE  IndInv'
<1>1. TypeOK'
  BY IdempotencyAssumption DEF IndInv, TypeOK, Crash
<1>2. StoredInv'
  BY IdempotencyAssumption DEF IndInv, TypeOK, StoredInv, StageInv, Crash
<1>3. StageInv'
  BY IdempotencyAssumption DEF IndInv, TypeOK, StoredInv, StageInv, Crash
<1>4. RetryReplays'
  BY IdempotencyAssumption DEF IndInv, TypeOK, StoredInv, StageInv, RetryReplays, Crash
<1>5. StoredApart'
  BY IdempotencyAssumption DEF IndInv, TypeOK, StoredInv, StageInv, StoredApart, Crash
<1>6. ReplaysReal'
  BY IdempotencyAssumption DEF IndInv, TypeOK, StoredInv, StageInv, ReplaysReal, Crash
<1> QED
  BY <1>1, <1>2, <1>3, <1>4, <1>5, <1>6 DEF IndInv
-----------------------------------------------------------------------------
(* The theorems.                                                           *)

\* A step of the specification preserves the invariant.
LEMMA NextPreserves ==
  ASSUME IndInv, [Next]_vars
  PROVE  IndInv'
<1>1. CASE UNCHANGED vars
  BY <1>1 DEF IndInv, TypeOK, StoredInv, StageInv, RetryReplays, StoredApart,
       ReplaysReal, vars
<1> QED
  BY <1>1, CheckPreserves, ExecutePreserves, QueuePreserves, FailPreserves,
     RespondPreserves, TickPreserves, CleanupPreserves, CrashPreserves DEF Next

\* An empty table satisfies the invariant.
LEMMA InitEstablishes == Init => IndInv
BY IdempotencyAssumption DEF Init, IndInv, TypeOK, StoredInv, StageInv, RetryReplays,
     StoredApart, ReplaysReal

\* IndInv holds in every reachable state.
THEOREM Invariance == Spec => []IndInv
BY InitEstablishes, NextPreserves, PTL DEF Spec

\* A retry within TTL of a stored answer is answered from the table and executes
\* nothing, for any number of requests, unless its own look-up failed.
THEOREM RetriesReplay == Spec => []RetryReplays
<1>1. IndInv => RetryReplays
  BY DEF IndInv
<1> QED
  BY <1>1, Invariance, PTL

\* Stored answers of one key are at least TTL apart, for any TTL.
THEOREM StoredAnswersApart == Spec => []StoredApart
<1>1. IndInv => StoredApart
  BY DEF IndInv
<1> QED
  BY <1>1, Invariance, PTL

\* A reported success stands for a transaction that is out.
THEOREM SuccessIsReal == Spec => []ReplaysReal
<1>1. IndInv => ReplaysReal
  BY DEF IndInv
<1> QED
  BY <1>1, Invariance, PTL
=============================================================================
