------------------------- MODULE DailySpend_proofs -------------------------
(***************************************************************************)
(* IndInv of DailySpend is inductive for any number of requests and        *)
(* editors, any amounts and any settings; SpendCovered is one of its       *)
(* conjuncts and CapRespected follows from it.                             *)
(*                                                                         *)
(* The argument: while a request is between its read and its write, it     *)
(* holds the wallet's mutex, so every other change of the row in between   *)
(* is an edit, a deletion or midnight.  A deletion makes the write miss;   *)
(* midnight makes the counter read and the counter in the row both count   *)
(* as 0; an edit that changes the counter is a stale save, which the       *)
(* property excludes.  So what is written extends what the row says.       *)
(*                                                                         *)
(* The last section proves SpendExact from IndInv and ReceiptInv: the      *)
(* charges of a period always fit side by side into what is owed, so that  *)
(* a release never meets a counter smaller than its amount.                *)
(***************************************************************************)
EXTENDS DailySpend, TLAPS

USE DEF rowVars, reqVars, editVars, histVars, Requests, Setting, Row, Terms, Locked,
        Ended, PCs, Races, Undercounting, EnabledPolicy, TermsOf, Effective, Goto,
        Race, OverThreshold, Prices, Leave, RowIsSnap, Proceed, DBFault, Look

-----------------------------------------------------------------------------
(* The row updates, field by field.                                        *)

\* WriteSpent changes the counter and its day, nothing else.
LEMMA SpentUpdate ==
  ASSUME NEW p \in Row, NEW n \in Nat, NEW d \in Nat, NEW q,
         q = [p EXCEPT !.spent = n, !.day = d]
  PROVE  q \in Row /\ q.id = p.id /\ q.spent = n /\ q.day = d
  OBVIOUS

\* releaseDailySpentUSD changes the counter only.
LEMMA ReleaseUpdate ==
  ASSUME NEW p \in Row, NEW n \in Nat, NEW q, q = [p EXCEPT !.spent = n]
  PROVE  q \in Row /\ q.id = p.id /\ q.spent = n /\ q.day = p.day
  OBVIOUS

\* deductedUSDStr is a Boolean in the model.
LEMMA MarkType ==
  ASSUME marked \in [Requests -> BOOLEAN], NEW r \in Requests, Mark(r)
  PROVE  marked' \in [Requests -> BOOLEAN]
  BY DEF Mark

\* MaxFaults bounds the faults.
LEMMA FaultType ==
  ASSUME faults \in 0 .. MaxFaults, UNCHANGED faults \/ DBFault
  PROVE  faults' \in 0 .. MaxFaults
  BY DailySpendAssumption

-----------------------------------------------------------------------------
(* One lemma per action.                                                   *)

\* The first look takes nothing under the mutex.
LEMMA LoadTransferPreserves ==
  ASSUME IndInv, NEW r \in Requests, LoadTransfer(r)
  PROVE  IndInv'
<1>1. TypeOK'
  BY DailySpendAssumption DEF IndInv, TypeOK, RowInv, LoadTransfer
<1>2. MutexInv'
  BY DailySpendAssumption DEF IndInv, TypeOK, MutexInv, LoadTransfer
<1>3. RowInv'
  BY DailySpendAssumption DEF IndInv, TypeOK, RowInv, LoadTransfer
<1>4. SnapInv'
  BY DailySpendAssumption DEF IndInv, TypeOK, MutexInv, RowInv, SnapInv, LoadTransfer
<1>5. SpendCovered'
  BY DailySpendAssumption DEF IndInv, TypeOK, RowInv, SnapInv, SpendCovered, LoadTransfer
<1> QED
  BY <1>1, <1>2, <1>3, <1>4, <1>5 DEF IndInv

\* Nor does the one of Approve,
LEMMA LoadApprovePreserves ==
  ASSUME IndInv, NEW r \in Requests, LoadApprove(r)
  PROVE  IndInv'
<1>1. TypeOK'
  BY DailySpendAssumption DEF IndInv, TypeOK, RowInv, LoadApprove
<1>2. MutexInv'
  BY DailySpendAssumption DEF IndInv, TypeOK, MutexInv, LoadApprove
<1>3. RowInv'
  BY DailySpendAssumption DEF IndInv, TypeOK, RowInv, LoadApprove
<1>4. SnapInv'
  BY DailySpendAssumption DEF IndInv, TypeOK, MutexInv, RowInv, SnapInv, LoadApprove
<1>5. SpendCovered'
  BY DailySpendAssumption DEF IndInv, TypeOK, RowInv, SnapInv, SpendCovered, LoadApprove
<1> QED
  BY <1>1, <1>2, <1>3, <1>4, <1>5 DEF IndInv

\* nor the two of a contract call.
LEMMA LoadCallPreserves ==
  ASSUME IndInv, NEW r \in Requests, LoadCall(r)
  PROVE  IndInv'
<1>1. TypeOK'
  BY DailySpendAssumption DEF IndInv, TypeOK, RowInv, LoadCall
<1>2. MutexInv'
  BY DailySpendAssumption DEF IndInv, TypeOK, MutexInv, LoadCall
<1>3. RowInv'
  BY DailySpendAssumption DEF IndInv, TypeOK, RowInv, LoadCall
<1>4. SnapInv'
  BY DailySpendAssumption DEF IndInv, TypeOK, MutexInv, RowInv, SnapInv, LoadCall
<1>5. SpendCovered'
  BY DailySpendAssumption DEF IndInv, TypeOK, RowInv, SnapInv, SpendCovered, LoadCall
<1> QED
  BY <1>1, <1>2, <1>3, <1>4, <1>5 DEF IndInv

\* The second look of a contract call.
LEMMA LimitCallPreserves ==
  ASSUME IndInv, NEW r \in Requests, LimitCall(r)
  PROVE  IndInv'
<1>1. TypeOK'
  BY DailySpendAssumption DEF IndInv, TypeOK, RowInv, LimitCall
<1>2. MutexInv'
  BY DailySpendAssumption DEF IndInv, TypeOK, MutexInv, LimitCall
<1>3. RowInv'
  BY DailySpendAssumption DEF IndInv, TypeOK, RowInv, LimitCall
<1>4. SnapInv'
  BY DailySpendAssumption DEF IndInv, TypeOK, MutexInv, RowInv, SnapInv, LimitCall
<1>5. SpendCovered'
  BY DailySpendAssumption DEF IndInv, TypeOK, RowInv, SnapInv, SpendCovered, LimitCall
<1> QED
  BY <1>1, <1>2, <1>3, <1>4, <1>5 DEF IndInv

\* The mutex is free, so nobody else has a row in hand, and the row read is
\* the row.
LEMMA EnterPreserves ==
  ASSUME IndInv, NEW r \in Requests, Enter(r)
  PROVE  IndInv'
<1>1. TypeOK'
  BY DailySpendAssumption DEF IndInv, TypeOK, RowInv, Enter
<1>2. MutexInv'
  BY DailySpendAssumption DEF IndInv, TypeOK, MutexInv, Enter
<1>3. RowInv'
  BY DailySpendAssumption DEF IndInv, TypeOK, RowInv, Enter
<1>4. SnapInv'
  BY DailySpendAssumption DEF IndInv, TypeOK, MutexInv, RowInv, SnapInv, Enter
<1>5. SpendCovered'
  BY DailySpendAssumption DEF IndInv, TypeOK, RowInv, SnapInv, SpendCovered, Enter
<1> QED
  BY <1>1, <1>2, <1>3, <1>4, <1>5 DEF IndInv

\* Leaving without a write.
LEMMA DeductNothingPreserves ==
  ASSUME IndInv, NEW r \in Requests, DeductNothing(r)
  PROVE  IndInv'
<1>1. TypeOK'
  BY DailySpendAssumption, MarkType DEF IndInv, TypeOK, DeductNothing
<1>2. MutexInv'
  BY DailySpendAssumption DEF IndInv, TypeOK, MutexInv, DeductNothing
<1>3. RowInv'
  BY DEF IndInv, TypeOK, RowInv, DeductNothing
<1>4. SnapInv'
  BY DailySpendAssumption DEF IndInv, TypeOK, MutexInv, RowInv, SnapInv, DeductNothing
<1>5. SpendCovered'
  BY DailySpendAssumption DEF IndInv, TypeOK, RowInv, SnapInv, SpendCovered, DeductNothing
<1> QED
  BY <1>1, <1>2, <1>3, <1>4, <1>5 DEF IndInv

\* Leaving without a write, refused.
LEMMA DeductExceededPreserves ==
  ASSUME IndInv, NEW r \in Requests, DeductExceeded(r)
  PROVE  IndInv'
<1>1. TypeOK'
  BY DailySpendAssumption DEF IndInv, TypeOK, RowInv, DeductExceeded
<1>2. MutexInv'
  BY DailySpendAssumption DEF IndInv, TypeOK, MutexInv, DeductExceeded
<1>3. RowInv'
  BY DailySpendAssumption DEF IndInv, TypeOK, RowInv, DeductExceeded
<1>4. SnapInv'
  BY DailySpendAssumption DEF IndInv, TypeOK, MutexInv, RowInv, SnapInv, DeductExceeded
<1>5. SpendCovered'
  BY DailySpendAssumption DEF IndInv, TypeOK, RowInv, SnapInv, SpendCovered, DeductExceeded
<1> QED
  BY <1>1, <1>2, <1>3, <1>4, <1>5 DEF IndInv

\* The counter written is the counter read plus the amount, and what was
\* read is still what the row says (SnapInv).
LEMMA DeductWritePreserves ==
  ASSUME IndInv, NEW r \in Requests, DeductWrite(r)
  PROVE  IndInv'
<1>1. MutexInv'
  BY DailySpendAssumption DEF IndInv, TypeOK, MutexInv, DeductWrite, WriteSpent
<1>2. pc' \in [Requests -> PCs] /\ marked' \in [Requests -> BOOLEAN]
      /\ raced' \subseteq Races
  BY MarkType DEF IndInv, TypeOK, DeductWrite
<1>3. CASE RowIsSnap(r)
  <2>1. policy \in Row /\ snap[r] \in Row /\ Amount[r] \in Nat \ {0}
    BY <1>3, DailySpendAssumption DEF IndInv, TypeOK
  <2> DEFINE n == Effective(snap[r]) + Amount[r]
  <2>2. n \in Nat /\ today \in Nat
    BY <2>1 DEF IndInv, TypeOK
  <2>3. WriteSpent(n, today) /\ owed' = owed + Amount[r] /\ raced' = raced
        /\ charge' = [charge EXCEPT ![r] = period]
    BY <1>3 DEF DeductWrite
  <2>4. /\ policy' \in Row /\ policy'.id = policy.id
        /\ policy'.spent = n /\ policy'.day = today
    BY <2>1, <2>2, <2>3, SpentUpdate DEF WriteSpent
  <2> HIDE DEF n
  <2>5. TypeOK'
    BY <1>2, <2>1, <2>3, <2>4 DEF IndInv, TypeOK, DeductWrite
  <2>6. RowInv'
    BY <2>2, <2>4 DEF IndInv, TypeOK, RowInv, DeductWrite
  <2>7. SnapInv'
    BY DailySpendAssumption DEF IndInv, TypeOK, MutexInv, SnapInv, DeductWrite
  <2>8. SpendCovered'
    <3>1. today' = today /\ Effective(policy)' = n
      BY <2>2, <2>4, DailySpendAssumption DEF IndInv, TypeOK, DeductWrite
    <3>2. raced \cap Undercounting = {} => owed <= Effective(snap[r])
      BY <1>3 DEF IndInv, SnapInv, SpendCovered
    <3>3. raced \cap Undercounting = {} => owed + Amount[r] <= n
      BY <3>2, <2>1 DEF IndInv, TypeOK, n
    <3> QED
      BY <2>3, <3>1, <3>3 DEF SpendCovered
  <2> QED
    BY <1>1, <2>5, <2>6, <2>7, <2>8 DEF IndInv
<1>4. CASE ~RowIsSnap(r)
  <2>1. policy' = policy /\ owed' = owed /\ charge' = charge /\ raced \subseteq raced'
    BY <1>4 DEF DeductWrite
  <2>2. TypeOK'
    BY <1>2, <2>1 DEF IndInv, TypeOK, DeductWrite
  <2>3. RowInv'
    BY <2>1 DEF IndInv, TypeOK, RowInv, DeductWrite
  <2>4. SnapInv'
    BY <2>1, DailySpendAssumption DEF IndInv, TypeOK, MutexInv, SnapInv, DeductWrite
  <2>5. SpendCovered'
    BY <2>1 DEF IndInv, TypeOK, SpendCovered, DeductWrite
  <2> QED
    BY <1>1, <2>2, <2>3, <2>4, <2>5 DEF IndInv
<1> QED
  BY <1>3, <1>4

\* Leaving without a write, because the database refused it.
LEMMA DeductFaultPreserves ==
  ASSUME IndInv, NEW r \in Requests, DeductFault(r)
  PROVE  IndInv'
<1>1. TypeOK'
  <2>1. pc' \in [Requests -> PCs] /\ marked' \in [Requests -> BOOLEAN]
        /\ raced' \subseteq Races
    <3>1. CASE Mark(r) /\ Proceed(r) /\ Race({"skipped"})
      <4>1. marked' \in [Requests -> BOOLEAN]
        BY <3>1, MarkType DEF IndInv, TypeOK
      <4>2. pc' \in [Requests -> PCs] /\ raced' \subseteq Races
        BY <3>1 DEF IndInv, TypeOK
      <4> QED
        BY <4>1, <4>2
    <3>2. CASE Goto(r, "failed") /\ UNCHANGED <<marked, raced>>
      BY <3>2 DEF IndInv, TypeOK
    <3> QED
      BY <3>1, <3>2 DEF DeductFault
  <2>2. snap' \in [Requests -> Row \cup {None}] /\ mu' \in Requests \cup {None}
    BY DEF IndInv, TypeOK, DeductFault
  <2>3. faults' \in 0 .. MaxFaults
    BY DailySpendAssumption DEF IndInv, TypeOK, DeductFault
  <2> QED
    BY <2>1, <2>2, <2>3 DEF IndInv, TypeOK, DeductFault
<1>2. MutexInv'
  BY DailySpendAssumption DEF IndInv, TypeOK, MutexInv, DeductFault
<1>3. RowInv'
  BY DailySpendAssumption DEF IndInv, TypeOK, RowInv, DeductFault
<1>4. SnapInv'
  BY DailySpendAssumption DEF IndInv, TypeOK, MutexInv, RowInv, SnapInv, DeductFault
<1>5. SpendCovered'
  BY DailySpendAssumption DEF IndInv, TypeOK, RowInv, SnapInv, SpendCovered, DeductFault
<1> QED
  BY <1>1, <1>2, <1>3, <1>4, <1>5 DEF IndInv

\* A release that adds no undercounting race takes off what the request no
\* longer owes; the floor at 0 only helps.
LEMMA ReleasePreserves ==
  ASSUME IndInv, NEW r \in Requests, Release(r)
  PROVE  IndInv'
<1>1. MutexInv'
  BY DailySpendAssumption DEF IndInv, TypeOK, MutexInv, Release
<1>2. /\ policy \in Row \cup {None} /\ snap[r] \in Row \cup {None}
      /\ Amount[r] \in Nat \ {0} /\ today \in Nat /\ owed \in Int
  BY DailySpendAssumption DEF IndInv, TypeOK
<1> DEFINE applies == snap[r] # None /\ snap[r].day >= today /\ RowIsSnap(r)
           n == IF snap[r].spent > Amount[r] THEN snap[r].spent - Amount[r] ELSE 0
           settled == charge[r] = period /\ ~sent[r]
<1>3. /\ raced \subseteq raced' /\ raced' \subseteq Races
      /\ owed' = IF settled THEN owed - Amount[r] ELSE owed
      /\ faults' \in 0 .. MaxFaults
  BY DailySpendAssumption DEF IndInv, TypeOK, Release
<1>4. policy' = policy \/ (applies /\ policy' = [policy EXCEPT !.spent = n])
  BY DEF Release
<1>5. applies => policy \in Row /\ snap[r] \in Row /\ n \in Nat
  BY <1>2
<1>6. /\ policy' \in Row \cup {None}
      /\ policy' # None => policy # None /\ policy'.id = policy.id /\ policy'.day = policy.day
  <2>1. CASE policy' = policy
    BY <2>1, <1>2
  <2>2. CASE applies /\ policy' = [policy EXCEPT !.spent = n]
    BY <2>2, <1>5, ReleaseUpdate, DailySpendAssumption
  <2> QED
    BY <1>4, <2>1, <2>2
<1>7. TypeOK'
  BY <1>2, <1>3, <1>6 DEF IndInv, TypeOK, Release
<1>8. RowInv'
  BY <1>6 DEF IndInv, TypeOK, RowInv, Release
<1>9. SnapInv'
  BY DailySpendAssumption DEF IndInv, TypeOK, MutexInv, SnapInv, Release
<1>10. SpendCovered'
  <2>1. SUFFICES ASSUME raced' \cap Undercounting = {}
                 PROVE  owed' <= Effective(policy)'
    BY DEF SpendCovered
  <2>2. raced \cap Undercounting = {} /\ owed <= Effective(policy) /\ today' = today
    BY <2>1, <1>3 DEF IndInv, SpendCovered, Release
  <2>3. CASE policy' = policy
    BY <2>2, <2>3, <1>2, <1>3
  <2>4. CASE applies /\ policy' = [policy EXCEPT !.spent = n] /\ policy' # policy
    <3>1. settled
      BY <2>1, <2>4 DEF Release
    <3>2. Effective(snap[r]) = Effective(policy) /\ snap[r].day = today
      <4>1. Effective(snap[r]) = Effective(policy)
        BY <2>2, <2>4 DEF IndInv, SnapInv
      <4>2. snap[r].day >= today /\ snap[r].day <= today
        BY <2>4 DEF IndInv, RowInv
      <4> QED
        BY <4>1, <4>2, <1>2, <1>5, <2>4
    <3>3. policy' \in Row /\ policy'.spent = n /\ policy'.day = policy.day
      BY <2>4, <1>5, ReleaseUpdate
    <3>4. owed - Amount[r] <= n /\ (policy.day < today => owed - Amount[r] <= 0)
      BY <3>2, <2>2, <2>4, <1>2, <1>5
    <3> QED
      BY <3>1, <3>3, <3>4, <2>2, <1>3, <1>5, <2>4, DailySpendAssumption
  <2> QED
    BY <1>4, <2>3, <2>4
<1> QED
  BY <1>1, <1>7, <1>8, <1>9, <1>10 DEF IndInv

\* As DeductWrite, without the check.
LEMMA AddPreserves ==
  ASSUME IndInv, NEW r \in Requests, Add(r)
  PROVE  IndInv'
<1>1. MutexInv'
  BY DailySpendAssumption DEF IndInv, TypeOK, MutexInv, Add, WriteSpent
<1>2. pc' \in [Requests -> PCs] /\ marked' \in [Requests -> BOOLEAN]
      /\ raced' \subseteq Races /\ faults' \in 0 .. MaxFaults
  <2>1. pc' \in [Requests -> PCs] /\ marked' \in [Requests -> BOOLEAN]
    BY DEF IndInv, TypeOK, Add
  <2>2. raced' \subseteq Races
    BY DEF IndInv, TypeOK, Add
  <2>3. faults' \in 0 .. MaxFaults
    BY FaultType DEF IndInv, TypeOK, Add
  <2> QED
    BY <2>1, <2>2, <2>3
<1>3. CASE RowIsSnap(r) /\ raced' = raced /\ charge' = [charge EXCEPT ![r] = period]
           /\ WriteSpent(Effective(snap[r]) + Amount[r], today) /\ owed' = owed + Amount[r]
  <2>1. policy \in Row /\ snap[r] \in Row /\ Amount[r] \in Nat \ {0}
    BY <1>3, DailySpendAssumption DEF IndInv, TypeOK
  <2> DEFINE n == Effective(snap[r]) + Amount[r]
  <2>2. n \in Nat /\ today \in Nat
    BY <2>1 DEF IndInv, TypeOK
  <2>3. WriteSpent(n, today) /\ owed' = owed + Amount[r] /\ raced' = raced
        /\ charge' = [charge EXCEPT ![r] = period]
    BY <1>3
  <2>4. /\ policy' \in Row /\ policy'.id = policy.id
        /\ policy'.spent = n /\ policy'.day = today
    BY <2>1, <2>2, <2>3, SpentUpdate DEF WriteSpent
  <2> HIDE DEF n
  <2>5. TypeOK'
    BY <1>2, <2>1, <2>3, <2>4 DEF IndInv, TypeOK, Add
  <2>6. RowInv'
    BY <2>2, <2>4 DEF IndInv, TypeOK, RowInv, Add
  <2>7. SnapInv'
    BY DailySpendAssumption DEF IndInv, TypeOK, MutexInv, SnapInv, Add
  <2>8. SpendCovered'
    <3>1. today' = today /\ Effective(policy)' = n
      BY <2>2, <2>4, DailySpendAssumption DEF IndInv, TypeOK, Add
    <3>2. raced \cap Undercounting = {} => owed <= Effective(snap[r])
      BY <1>3 DEF IndInv, SnapInv, SpendCovered
    <3>3. raced \cap Undercounting = {} => owed + Amount[r] <= n
      BY <3>2, <2>1 DEF IndInv, TypeOK, n
    <3> QED
      BY <2>3, <3>1, <3>3 DEF SpendCovered
  <2> QED
    BY <1>1, <2>5, <2>6, <2>7, <2>8 DEF IndInv
<1>4. CASE Race({"skipped"}) /\ UNCHANGED <<policy, charge, owed>>
  <2>1. policy' = policy /\ owed' = owed /\ charge' = charge /\ raced \subseteq raced'
    BY <1>4
  <2>2. TypeOK'
    BY <1>2, <2>1 DEF IndInv, TypeOK, Add
  <2>3. RowInv'
    BY <2>1 DEF IndInv, TypeOK, RowInv, Add
  <2>4. SnapInv'
    BY <2>1, DailySpendAssumption DEF IndInv, TypeOK, MutexInv, SnapInv, Add
  <2>5. SpendCovered'
    BY <2>1 DEF IndInv, TypeOK, SpendCovered, Add
  <2> QED
    BY <1>1, <2>2, <2>3, <2>4, <2>5 DEF IndInv
<1> QED
  BY <1>3, <1>4 DEF Add

\* The broadcast leaves the account alone.
LEMMA SendSucceedsPreserves ==
  ASSUME IndInv, NEW r \in Requests, SendSucceeds(r)
  PROVE  IndInv'
<1>1. TypeOK'
  <2>1. faults' \in 0 .. MaxFaults
    BY FaultType DEF IndInv, TypeOK, SendSucceeds
  <2>2. pc' \in [Requests -> PCs] /\ raced' \subseteq Races
    BY DEF IndInv, TypeOK, SendSucceeds
  <2>3. price' \in [Requests -> {"main", "fallback", "none"}] /\ sent' \in [Requests -> BOOLEAN]
    BY DEF IndInv, TypeOK, SendSucceeds
  <2> QED
    BY <2>1, <2>2, <2>3 DEF IndInv, TypeOK, SendSucceeds
<1>2. MutexInv'
  BY DailySpendAssumption DEF IndInv, TypeOK, MutexInv, SendSucceeds
<1>3. RowInv'
  BY DailySpendAssumption DEF IndInv, TypeOK, RowInv, SendSucceeds
<1>4. SnapInv'
  BY DailySpendAssumption DEF IndInv, TypeOK, MutexInv, RowInv, SnapInv, SendSucceeds
<1>5. SpendCovered'
  BY DailySpendAssumption DEF IndInv, TypeOK, RowInv, SnapInv, SpendCovered, SendSucceeds
<1> QED
  BY <1>1, <1>2, <1>3, <1>4, <1>5 DEF IndInv

\* So does a failed one; it may leave a phantom, which only overcounts.
LEMMA SendFailsPreserves ==
  ASSUME IndInv, NEW r \in Requests, SendFails(r)
  PROVE  IndInv'
<1>1. TypeOK'
  BY DailySpendAssumption DEF IndInv, TypeOK, RowInv, SendFails
<1>2. MutexInv'
  BY DailySpendAssumption DEF IndInv, TypeOK, MutexInv, SendFails
<1>3. RowInv'
  BY DailySpendAssumption DEF IndInv, TypeOK, RowInv, SendFails
<1>4. SnapInv'
  <2>1. policy' = policy /\ snap' = snap /\ today' = today /\ raced \subseteq raced'
    BY DEF SendFails
  <2> QED
    BY <2>1 DEF IndInv, SnapInv
<1>5. SpendCovered'
  BY DailySpendAssumption DEF IndInv, TypeOK, RowInv, SnapInv, SpendCovered, SendFails
<1> QED
  BY <1>1, <1>2, <1>3, <1>4, <1>5 DEF IndInv

\* An edit reads a row that exists.
LEMMA EditReadPreserves ==
  ASSUME IndInv, NEW e \in Editors, EditRead(e)
  PROVE  IndInv'
<1>1. TypeOK'
  BY DailySpendAssumption DEF IndInv, TypeOK, RowInv, EditRead
<1>2. MutexInv'
  BY DailySpendAssumption DEF IndInv, TypeOK, MutexInv, EditRead
<1>3. RowInv'
  BY DailySpendAssumption DEF IndInv, TypeOK, RowInv, EditRead
<1>4. SnapInv'
  BY DailySpendAssumption DEF IndInv, TypeOK, MutexInv, RowInv, SnapInv, EditRead
<1>5. SpendCovered'
  BY DailySpendAssumption DEF IndInv, TypeOK, RowInv, SnapInv, SpendCovered, EditRead
<1> QED
  BY <1>1, <1>2, <1>3, <1>4, <1>5 DEF IndInv

\* A save that is not stale leaves the counter as it was; a new row has a
\* fresh id.
LEMMA EditSavePreserves ==
  ASSUME IndInv, NEW e \in Editors, EditSave(e)
  PROVE  IndInv'
<1>1. /\ policy \in Row \cup {None} /\ eread[e] \in Row \cup {None} /\ eset[e] \in Setting
      /\ rows \in Nat /\ today \in Nat
  BY DEF IndInv, TypeOK
<1>0. faults' \in 0 .. MaxFaults
  BY FaultType DEF IndInv, TypeOK, EditSave
<1>2. CASE policy' = policy /\ rows' = rows /\ raced' = raced
  <2>1. TypeOK' /\ MutexInv'
    BY <1>0, <1>2 DEF IndInv, TypeOK, MutexInv, EditSave
  <2>2. RowInv' /\ SnapInv' /\ SpendCovered'
    BY <1>2 DEF IndInv, TypeOK, RowInv, SnapInv, SpendCovered, EditSave
  <2> QED
    BY <2>1, <2>2 DEF IndInv
<1>3. CASE /\ eread[e] # None /\ (policy # None => policy.id = eread[e].id)
           /\ policy' = Edited(e) /\ rows' = rows
           /\ Race(IF policy = None \/ Effective(Edited(e)) # Effective(policy)
                   THEN {"stale_save"} ELSE {})
  <2>1. /\ policy' \in Row /\ policy'.id = eread[e].id /\ policy'.day = eread[e].day
        /\ policy' # None
    <3>1. eread[e] \in Row
      BY <1>1, <1>3
    <3>2. policy' = [eread[e] EXCEPT !.enabled = policy = None \/ eset[e].enabled, !.limit = eset[e].limit,
                                     !.threshold = eset[e].threshold]
      BY <1>3 DEF Edited
    <3>3. eset[e] \in Setting
      BY <1>1
    <3>4. policy' \in Row /\ policy'.id = eread[e].id /\ policy'.day = eread[e].day
      BY <3>1, <3>2, <3>3
    <3> QED
      BY <3>4, DailySpendAssumption
  <2>2. raced \subseteq raced' /\ raced' \subseteq Races /\ today' = today /\ owed' = owed
    BY <1>3 DEF IndInv, TypeOK, EditSave
  <2>3. raced' \cap Undercounting = {} =>
           /\ raced \cap Undercounting = {}
           /\ policy # None /\ policy.id = eread[e].id
           /\ Effective(policy)' = Effective(policy)
    <3>1. raced' \cap Undercounting = {} => policy # None /\ Effective(Edited(e)) = Effective(policy)
      BY <1>3
    <3> QED
      BY <3>1, <2>2, <1>3
  <2> HIDE DEF Effective
  <2>4. TypeOK' /\ MutexInv'
    BY <1>0, <1>3, <2>1, <2>2 DEF IndInv, TypeOK, MutexInv, EditSave
  <2>5. RowInv'
    BY <1>3, <2>1, <2>2 DEF IndInv, TypeOK, RowInv, EditSave
  <2>6. SnapInv'
    <3>1. SUFFICES ASSUME raced' \cap Undercounting = {}, NEW r \in Requests, RowIsSnap(r)'
                   PROVE  (Effective(snap[r]) = Effective(policy))'
      BY DEF SnapInv
    <3>2. snap' = snap /\ RowIsSnap(r)
      BY <3>1, <2>1, <2>3 DEF EditSave
    <3>3. Effective(snap[r])' = Effective(snap[r])
      BY <3>2, <2>2 DEF Effective
    <3> QED
      BY <3>1, <3>2, <3>3, <2>3 DEF IndInv, SnapInv
  <2>7. SpendCovered'
    BY <2>2, <2>3 DEF IndInv, SpendCovered
  <2> QED
    BY <2>4, <2>5, <2>6, <2>7 DEF IndInv
<1>4. CASE /\ policy = None /\ policy' = NewRow(rows + 1, eset[e])
           /\ rows' = rows + 1 /\ raced' = raced
  <2>1. /\ policy' \in Row /\ policy'.id = rows + 1 /\ policy'.day = 0
        /\ policy'.spent = 0
    BY <1>1, <1>4 DEF NewRow
  <2>2. TypeOK' /\ MutexInv'
    BY <1>0, <1>4, <2>1 DEF IndInv, TypeOK, MutexInv, EditSave
  <2>3. RowInv'
    BY <1>4, <2>1, <1>1 DEF IndInv, TypeOK, RowInv, EditSave
  <2>4. SnapInv'
    BY <1>4, <2>1, <1>1 DEF IndInv, TypeOK, RowInv, SnapInv, EditSave
  <2>5. SpendCovered'
    BY <1>4, <2>1, <1>1, DailySpendAssumption DEF IndInv, TypeOK, SpendCovered, EditSave
  <2> QED
    BY <2>2, <2>3, <2>4, <2>5 DEF IndInv
<1> QED
  BY <1>2, <1>3, <1>4 DEF EditSave

\* The account goes with the row.
LEMMA DeletePolicyPreserves ==
  ASSUME IndInv, DeletePolicy
  PROVE  IndInv'
<1>1. TypeOK'
  BY DailySpendAssumption DEF IndInv, TypeOK, RowInv, DeletePolicy
<1>2. MutexInv'
  BY DailySpendAssumption DEF IndInv, TypeOK, MutexInv, DeletePolicy
<1>3. RowInv'
  BY DailySpendAssumption DEF IndInv, TypeOK, RowInv, DeletePolicy
<1>4. SnapInv'
  BY DailySpendAssumption DEF IndInv, TypeOK, MutexInv, RowInv, SnapInv, DeletePolicy
<1>5. SpendCovered'
  BY DailySpendAssumption DEF IndInv, TypeOK, RowInv, SnapInv, SpendCovered, DeletePolicy
<1> QED
  BY <1>1, <1>2, <1>3, <1>4, <1>5 DEF IndInv

\* No row was reset tomorrow, so every reader takes the counter for 0.
LEMMA MidnightPreserves ==
  ASSUME IndInv, Midnight
  PROVE  IndInv'
<1>1. TypeOK'
  BY DailySpendAssumption DEF IndInv, TypeOK, RowInv, Midnight
<1>2. MutexInv'
  BY DailySpendAssumption DEF IndInv, TypeOK, MutexInv, Midnight
<1>3. RowInv'
  BY DailySpendAssumption DEF IndInv, TypeOK, RowInv, Midnight
<1>4. SnapInv'
  BY DailySpendAssumption DEF IndInv, TypeOK, MutexInv, RowInv, SnapInv, Midnight
<1>5. SpendCovered'
  BY DailySpendAssumption DEF IndInv, TypeOK, RowInv, SnapInv, SpendCovered, Midnight
<1> QED
  BY <1>1, <1>2, <1>3, <1>4, <1>5 DEF IndInv

\* Nobody holds a row over a restart, and the account is left alone.
LEMMA CrashPreserves ==
  ASSUME IndInv, Crash
  PROVE  IndInv'
<1>1. TypeOK'
  <2>1. sent' \in [Requests -> BOOLEAN]
    <3>1. PICK S : sent' = [r \in Requests |-> r \in S \/ sent[r]]
      BY DEF Crash
    <3> QED
      BY <3>1
  <2>2. pc' \in [Requests -> PCs] /\ epc' \in [Editors -> {"idle", "read", "done"}]
    BY DEF IndInv, TypeOK, Crash
  <2>3. /\ snap' \in [Requests -> Row \cup {None}] /\ eread' \in [Editors -> Row \cup {None}]
        /\ mu' \in Requests \cup {None} /\ raced' \subseteq Races
    BY DEF IndInv, TypeOK, Crash
  <2> QED
    BY <2>1, <2>2, <2>3 DEF IndInv, TypeOK, Crash
<1>2. MutexInv'
  BY DEF IndInv, TypeOK, MutexInv, Crash
<1>3. RowInv'
  BY DEF IndInv, TypeOK, RowInv, Crash
<1>4. SnapInv'
  BY DEF IndInv, SnapInv, Crash
<1>5. SpendCovered'
  BY DEF IndInv, SpendCovered, Crash
<1> QED
  BY <1>1, <1>2, <1>3, <1>4, <1>5 DEF IndInv

-----------------------------------------------------------------------------
(* The theorems.                                                           *)

\* A step of the specification preserves the invariant.
LEMMA NextPreserves ==
  ASSUME IndInv, [Next]_vars
  PROVE  IndInv'
<1>1. CASE UNCHANGED vars
  BY <1>1 DEF IndInv, TypeOK, MutexInv, RowInv, SnapInv, SpendCovered, vars
<1>2. ASSUME NEW r \in Requests, RequestStep(r)
      PROVE  IndInv'
  BY <1>2, LoadTransferPreserves, LoadApprovePreserves, LoadCallPreserves,
     LimitCallPreserves, EnterPreserves, DeductNothingPreserves,
     DeductExceededPreserves, DeductWritePreserves, DeductFaultPreserves,
     ReleasePreserves, AddPreserves, SendSucceedsPreserves, SendFailsPreserves
     DEF RequestStep
<1> QED
  BY <1>1, <1>2, EditReadPreserves, EditSavePreserves, DeletePolicyPreserves,
     MidnightPreserves, CrashPreserves DEF Next

\* A fresh row has counted nothing and nobody owes anything.
LEMMA InitEstablishes == Init => IndInv
<1> SUFFICES ASSUME Init PROVE IndInv
  OBVIOUS
<1>1. PICK s \in Settings : policy = NewRow(1, s)
  BY DEF Init
<1>2. policy \in Row /\ policy.id = 1 /\ policy.spent = 0 /\ policy.day = 0
  BY <1>1, DailySpendAssumption DEF NewRow
<1>3. TypeOK
  BY <1>2, DailySpendAssumption DEF Init, TypeOK
<1>4. MutexInv /\ RowInv /\ SnapInv /\ SpendCovered
  BY <1>2, DailySpendAssumption DEF Init, MutexInv, RowInv, SnapInv, SpendCovered
<1> QED
  BY <1>3, <1>4 DEF IndInv

\* IndInv holds in every reachable state.
THEOREM Invariance == Spec => []IndInv
BY InitEstablishes, NextPreserves, PTL DEF Spec

\* The daily counter covers everything charged today, for any number of
\* concurrent transfers, approvals, contract calls and policy edits, unless one
\* of the four undercounting races took place.
THEOREM CounterCovers == Spec => []SpendCovered
<1>1. IndInv => SpendCovered
  BY DEF IndInv
<1> QED
  BY <1>1, Invariance, PTL

\* checkAndDeductDailyLimitUSD never admits a charge beyond the limit it read,
\* absent the same races: only DeductWrite charges a request that is deducting,
\* and what it compares with the limit is at least what is owed.
THEOREM LimitIsRespected == Spec => CapRespected
<1> DEFINE Step == \A r \in Requests :
             pc[r] = "deducting" /\ charge'[r] # charge[r] /\ raced' \cap Undercounting = {}
             => owed' <= snap[r].limit
<1>1. ASSUME IndInv, [Next]_vars PROVE Step
  <2>1. SUFFICES ASSUME NEW r \in Requests, pc[r] = "deducting", charge'[r] # charge[r],
                        raced' \cap Undercounting = {}
                 PROVE  owed' <= snap[r].limit
    OBVIOUS
  <2>2. DeductWrite(r) /\ RowIsSnap(r)
    <3>1. charge' # charge
      BY <2>1
    <3>2. PICK q \in Requests : RequestStep(q)
      BY <1>1, <3>1 DEF Next, EditRead, EditSave, DeletePolicy, Midnight, Crash, vars
    <3>3. DeductWrite(q) \/ Release(q) \/ Add(q)
      BY <3>1, <3>2 DEF RequestStep, LoadTransfer, LoadApprove, LoadCall, LimitCall,
           Enter, DeductNothing, DeductExceeded, DeductFault, SendSucceeds, SendFails
    <3>4. \E x : charge' = [charge EXCEPT ![q] = x]
      BY <3>1, <3>3 DEF DeductWrite, Release, Add
    <3>5. q = r
      BY <3>4, <2>1, <1>1 DEF IndInv, TypeOK
    <3>6. DeductWrite(r)
      BY <2>1, <3>3, <3>5 DEF Release, Add
    <3> QED
      BY <3>1, <3>6 DEF DeductWrite
  <2>3. raced' = raced /\ owed' = owed + Amount[r]
    BY <2>2 DEF DeductWrite
  <2>4. owed <= Effective(snap[r])
    BY <1>1, <2>1, <2>2, <2>3 DEF IndInv, SnapInv, SpendCovered
  <2>5. Effective(snap[r]) + Amount[r] <= snap[r].limit
    BY <2>2 DEF DeductWrite
  <2>6. /\ Effective(snap[r]) \in Nat /\ snap[r].limit \in Nat
        /\ Amount[r] \in Nat /\ owed \in Int
    BY <1>1, <2>2, DailySpendAssumption DEF IndInv, TypeOK
  <2> QED
    BY <2>3, <2>4, <2>5, <2>6
<1> QED
  BY <1>1, Invariance, PTL DEF Spec, CapRespected

\* A request about to be sent, or sent, that saw a limit and has a price the
\* counter can use.
Counts(r) ==
  /\ seen[r] # None /\ seen[r].limit # 0
  /\ price[r] = "main" \/ (price[r] = "fallback" /\ r \notin Calls)

\* SentIsCharged, from the moment the request goes for its broadcast; and only
\* contract calls look at the policy a second time.
ChargeInv ==
  \A r \in Requests :
    /\ pc[r] = "limit" => r \in Calls
    /\ "skipped" \notin raced /\ pc[r] \in {"send", "done"} /\ Counts(r) => charge[r] # 0

\* A step of one request leaves the other requests' records alone.
LEMMA OthersUntouched ==
  ASSUME IndInv, NEW q \in Requests, RequestStep(q), NEW r \in Requests, r # q
  PROVE  /\ pc'[r] = pc[r] /\ seen'[r] = seen[r] /\ price'[r] = price[r]
         /\ charge'[r] = charge[r]
<1>1. pc'[r] = pc[r]
  BY DEF IndInv, TypeOK, RequestStep, LoadTransfer, LoadApprove, LoadCall, LimitCall, Enter,
    DeductNothing, DeductExceeded, DeductWrite, DeductFault, Release, Add, SendSucceeds, SendFails
<1>2. seen'[r] = seen[r] /\ price'[r] = price[r]
  BY DEF IndInv, TypeOK, RequestStep, LoadTransfer, LoadApprove, LoadCall, LimitCall, Enter,
    DeductNothing, DeductExceeded, DeductWrite, DeductFault, Release, Add, SendSucceeds, SendFails
<1>3. charge'[r] = charge[r]
  BY DEF IndInv, TypeOK, RequestStep, LoadTransfer, LoadApprove, LoadCall, LimitCall, Enter,
    DeductNothing, DeductExceeded, DeductWrite, DeductFault, Release, Add, SendSucceeds, SendFails
<1> QED
  BY <1>1, <1>2, <1>3

\* A request comes to its broadcast uncharged only if it saw no limit, has no
\* price, or a count was skipped; what Approve adds afterwards it adds before "done".
LEMMA ChargeStep ==
  ASSUME IndInv, ChargeInv, NEW r \in Requests, RequestStep(r),
         "skipped" \notin raced', pc'[r] \in {"send", "done"}, Counts(r)'
  PROVE  charge'[r] # 0
<1>0. "skipped" \notin raced
  <2>1. raced \subseteq raced'
    BY DEF RequestStep, LoadTransfer, LoadApprove, LoadCall, LimitCall, Enter,
      DeductNothing, DeductExceeded, DeductWrite, DeductFault, Release, Add, SendSucceeds, SendFails
  <2> QED
    BY <2>1
<1>1. CASE LoadTransfer(r)
  BY <1>1 DEF IndInv, TypeOK, LoadTransfer, Counts
<1>2. CASE LoadApprove(r)
  BY <1>2 DEF IndInv, TypeOK, LoadApprove, Counts
<1>3. CASE LoadCall(r)
  BY <1>3 DEF IndInv, TypeOK, LoadCall
<1>4. CASE LimitCall(r)
  BY <1>4 DEF IndInv, TypeOK, ChargeInv, LimitCall, Counts
<1>5. CASE Enter(r) \/ DeductExceeded(r) \/ Release(r) \/ SendFails(r) \/ DeductNothing(r)
  BY <1>5 DEF IndInv, TypeOK, Enter, DeductExceeded, Release, SendFails, DeductNothing
<1>6. CASE DeductWrite(r) \/ Add(r)
  <2>1. charge' = [charge EXCEPT ![r] = period]
    BY <1>6 DEF DeductWrite, Add
  <2> QED
    BY <2>1 DEF IndInv, TypeOK
<1>7. CASE DeductFault(r)
  BY <1>7 DEF IndInv, TypeOK, DeductFault
<1>8. CASE SendSucceeds(r)
  BY <1>0, <1>8 DEF IndInv, TypeOK, ChargeInv, SendSucceeds, Counts
<1> QED
  BY <1>1, <1>2, <1>3, <1>4, <1>5, <1>6, <1>7, <1>8 DEF RequestStep

\* Whatever transfers, approvals, contract calls, edits, midnight and crashes
\* do, a request that saw a limit, could be priced and went out has been
\* counted, unless some request's counting was skipped.
THEOREM OutIsCounted == Spec => []SentIsCharged
<1>1. Init => ChargeInv
  BY DEF Init, ChargeInv
<1>2. ASSUME IndInv, ChargeInv, [Next]_vars PROVE ChargeInv'
  <2>0. \A r \in Requests : pc'[r] = "limit" => r \in Calls
    <3>1. SUFFICES ASSUME NEW r \in Requests, pc'[r] = "limit", pc[r] # "limit"
                   PROVE  r \in Calls
      BY <1>2 DEF ChargeInv
    <3>2. PICK q \in Requests : RequestStep(q)
      BY <1>2, <3>1 DEF Next, EditRead, EditSave, DeletePolicy, Midnight, Crash, vars
    <3>3. q = r
      BY <1>2, <3>1, <3>2, OthersUntouched
    <3>4. LoadCall(r)
      BY <1>2, <3>1, <3>2, <3>3 DEF IndInv, TypeOK, RequestStep, LoadTransfer, LoadApprove,
        LimitCall, Enter, DeductNothing, DeductExceeded, DeductWrite, DeductFault, Release,
        Add, SendSucceeds, SendFails
    <3> QED
      BY <3>4 DEF LoadCall
  <2>1. SUFFICES ASSUME NEW r \in Requests, "skipped" \notin raced',
                        pc'[r] \in {"send", "done"}, Counts(r)'
                 PROVE  charge'[r] # 0
    BY <2>0 DEF ChargeInv
  <2>2. ASSUME NEW q \in Requests, RequestStep(q) PROVE charge'[r] # 0
    <3>1. CASE q = r
      BY <1>2, <2>1, <2>2, <3>1, ChargeStep
    <3>2. CASE q # r
      <4>1. /\ pc'[r] = pc[r] /\ seen'[r] = seen[r] /\ price'[r] = price[r]
            /\ charge'[r] = charge[r]
        BY <1>2, <2>1, <2>2, <3>2, OthersUntouched
      <4>2. "skipped" \notin raced
        <5>1. raced \subseteq raced'
          BY <2>2 DEF RequestStep, LoadTransfer, LoadApprove, LoadCall, LimitCall, Enter,
            DeductNothing, DeductExceeded, DeductWrite, DeductFault, Release, Add, SendSucceeds,
            SendFails
        <5> QED
          BY <5>1, <2>1
      <4> QED
        BY <1>2, <2>1, <4>1, <4>2 DEF ChargeInv, Counts
    <3> QED
      BY <3>1, <3>2
  <2>3. CASE UNCHANGED <<seen, price, charge>> /\ raced \subseteq raced'
              /\ (pc'[r] \in {"send", "done"} => pc'[r] = pc[r])
    BY <1>2, <2>1, <2>3 DEF ChargeInv, Counts
  <2>4. CASE \E e \in Editors : EditRead(e) \/ EditSave(e)
    BY <2>3, <2>4 DEF EditRead, EditSave
  <2>5. CASE DeletePolicy \/ Midnight \/ UNCHANGED vars
    BY <2>3, <2>5 DEF DeletePolicy, Midnight, vars
  <2>6. CASE Crash
    BY <2>3, <2>6 DEF Crash
  <2> QED
    BY <1>2, <2>2, <2>4, <2>5, <2>6 DEF Next
<1>3. ChargeInv /\ IndInv => SentIsCharged
  BY DEF ChargeInv, SentIsCharged, Counts
<1> QED
  BY <1>1, <1>2, <1>3, Invariance, PTL DEF Spec

-----------------------------------------------------------------------------
(* The counter is exact.                                                   *)
(*                                                                         *)
(* releaseDailySpentUSD stops at 0, so that a release takes off the whole  *)
(* amount only if the counter holds it.  That it does is a statement about *)
(* the sum of all charges.  It is made here without a sum: the charges of  *)
(* the period can be laid side by side, like receipts on a ruler as long   *)
(* as what is owed, no two overlapping.  A new charge goes to the end;     *)
(* when one is taken up, those behind it move up.                          *)

Charged == {r \in Requests : charge[r] = period}

\* at gives each charge of the period its place on the ruler.
Receipts(at) ==
  \A r \in Charged :
    /\ at[r] + Amount[r] <= owed
    /\ \A q \in Charged \ {r} :
         at[r] + Amount[r] <= at[q] \/ at[q] + Amount[q] <= at[r]

ReceiptInv ==
  /\ owed >= 0
  /\ \A r \in Requests : charge[r] <= period
  /\ \E at \in [Requests -> Nat] : Receipts(at)

\* A charge is laid down at the end.
LEMMA LayDown ==
  ASSUME IndInv, ReceiptInv, NEW r \in Requests, owed' = owed + Amount[r],
         charge' = [charge EXCEPT ![r] = period], period' = period
  PROVE  ReceiptInv'
<1>1. /\ charge \in [Requests -> Nat] /\ period \in Nat /\ owed \in Nat
      /\ \A q \in Requests : Amount[q] \in Nat \ {0}
  BY DailySpendAssumption DEF IndInv, TypeOK, ReceiptInv
<1>2. PICK at \in [Requests -> Nat] : Receipts(at)
  BY DEF ReceiptInv
<1> DEFINE new == [at EXCEPT ![r] = owed]
<1>3. new \in [Requests -> Nat] /\ new[r] = owed /\ \A q \in Requests \ {r} : new[q] = at[q]
  BY <1>1
<1> HIDE DEF new
<1>4. Charged' = Charged \cup {r}
  BY <1>1 DEF Charged
<1>5. ASSUME NEW p \in Charged'
      PROVE  /\ new[p] + Amount[p] <= owed'
             /\ \A q \in Charged' \ {p} :
                  new[p] + Amount[p] <= new[q] \/ new[q] + Amount[q] <= new[p]
  <2>1. \A q \in Charged' \ {r} : q \in Charged /\ q \in Requests
    BY <1>4 DEF Charged
  <2>2. CASE p = r
    BY <1>1, <1>2, <1>3, <2>1, <2>2 DEF Receipts
  <2>3. CASE p # r
    <3>1. p \in Charged /\ p \in Requests /\ new[p] = at[p] /\ at[p] + Amount[p] <= owed
      BY <1>2, <1>3, <1>5, <2>1, <2>3 DEF Receipts
    <3>2. ASSUME NEW q \in Charged' \ {p}
          PROVE  new[p] + Amount[p] <= new[q] \/ new[q] + Amount[q] <= new[p]
      BY <1>2, <1>3, <2>1, <3>1 DEF Receipts
    <3> QED
      BY <1>1, <3>1, <3>2
  <2> QED
    BY <2>2, <2>3
<1>6. (\E at1 \in [Requests -> Nat] : Receipts(at1))'
  BY <1>3, <1>5 DEF Receipts
<1>7. \A q \in Requests : charge'[q] <= period'
  BY <1>1 DEF ReceiptInv
<1> QED
  BY <1>1, <1>6, <1>7 DEF ReceiptInv

\* A charge is taken up, and those behind it move up.
LEMMA TakeUp ==
  ASSUME IndInv, ReceiptInv, NEW r \in Charged, owed' = owed - Amount[r],
         charge' = [charge EXCEPT ![r] = 0], period' = period
  PROVE  ReceiptInv' /\ Amount[r] <= owed
<1>1. /\ charge \in [Requests -> Nat] /\ period \in Nat \ {0} /\ owed \in Nat
      /\ r \in Requests /\ \A q \in Requests : Amount[q] \in Nat \ {0}
  BY DailySpendAssumption DEF IndInv, TypeOK, ReceiptInv, Charged
<1>2. PICK at \in [Requests -> Nat] : Receipts(at)
  BY DEF ReceiptInv
<1>3. at[r] \in Nat /\ at[r] + Amount[r] <= owed
  BY <1>1, <1>2 DEF Receipts
<1> DEFINE new == [q \in Requests |-> IF at[q] >= at[r] + Amount[r] THEN at[q] - Amount[r] ELSE at[q]]
<1>4. new \in [Requests -> Nat]
  BY <1>1, <1>3
<1>5. Charged' = Charged \ {r}
  BY <1>1 DEF Charged
<1>6. ASSUME NEW p \in Charged'
      PROVE  /\ new[p] + Amount[p] <= owed'
             /\ \A q \in Charged' \ {p} :
                  new[p] + Amount[p] <= new[q] \/ new[q] + Amount[q] <= new[p]
  <2>1. \A q \in Charged' : /\ q \in Requests /\ at[q] \in Nat /\ Amount[q] \in Nat \ {0}
                            /\ at[q] + Amount[q] <= owed
                            /\ at[q] + Amount[q] <= at[r] \/ at[r] + Amount[r] <= at[q]
    BY <1>1, <1>2, <1>5 DEF Receipts, Charged
  <2>2. \A q \in Charged' \ {p} : at[p] + Amount[p] <= at[q] \/ at[q] + Amount[q] <= at[p]
    BY <1>2, <1>5, <1>6 DEF Receipts
  <2>3. \A q \in Charged' : \/ at[q] + Amount[q] <= at[r] /\ new[q] = at[q]
                            \/ at[r] + Amount[r] <= at[q] /\ new[q] = at[q] - Amount[r]
    BY <1>1, <1>3, <2>1
  <2> HIDE DEF new
  <2>4. new[p] + Amount[p] <= owed'
    BY <1>1, <1>3, <1>6, <2>1, <2>3
  <2>5. ASSUME NEW q \in Charged' \ {p}
        PROVE  new[p] + Amount[p] <= new[q] \/ new[q] + Amount[q] <= new[p]
    BY <1>1, <1>3, <1>6, <2>1, <2>2, <2>3
  <2> QED
    BY <2>4, <2>5
<1> HIDE DEF new
<1>7. (\E at1 \in [Requests -> Nat] : Receipts(at1))'
  BY <1>4, <1>6 DEF Receipts
<1>8. \A q \in Requests : charge'[q] <= period'
  BY <1>1 DEF ReceiptInv
<1> QED
  BY <1>1, <1>3, <1>7, <1>8 DEF ReceiptInv

\* A charge of an earlier period is on no ruler.
LEMMA DropOld ==
  ASSUME IndInv, ReceiptInv, NEW r \in Requests, charge[r] # period, owed' = owed,
         charge' = [charge EXCEPT ![r] = 0], period' = period
  PROVE  ReceiptInv'
<1>1. charge \in [Requests -> Nat] /\ period \in Nat \ {0}
  BY DEF IndInv, TypeOK
<1>2. Charged' = Charged
  BY <1>1 DEF Charged
<1>3. \A q \in Requests : charge'[q] <= period'
  BY <1>1 DEF ReceiptInv
<1> QED
  BY <1>2, <1>3 DEF ReceiptInv, Receipts

\* A new period starts with an empty ruler.
LEMMA NewPeriod ==
  ASSUME IndInv, ReceiptInv, owed' = 0, charge' = charge, period' = period + 1
  PROVE  ReceiptInv'
<1>1. charge \in [Requests -> Nat] /\ period \in Nat \ {0}
  BY DEF IndInv, TypeOK
<1>2. \A q \in Requests : charge'[q] <= period' /\ charge'[q] # period'
  BY <1>1 DEF ReceiptInv
<1>3. Charged' = {}
  BY <1>2 DEF Charged
<1>4. [q \in Requests |-> 0] \in [Requests -> Nat]
  OBVIOUS
<1>5. (\E at \in [Requests -> Nat] : Receipts(at))'
  BY <1>3, <1>4 DEF Receipts
<1> QED
  BY <1>2, <1>5 DEF ReceiptInv

\* Only the deduction, the addition, the release, the deletion of the row and
\* midnight touch the account.
LEMMA AccountSteps ==
  ASSUME [Next]_vars
  PROVE  \/ UNCHANGED <<charge, period, owed>>
         \/ \E r \in Requests : DeductWrite(r) \/ Add(r) \/ Release(r)
         \/ DeletePolicy \/ Midnight
  BY DEF Next, RequestStep, LoadTransfer, LoadApprove, LoadCall, LimitCall, Enter,
         DeductNothing, DeductExceeded, DeductFault, SendSucceeds, SendFails, EditRead,
         EditSave, Crash, vars

\* The charges of the period stay laid out.
LEMMA ReceiptsPreserved ==
  ASSUME IndInv, ReceiptInv, [Next]_vars
  PROVE  ReceiptInv'
<1>1. CASE UNCHANGED <<charge, period, owed>>
  BY <1>1 DEF ReceiptInv, Receipts, Charged
<1>2. ASSUME NEW r \in Requests, DeductWrite(r) \/ Add(r)
      PROVE  ReceiptInv'
  <2>1. period' = period /\ (\/ UNCHANGED <<charge, owed>>
                             \/ owed' = owed + Amount[r] /\ charge' = [charge EXCEPT ![r] = period])
    BY <1>2 DEF DeductWrite, Add
  <2> QED
    BY <1>1, <2>1, LayDown
<1>3. ASSUME NEW r \in Requests, Release(r)
      PROVE  ReceiptInv'
  <2>1. /\ period' = period
        /\ owed' = IF charge[r] = period /\ ~sent[r] THEN owed - Amount[r] ELSE owed
        /\ charge' = [charge EXCEPT ![r] = IF sent[r] THEN @ ELSE 0]
    BY <1>3 DEF Release
  <2>2. charge \in [Requests -> Nat]
    BY DEF IndInv, TypeOK
  <2>3. CASE sent[r]
    BY <1>1, <2>1, <2>2, <2>3
  <2>4. CASE ~sent[r] /\ charge[r] = period
    BY <2>1, <2>4, TakeUp DEF Charged
  <2>5. CASE ~sent[r] /\ charge[r] # period
    BY <2>1, <2>5, DropOld
  <2> QED
    BY <2>3, <2>4, <2>5
<1>4. CASE DeletePolicy \/ Midnight
  BY <1>4, NewPeriod DEF DeletePolicy, Midnight
<1> QED
  BY <1>1, <1>2, <1>3, <1>4, AccountSteps

\* A write under the mutex adds to the counter what it adds to the account.
LEMMA ExactWrite ==
  ASSUME IndInv, SpendExact, NEW r \in Requests, DeductWrite(r) \/ Add(r),
         raced' \subseteq {"skipped"}
  PROVE  owed' = Effective(policy)'
<1>1. today' = today /\ raced \subseteq raced'
  BY DEF DeductWrite, Add
<1>2. owed = Effective(policy) /\ raced \cap Undercounting = {}
  BY <1>1 DEF SpendExact
<1>3. CASE UNCHANGED <<policy, owed>>
  BY <1>1, <1>2, <1>3
<1>4. CASE RowIsSnap(r) /\ owed' = owed + Amount[r]
           /\ WriteSpent(Effective(snap[r]) + Amount[r], today)
  <2>1. /\ policy \in Row /\ snap[r] \in Row /\ Amount[r] \in Nat \ {0} /\ today \in Nat
        /\ owed \in Int
    BY <1>4, DailySpendAssumption DEF IndInv, TypeOK
  <2>2. Effective(snap[r]) = Effective(policy)
    BY <1>2, <1>4 DEF IndInv, SnapInv
  <2> DEFINE n == Effective(snap[r]) + Amount[r]
  <2>3. n \in Nat /\ owed' = n
    BY <1>2, <1>4, <2>1, <2>2
  <2>4. policy' \in Row /\ policy'.spent = n /\ policy'.day = today
    BY <1>4, <2>1, <2>3, SpentUpdate DEF WriteSpent
  <2> HIDE DEF n
  <2> QED
    BY <1>1, <2>1, <2>3, <2>4, DailySpendAssumption
<1> QED
  BY <1>3, <1>4 DEF DeductWrite, Add

\* A release that raced with nothing finds its whole amount in the counter.
LEMMA ExactRelease ==
  ASSUME IndInv, ReceiptInv, SpendExact, NEW r \in Requests, Release(r),
         raced' \subseteq {"skipped"}
  PROVE  owed' = Effective(policy)'
<1> DEFINE n == IF snap[r].spent > Amount[r] THEN snap[r].spent - Amount[r] ELSE 0
           applies == snap[r] # None /\ snap[r].day >= today /\ RowIsSnap(r)
           settled == charge[r] = period /\ ~sent[r]
<1>1. raced \cap Undercounting = {} /\ today' = today /\ owed = Effective(policy)
  BY DEF Release, SpendExact
<1>2. \/ applies /\ settled /\ policy' = [policy EXCEPT !.spent = n]
      \/ ~settled /\ policy' = policy
  BY DEF Release
<1>3. owed' = IF settled THEN owed - Amount[r] ELSE owed
  BY DEF Release
<1>4. CASE ~settled /\ policy' = policy
  BY <1>1, <1>3, <1>4
<1>5. CASE applies /\ settled /\ policy' = [policy EXCEPT !.spent = n]
  <2>1. /\ policy \in Row /\ snap[r] \in Row /\ Amount[r] \in Nat \ {0} /\ today \in Nat
        /\ owed \in Int
    BY <1>5, DailySpendAssumption DEF IndInv, TypeOK
  <2>2. Effective(snap[r]) = Effective(policy) /\ snap[r].day = today
    <3>1. Effective(snap[r]) = Effective(policy)
      BY <1>1, <1>5 DEF IndInv, SnapInv
    <3>2. snap[r].day >= today /\ snap[r].day <= today
      BY <1>5 DEF IndInv, RowInv
    <3> QED
      BY <2>1, <3>1, <3>2
  <2>3. Amount[r] <= owed
    <3>1. PICK at \in [Requests -> Nat] : Receipts(at)
      BY DEF ReceiptInv
    <3>2. at[r] + Amount[r] <= owed /\ at[r] \in Nat
      BY <1>5, <3>1 DEF Receipts, Charged
    <3> QED
      BY <2>1, <3>2
  <2>4. snap[r].spent = owed
    BY <1>1, <2>1, <2>2, DailySpendAssumption
  <2>5. n = owed - Amount[r] /\ n \in Nat /\ Effective(policy) > 0
    BY <1>1, <2>1, <2>3, <2>4
  <2>6. policy.day >= today
    BY <2>1, <2>5, DailySpendAssumption
  <2>7. policy' \in Row /\ policy'.spent = n /\ policy'.day = policy.day
    BY <1>5, <2>1, <2>5, ReleaseUpdate
  <2> HIDE DEF n
  <2> QED
    BY <1>1, <1>3, <1>5, <2>1, <2>5, <2>6, <2>7, DailySpendAssumption
<1> QED
  BY <1>2, <1>4, <1>5

\* Races are never taken back.
LEMMA RacesStay == [Next]_vars => raced \subseteq raced'
<1> SUFFICES ASSUME [Next]_vars PROVE raced \subseteq raced'
  OBVIOUS
<1>1. ASSUME NEW r \in Requests, RequestStep(r)
      PROVE  raced \subseteq raced'
  <2>1. CASE LoadTransfer(r) \/ LoadApprove(r) \/ LoadCall(r) \/ LimitCall(r) \/ Enter(r)
    BY <2>1 DEF LoadTransfer, LoadApprove, LoadCall, LimitCall, Enter
  <2>2. CASE DeductNothing(r) \/ DeductExceeded(r) \/ DeductWrite(r) \/ DeductFault(r)
    BY <2>2 DEF DeductNothing, DeductExceeded, DeductWrite, DeductFault
  <2>3. CASE Release(r)
    BY <2>3 DEF Release
  <2>4. CASE Add(r) \/ SendSucceeds(r) \/ SendFails(r)
    BY <2>4 DEF Add, SendSucceeds, SendFails
  <2> QED
    BY <1>1, <2>1, <2>2, <2>3, <2>4 DEF RequestStep
<1>2. ASSUME NEW e \in Editors, EditRead(e) \/ EditSave(e)
      PROVE  raced \subseteq raced'
  BY <1>2 DEF EditRead, EditSave
<1>3. CASE DeletePolicy \/ Midnight \/ Crash
  BY <1>3 DEF DeletePolicy, Midnight, Crash
<1>4. CASE UNCHANGED vars
  BY <1>4 DEF vars
<1> QED
  BY <1>1, <1>2, <1>3, <1>4 DEF Next

\* Edits that are not stale, midnight and deletions keep the counter exact too.
LEMMA ExactPreserved ==
  ASSUME IndInv, ReceiptInv, SpendExact, [Next]_vars
  PROVE  SpendExact'
<1>1. SUFFICES ASSUME raced' \subseteq {"skipped"} PROVE owed' = Effective(policy)'
  BY DEF SpendExact
<1>2. raced \subseteq {"skipped"} /\ owed = Effective(policy)
  BY <1>1, RacesStay DEF SpendExact
<1>3. CASE UNCHANGED <<policy, today, owed>>
  BY <1>2, <1>3
<1>4. ASSUME NEW r \in Requests, RequestStep(r)
      PROVE  owed' = Effective(policy)'
  <2>1. CASE DeductWrite(r) \/ Add(r)
    BY <1>1, <2>1, ExactWrite
  <2>2. CASE Release(r)
    BY <1>1, <2>2, ExactRelease
  <2> QED
    BY <1>3, <1>4, <2>1, <2>2
    DEF RequestStep, LoadTransfer, LoadApprove, LoadCall, LimitCall, Enter, DeductNothing,
        DeductExceeded, DeductFault, SendSucceeds, SendFails
<1>5. ASSUME NEW e \in Editors, EditSave(e)
      PROVE  owed' = Effective(policy)'
  <2>1. today' = today /\ owed' = owed
    BY <1>5 DEF EditSave
  <2>2. CASE policy' = Edited(e) /\ Race(IF policy = None \/ Effective(Edited(e)) # Effective(policy)
                                         THEN {"stale_save"} ELSE {})
    <3>1. Effective(Edited(e)) = Effective(policy)
      BY <1>1, <2>2
    <3>2. Effective(policy)' = Effective(Edited(e))
      BY <2>1, <2>2
    <3> QED
      BY <1>2, <2>1, <3>1, <3>2
  <2>3. CASE policy = None /\ policy' = NewRow(rows + 1, eset[e])
    BY <1>2, <2>1, <2>3 DEF NewRow
  <2>4. CASE policy' = policy
    BY <1>3, <2>1, <2>4
  <2> QED
    BY <1>5, <2>2, <2>3, <2>4 DEF EditSave
<1>6. CASE DeletePolicy
  BY <1>6 DEF DeletePolicy
<1>7. CASE Midnight
  BY <1>7 DEF IndInv, TypeOK, RowInv, Midnight
<1> QED
  BY <1>3, <1>4, <1>5, <1>6, <1>7 DEF Next, EditRead, Crash, vars

\* For any number of requests and editors and any amounts, the counter is
\* exactly what the requests of the day were charged and have not been given
\* back, unless a race disturbed the counter or a roll-back was lost.
THEOREM CounterIsExact == Spec => []SpendExact
<1>1. Init => ReceiptInv /\ SpendExact
  <2> SUFFICES ASSUME Init PROVE ReceiptInv /\ SpendExact
    OBVIOUS
  <2>1. Charged = {}
    BY DEF Init, Charged
  <2>2. [q \in Requests |-> 0] \in [Requests -> Nat]
    OBVIOUS
  <2>3. ReceiptInv
    BY <2>1, <2>2 DEF Init, ReceiptInv, Receipts
  <2>4. SpendExact
    BY DEF Init, SpendExact, NewRow
  <2> QED
    BY <2>3, <2>4
<1>2. IndInv /\ ReceiptInv /\ SpendExact /\ [Next]_vars => ReceiptInv' /\ SpendExact'
  BY ReceiptsPreserved, ExactPreserved
<1> QED
  BY <1>1, <1>2, Invariance, PTL DEF Spec
=============================================================================
