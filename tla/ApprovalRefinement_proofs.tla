---------------------- MODULE ApprovalRefinement_proofs ----------------------
(***************************************************************************)
(* Every behaviour of ApprovalLifecycle is, through the mapping of         *)
(* ApprovalRefinement, a behaviour of OneShotPermit, for any approvals,    *)
(* requests and numbers of faults and crashes.                             *)
(*                                                                         *)
(* The re-check is the claim; the operation's effect is the use; the       *)
(* status write, or a return that leaves the approval pending, lets go of  *)
(* it; a failed count of the sweep copies the permit.  EffectExclusion     *)
(* bounds the claims by the copies, EffectInv says that who may still act, *)
(* or lets go without a verdict, has nothing to hide.                      *)
(***************************************************************************)
EXTENDS ApprovalRefinement, ApprovalLifecycle_proofs

USE DEF rowVars, logVars, muVars, reqVars, sweepVars, histVars,
        Resolved, Statuses, Working, Acting, Unsaved, Critical, Holding, PCs,
        Goto, Stay, Return, WriteStatus, RowExists, DBFault

-----------------------------------------------------------------------------
(* What a step does to the mapped variables.                               *)

\* The counts the mapping is made of.
LEMMA BarTypes ==
  ASSUME IndInv, NEW a \in Approvals
  PROVE  /\ claimsBar[a] = Cardinality(On(a, Critical)) /\ claimsBar[a] \in Nat
         /\ claimsBar'[a] = Cardinality(On(a, Critical)') /\ claimsBar'[a] \in Nat
         /\ copiesBar[a] = Cardinality(dropped[a]) /\ copiesBar[a] \in Nat
         /\ effects[a] \in Nat /\ lost[a] \in Nat
<1>1. effects[a] \in Nat /\ lost[a] \in Nat
  BY DEF IndInv, TypeOK
<1>2. /\ claimsBar[a] = Cardinality(On(a, Critical))
      /\ claimsBar'[a] = Cardinality(On(a, Critical)')
      /\ copiesBar[a] = Cardinality(dropped[a])
  BY DEF claimsBar, copiesBar
<1>3. TypeOK
  BY DEF IndInv
<1> HIDE DEF Critical
<1>4. Cardinality(On(a, Critical)) \in Nat /\ Cardinality(On(a, Critical)') \in Nat
  BY OnFinite
<1> QED
  BY <1>1, <1>2, <1>3, <1>4, DroppedFinite

\* A step of one request within, or outside, its critical section.
LEMMA ClaimKept ==
  ASSUME IndInv, NEW h \in Handlers, NEW label, Goto(h, label), target' = target,
         pc[h] \in Critical <=> label \in Critical
  PROVE  claimsBar' = claimsBar
<1>1. TypeOK
  BY DEF IndInv
<1>2. \A a \in Approvals : On(a, Critical)' = On(a, Critical)
  <2> HIDE DEF Critical, Goto
  <2> QED
    BY <1>1, Moves
<1> QED
  BY <1>2 DEF claimsBar

\* Entering and leaving the critical section change the number of claims.
LEMMA ClaimMoves ==
  ASSUME IndInv, NEW h \in Handlers, NEW label, Goto(h, label), target' = target,
         target[h] \in Approvals
  PROVE  /\ pc[h] \in Critical /\ label \notin Critical =>
              claimsBar' = [claimsBar EXCEPT ![target[h]] = @ - 1]
         /\ pc[h] \notin Critical /\ label \in Critical =>
              claimsBar' = [claimsBar EXCEPT ![target[h]] = @ + 1]
<1>1. TypeOK
  BY DEF IndInv
<1> HIDE DEF Critical, Goto
<1>2. ASSUME pc[h] \in Critical, label \notin Critical
      PROVE  claimsBar' = [claimsBar EXCEPT ![target[h]] = @ - 1]
  <2>1. \A a \in Approvals : IF a = target[h]
          THEN Cardinality(On(a, Critical)') = Cardinality(On(a, Critical)) - 1
          ELSE On(a, Critical)' = On(a, Critical)
    BY <1>1, <1>2, Moves
  <2> QED
    BY <2>1 DEF claimsBar
<1>3. ASSUME pc[h] \notin Critical, label \in Critical
      PROVE  claimsBar' = [claimsBar EXCEPT ![target[h]] = @ + 1]
  <2>1. \A a \in Approvals : IF a = target[h]
          THEN Cardinality(On(a, Critical)') = Cardinality(On(a, Critical)) + 1
          ELSE On(a, Critical)' = On(a, Critical)
    BY <1>1, <1>3, Moves
  <2> QED
    BY <2>1 DEF claimsBar
<1> QED
  BY <1>2, <1>3

\* A request past the re-check has a claim, and one that may still act leaves
\* room for its use.
LEMMA ClaimHeld ==
  ASSUME IndInv, NEW h \in Handlers, pc[h] \in Critical
  PROVE  /\ target[h] \in Approvals /\ status[target[h]] # "none"
         /\ claimsBar[target[h]] > 0
         /\ pc[h] \in Acting =>
              /\ effects[target[h]] <= lost[target[h]] + copiesBar[target[h]]
              /\ status[target[h]] = "pending" =>
                   effects[target[h]] <= lost[target[h]] + (claimsBar[target[h]] - 1)
<1>1. target[h] \in Approvals /\ status[target[h]] # "none"
  BY DEF IndInv, TargetInv
<1> DEFINE a == target[h]
<1>2. h \in On(a, Critical) /\ (pc[h] \in Acting => h \in On(a, Acting))
  BY DEF On
<1> HIDE DEF Critical, Acting, Unsaved
<1>3. Cardinality(On(a, Critical)) # 0
  BY <1>2, OnFinite, FS_EmptySet
<1>4. claimsBar[a] > 0
  BY <1>1, <1>3, BarTypes
<1>5. ASSUME pc[h] \in Acting
      PROVE  /\ effects[a] <= lost[a] + copiesBar[a]
             /\ status[a] = "pending" => effects[a] <= lost[a] + (claimsBar[a] - 1)
  <2>1. Cardinality(On(a, Acting)) # 0
    BY <1>2, <1>5, OnFinite, FS_EmptySet
  <2>2. Cardinality(On(a, Critical)) = Cardinality(On(a, Acting)) + Cardinality(On(a, Unsaved))
    BY CriticalSplits
  <2>3. Cardinality(On(a, Acting)) \in Nat /\ Cardinality(On(a, Unsaved)) \in Nat
    BY OnFinite
  <2>4. /\ status[a] = "pending" => effects[a] <= lost[a] + Cardinality(On(a, Unsaved))
        /\ effects[a] + Cardinality(On(a, Acting)) <= 1 + lost[a] + Cardinality(dropped[a])
    BY <1>1 DEF IndInv, EffectInv
  <2> QED
    BY <1>1, <2>1, <2>2, <2>3, <2>4, BarTypes
<1> QED
  BY <1>1, <1>4, <1>5

\* Any status write on an inserted row settles the permit; on a deleted row it
\* was settled before.
LEMMA RowSettled ==
  ASSUME IndInv, NEW a \in Approvals, status[a] # "none", NEW s \in Resolved \cup {"expired"},
         WriteStatus(a, s)
  PROVE  rowBar' = [rowBar EXCEPT ![a] = "settled"]
  BY DEF IndInv, TypeOK, rowBar, RowOf

\* No row written, no permit changed.
LEMMA RowKept == ASSUME status' = status PROVE rowBar' = rowBar
  BY DEF rowBar

-----------------------------------------------------------------------------
(* The actions of requests.                                                *)

\* The re-check claims a pending permit of which a copy is free.
LEMMA RecheckRefines ==
  ASSUME IndInv, IndInv', NEW h \in Handlers, Recheck(h)
  PROVE  Permit!Next \/ UNCHANGED Permit!vars
<1>1. /\ target[h] \in Approvals /\ rowBar' = rowBar /\ effects' = effects /\ lost' = lost
      /\ target' = target /\ dropped' = dropped /\ copiesBar' = copiesBar
  BY RowKept DEF IndInv, TypeOK, TargetInv, Recheck, copiesBar
<1>2. CASE status[target[h]] = "pending" /\ Goto(h, "checked")
  <2>1. claimsBar' = [claimsBar EXCEPT ![target[h]] = @ + 1]
    BY <1>1, <1>2, ClaimMoves DEF Recheck
  <2>2. rowBar[target[h]] = "pending"
    BY <1>1, <1>2 DEF rowBar, RowOf
  <2>3. claimsBar[target[h]] <= copiesBar[target[h]]
    <3> DEFINE t == target[h]
    <3>1. claimsBar'[t] = claimsBar[t] + 1
      BY <1>1, <2>1 DEF claimsBar
    <3>2. Cardinality(On(t, Critical)') <= 1 + Cardinality(dropped[t])
      BY <1>1 DEF IndInv, EffectExclusion
    <3> QED
      BY <1>1, <3>1, <3>2, BarTypes
  <2> QED
    BY <1>1, <2>1, <2>2, <2>3 DEF Permit!Next, Permit!Claim
<1>3. CASE Goto(h, "done")
  <2>1. claimsBar' = claimsBar
    BY <1>3, ClaimKept DEF Recheck
  <2> QED
    BY <1>1, <2>1 DEF Permit!vars
<1> QED
  BY <1>2, <1>3 DEF Recheck

\* A request that lets go of the permit as it found it: it has not used it.
LEMMA ReturnRefines ==
  ASSUME IndInv, NEW h \in Handlers, pc[h] \in Acting, NEW label, Goto(h, label),
         label \notin Critical, target' = target, status' = status, effects' = effects,
         lost' = lost, dropped' = dropped
  PROVE  Permit!Next
<1>1. /\ target[h] \in Approvals /\ claimsBar[target[h]] > 0
      /\ status[target[h]] = "pending" =>
           effects[target[h]] <= lost[target[h]] + (claimsBar[target[h]] - 1)
  BY ClaimHeld
<1>2. claimsBar' = [claimsBar EXCEPT ![target[h]] = @ - 1]
  BY <1>1, ClaimMoves
<1>3. claimsBar'[target[h]] = claimsBar[target[h]] - 1
  BY <1>1, <1>2 DEF claimsBar
<1>4. rowBar[target[h]] = "pending" => status[target[h]] = "pending"
  BY <1>1 DEF rowBar, RowOf
<1>5. rowBar' = rowBar /\ copiesBar' = copiesBar
  BY RowKept DEF copiesBar
<1>6. Permit!Finish(target[h])
  BY <1>1, <1>2, <1>3, <1>4, <1>5 DEF Permit!Finish
<1> QED
  BY <1>1, <1>6 DEF Permit!Next

\* A request that lets go of the permit with a status written.
LEMMA VerdictRefines ==
  ASSUME IndInv, NEW h \in Handlers, pc[h] \in Critical, NEW label, Goto(h, label),
         label \notin Critical, target' = target, NEW s \in Resolved \cup {"expired"},
         WriteStatus(target[h], s), effects' = effects, lost' = lost, dropped' = dropped
  PROVE  Permit!Next
<1>1. /\ target[h] \in Approvals /\ claimsBar[target[h]] > 0
      /\ status[target[h]] # "none"
  BY ClaimHeld
<1>2. claimsBar' = [claimsBar EXCEPT ![target[h]] = @ - 1]
  BY <1>1, ClaimMoves
<1>3. rowBar' = [rowBar EXCEPT ![target[h]] = "settled"] /\ copiesBar' = copiesBar
  BY <1>1, RowSettled DEF copiesBar
<1>4. Permit!Finish(target[h])
  BY <1>1, <1>2, <1>3 DEF Permit!Finish
<1> QED
  BY <1>1, <1>4 DEF Permit!Next

\* A request whose status write was refused: the record of the use is lost.
LEMMA LossRefines ==
  ASSUME IndInv, NEW h \in Handlers, pc[h] \in Critical, NEW label, Goto(h, label),
         label \notin Critical, target' = target, status' = status, effects' = effects,
         lost' = [lost EXCEPT ![target[h]] = @ + 1], dropped' = dropped
  PROVE  Permit!Next
<1>1. target[h] \in Approvals /\ claimsBar[target[h]] > 0
  BY ClaimHeld
<1>2. claimsBar' = [claimsBar EXCEPT ![target[h]] = @ - 1]
  BY <1>1, ClaimMoves
<1>3. rowBar' = rowBar /\ copiesBar' = copiesBar
  BY RowKept DEF copiesBar
<1>4. Permit!Forget(target[h])
  BY <1>1, <1>2, <1>3 DEF Permit!Forget
<1> QED
  BY <1>1, <1>4 DEF Permit!Next

\* Carrying the operation out uses the permit: losses and copies leave room.
LEMMA UseRefines ==
  ASSUME IndInv, NEW h \in Handlers, pc[h] \in Working, NEW label \in Critical, Goto(h, label),
         target' = target, status' = status, lost' = lost, dropped' = dropped,
         effects' = [effects EXCEPT ![target[h]] = @ + 1]
  PROVE  Permit!Next
<1>1. /\ target[h] \in Approvals /\ claimsBar[target[h]] > 0
      /\ effects[target[h]] <= lost[target[h]] + copiesBar[target[h]]
  BY ClaimHeld
<1>2. claimsBar' = claimsBar /\ rowBar' = rowBar /\ copiesBar' = copiesBar
  BY ClaimKept, RowKept DEF copiesBar
<1>3. Permit!Use(target[h])
  BY <1>1, <1>2 DEF Permit!Use
<1> QED
  BY <1>1, <1>3 DEF Permit!Next

\* Everything else a request does is invisible.
LEMMA StutterRefines ==
  ASSUME IndInv, NEW h \in Handlers, NEW label, Goto(h, label), target' = target,
         pc[h] \in Critical <=> label \in Critical,
         status' = status, effects' = effects, lost' = lost, dropped' = dropped
  PROVE  UNCHANGED Permit!vars
  BY ClaimKept, RowKept DEF Permit!vars, copiesBar

\* GetApproval's expiry settles a pending permit and is invisible on others.
LEMMA GetExpireRefines ==
  ASSUME IndInv, NEW h \in Handlers, GetExpire(h)
  PROVE  Permit!Next \/ UNCHANGED Permit!vars
<1>1. /\ target[h] \in Approvals /\ status[target[h]] # "none"
      /\ effects' = effects /\ lost' = lost /\ copiesBar' = copiesBar
  BY DEF IndInv, TypeOK, TargetInv, GetExpire, copiesBar
<1>2. claimsBar' = claimsBar
  BY ClaimKept DEF GetExpire
<1>3. CASE status' = status \/ status[target[h]] # "pending"
  <2>1. rowBar' = rowBar
    BY <1>1, <1>3 DEF IndInv, TypeOK, rowBar, RowOf, GetExpire
  <2> QED
    BY <1>1, <1>2, <2>1 DEF Permit!vars
<1>4. CASE status' # status /\ status[target[h]] = "pending"
  <2>1. rowBar' = [a \in Approvals |-> IF a \in {target[h]} THEN "settled" ELSE rowBar[a]]
    BY <1>1, <1>4 DEF IndInv, TypeOK, rowBar, RowOf, GetExpire
  <2>2. \A a \in {target[h]} : rowBar[a] = "pending"
    BY <1>1, <1>4 DEF rowBar, RowOf
  <2>3. Permit!Settle({target[h]})
    BY <1>1, <1>2, <2>1, <2>2 DEF Permit!Settle
  <2> QED
    BY <1>1, <2>3 DEF Permit!Next
<1> QED
  BY <1>3, <1>4

\* One request's step is a step of the permit, or none.
LEMMA HandlerRefines ==
  ASSUME IndInv, IndInv', NEW h \in Handlers, HandlerStep(h)
  PROVE  Permit!Next \/ UNCHANGED Permit!vars
<1>1. CASE LoadOrStore(h) \/ Lock(h) \/ ApproveSign(h) \/ Settle(h)
  BY <1>1, StutterRefines DEF LoadOrStore, Lock, ApproveSign, Settle
<1>2. CASE Recheck(h)
  BY <1>2, RecheckRefines
<1>3. CASE ApproveExpiry(h)
  BY <1>3, StutterRefines, VerdictRefines, ReturnRefines DEF ApproveExpiry
<1>4. CASE RejectWrite(h)
  BY <1>4, VerdictRefines, ReturnRefines DEF RejectWrite
<1>5. CASE ApproveApply(h)
  BY <1>5, UseRefines, StutterRefines, ReturnRefines DEF ApproveApply
<1>6. CASE ApproveBuild(h)
  BY <1>6, StutterRefines, ReturnRefines DEF ApproveBuild
<1>7. CASE ApproveBudget(h)
  BY <1>7, StutterRefines, ReturnRefines DEF ApproveBudget
<1>8. CASE ApproveBroadcast(h)
  BY <1>8, UseRefines, StutterRefines DEF ApproveBroadcast
<1>9. CASE ApproveFail(h)
  BY <1>9, VerdictRefines, LossRefines DEF ApproveFail
<1>10. CASE ApproveCommit(h)
  BY <1>10, VerdictRefines, LossRefines DEF ApproveCommit
<1>11. CASE GetExpire(h)
  BY <1>11, GetExpireRefines
<1> QED
  BY <1>1, <1>2, <1>3, <1>4, <1>5, <1>6, <1>7, <1>8, <1>9, <1>10, <1>11 DEF HandlerStep

-----------------------------------------------------------------------------
(* The other actions.                                                      *)

\* The row is inserted: the permit is issued.
LEMMA CreateRowRefines ==
  ASSUME IndInv, NEW a \in Approvals, CreateRow(a)
  PROVE  Permit!Next
<1>1. rowBar[a] = "none" /\ rowBar' = [rowBar EXCEPT ![a] = "pending"]
  BY DEF IndInv, TypeOK, rowBar, RowOf, CreateRow
<1>2. /\ claimsBar' = claimsBar /\ effects' = effects /\ lost' = lost
      /\ copiesBar' = copiesBar
  BY DEF claimsBar, copiesBar, On, CreateRow
<1> QED
  BY <1>1, <1>2 DEF Permit!Next, Permit!Issue

\* A request arrives outside its critical section.
LEMMA StartRefines ==
  ASSUME IndInv, NEW h \in Handlers, NEW a \in Approvals,
         Start(h, a, "approve") \/ Start(h, a, "reject") \/ StartGet(h, a)
  PROVE  UNCHANGED Permit!vars
<1>1. rowBar' = rowBar /\ effects' = effects /\ lost' = lost /\ copiesBar' = copiesBar
  BY RowKept DEF Start, StartGet, copiesBar
<1>2. PICK label \in {"loaded", "got"} : Goto(h, label)
  BY DEF Start, StartGet
<1>3. pc[h] = "idle" /\ target' = [target EXCEPT ![h] = a]
  BY DEF Start, StartGet
<1>4. \A g \in Handlers : /\ pc'[g] \in Critical <=> pc[g] \in Critical
                          /\ pc[g] \in Critical => target'[g] = target[g]
  BY <1>2, <1>3 DEF IndInv, TypeOK
<1>5. claimsBar' = claimsBar
  BY <1>4 DEF claimsBar, On
<1> QED
  BY <1>1, <1>5 DEF Permit!vars

\* Statuses change for several rows at once, from pending to something settled.
LEMMA SettleManyRefines ==
  ASSUME IndInv, NEW S \in SUBSET Approvals, \A a \in S : status[a] = "pending",
         \A a \in Approvals : a \in S => status'[a] \notin {"none", "pending"},
         \A a \in Approvals : a \notin S => RowOf(status'[a]) = RowOf(status[a]),
         pc' = pc, target' = target, effects' = effects, lost' = lost, dropped' = dropped
  PROVE  Permit!Next
<1>1. \A a \in S : rowBar[a] = "pending"
  BY DEF rowBar, RowOf
<1>2. rowBar' = [a \in Approvals |-> IF a \in S THEN "settled" ELSE rowBar[a]]
  BY DEF rowBar, RowOf
<1>3. claimsBar' = claimsBar /\ copiesBar' = copiesBar
  BY DEF claimsBar, copiesBar, On
<1>4. Permit!Settle(S)
  BY <1>1, <1>2, <1>3 DEF Permit!Settle
<1> QED
  BY <1>4 DEF Permit!Next

\* A failed count copies the permit of a pending approval.
LEMMA CleanupVisitRefines ==
  ASSUME IndInv, NEW a \in Approvals, CleanupVisit(a)
  PROVE  Permit!Next \/ UNCHANGED Permit!vars
<1>1. rowBar' = rowBar /\ claimsBar' = claimsBar /\ effects' = effects /\ lost' = lost
  BY RowKept DEF CleanupVisit, claimsBar, On
<1>2. CASE dropped' = dropped
  BY <1>1, <1>2 DEF copiesBar, Permit!vars
<1>3. CASE dropped' # dropped
  <2>1. status[a] = "pending" /\ dropped' = [dropped EXCEPT ![a] = @ \cup {mutexOf[a]}]
    BY <1>3 DEF CleanupVisit
  <2>2. mutexOf[a] \notin dropped[a]
    BY <1>3, <2>1 DEF IndInv, TypeOK
  <2>3. Cardinality(dropped[a] \cup {mutexOf[a]}) = Cardinality(dropped[a]) + 1
    <3>1. IsFiniteSet(dropped[a])
      BY DroppedFinite DEF IndInv
    <3> QED
      BY <2>2, <3>1, FS_AddElement
  <2>4. copiesBar' = [copiesBar EXCEPT ![a] = @ + 1]
    BY <2>1, <2>3 DEF IndInv, TypeOK, copiesBar
  <2>5. rowBar[a] = "pending"
    BY <2>1 DEF rowBar, RowOf
  <2> QED
    BY <1>1, <2>4, <2>5 DEF Permit!Next, Permit!Copy
<1> QED
  BY <1>2, <1>3

\* A crash releases every claim; the uses whose record was still to be written
\* are the ones it loses.
LEMMA CrashRefines ==
  ASSUME IndInv, Crash
  PROVE  Permit!Next
<1>1. claimsBar' = [a \in Approvals |-> 0]
  <2>1. \A a \in Approvals : On(a, Critical)' = {}
    BY DEF On, Crash
  <2> QED
    BY <2>1, FS_EmptySet DEF claimsBar
<1>2. rowBar' = rowBar /\ effects' = effects /\ copiesBar' = copiesBar
  BY RowKept DEF Crash, copiesBar
<1>3. ASSUME NEW a \in Approvals
      PROVE  /\ lost[a] <= lost'[a] /\ lost'[a] <= lost[a] + claimsBar[a]
             /\ rowBar[a] = "pending" => effects[a] <= lost'[a]
  <2>1. lost'[a] = lost[a] + Cardinality(On(a, Unsaved))
    BY DEF Crash
  <2>2. status[a] = "pending" => effects[a] <= lost[a] + Cardinality(On(a, Unsaved))
    BY DEF IndInv, EffectInv
  <2>3. rowBar[a] = "pending" => status[a] = "pending"
    BY DEF rowBar, RowOf
  <2> HIDE DEF Critical, Acting, Unsaved
  <2>4. /\ Cardinality(On(a, Critical)) =
             Cardinality(On(a, Acting)) + Cardinality(On(a, Unsaved))
        /\ Cardinality(On(a, Acting)) \in Nat /\ Cardinality(On(a, Unsaved)) \in Nat
    BY CriticalSplits, OnFinite
  <2> QED
    BY <2>1, <2>2, <2>3, <2>4, BarTypes
<1>4. Permit!Restart
  BY <1>1, <1>2, <1>3 DEF Permit!Restart
<1> QED
  BY <1>4 DEF Permit!Next

\* Every step maps to a step or to none.
LEMMA StepRefines ==
  ASSUME IndInv, IndInv', [Next]_vars
  PROVE  [Permit!Next]_(Permit!vars)
<1>1. CASE UNCHANGED vars
  BY <1>1 DEF vars, Permit!vars, rowBar, claimsBar, copiesBar, On
<1>2. ASSUME NEW a \in Approvals, CreateRow(a) \/ CreateAudit(a) \/ Elapse(a)
      PROVE  Permit!Next \/ UNCHANGED Permit!vars
  <2>1. CASE CreateRow(a)
    BY <2>1, CreateRowRefines
  <2>2. CASE CreateAudit(a) \/ Elapse(a)
    BY <2>2 DEF CreateAudit, Elapse, Permit!vars, rowBar, claimsBar, copiesBar, On
  <2> QED
    BY <1>2, <2>1, <2>2
<1>3. CASE DeleteWallet
  <2> DEFINE S == {a \in Approvals : kind[a] \in WalletKinds /\ status[a] = "pending"}
  <2>1. \A a \in Approvals : a \in S => status'[a] \notin {"none", "pending"}
    BY <1>3 DEF DeleteWallet
  <2>2. \A a \in Approvals : a \notin S => RowOf(status'[a]) = RowOf(status[a])
    BY <1>3 DEF DeleteWallet, RowOf, IndInv, TypeOK
  <2>3. \A a \in S : status[a] = "pending"
    OBVIOUS
  <2>4. /\ pc' = pc /\ target' = target /\ effects' = effects /\ lost' = lost
        /\ dropped' = dropped
    BY <1>3 DEF DeleteWallet
  <2> HIDE DEF S
  <2>5. S \in SUBSET Approvals
    BY DEF S
  <2> QED
    BY <2>1, <2>2, <2>3, <2>4, <2>5, SettleManyRefines
<1>4. CASE ExpireTick
  <2> DEFINE S == {a \in Approvals : status[a] = "pending" /\ due[a] /\ status' # status}
  <2>1. \A a \in Approvals : a \in S => status'[a] \notin {"none", "pending"}
    BY <1>4 DEF ExpireTick
  <2>2. \A a \in Approvals : a \notin S => RowOf(status'[a]) = RowOf(status[a])
    BY <1>4 DEF ExpireTick, RowOf, IndInv, TypeOK
  <2>3. \A a \in S : status[a] = "pending"
    OBVIOUS
  <2>4. /\ pc' = pc /\ target' = target /\ effects' = effects /\ lost' = lost
        /\ dropped' = dropped
    BY <1>4 DEF ExpireTick
  <2> HIDE DEF S
  <2>5. S \in SUBSET Approvals
    BY DEF S
  <2> QED
    BY <2>1, <2>2, <2>3, <2>4, <2>5, SettleManyRefines
<1>5. CASE Sweep
  <2>1. CASE CleanupDelete
    BY <2>1 DEF CleanupDelete, Permit!vars, rowBar, claimsBar, copiesBar, On
  <2> QED
    BY <1>5, <2>1, CleanupVisitRefines DEF Sweep
<1> QED
  BY <1>1, <1>2, <1>3, <1>4, <1>5, StartRefines, HandlerRefines, CrashRefines DEF Next

\* No row, no request, no effect.
LEMMA InitRefines == Init => Permit!Init
<1> SUFFICES ASSUME Init
             PROVE  Permit!Init
  OBVIOUS
<1>1. \A a \in Approvals : On(a, Critical) = {} /\ dropped[a] = {} /\ RowOf(status[a]) = "none"
  BY DEF Init, On, RowOf
<1>2. /\ claimsBar = [a \in Approvals |-> 0] /\ copiesBar = [a \in Approvals |-> 0]
      /\ rowBar = [a \in Approvals |-> "none"]
  BY <1>1, FS_EmptySet DEF claimsBar, copiesBar, rowBar
<1> QED
  BY <1>2 DEF Init, Permit!Init

\* Approve, Reject, GetApproval, expireLoop with its sweep of approvalMu, wallet
\* deletion and crashes together implement a permit for one use, which a failed
\* count of the sweep copies.
THEOREM ImplementsOneShotPermit == Spec => ImplementsPermit
<1>1. IndInv /\ IndInv' /\ [Next]_vars => [Permit!Next]_(Permit!vars)
  BY StepRefines
<1>2. Spec => []IndInv
  BY Invariance
<1> QED
  BY <1>1, <1>2, InitRefines, PTL DEF Spec, ImplementsPermit, Permit!Spec
=============================================================================
