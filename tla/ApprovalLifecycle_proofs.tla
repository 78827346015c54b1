---------------------- MODULE ApprovalLifecycle_proofs ----------------------
(***************************************************************************)
(* IndInv is inductive for every set of approvals, kinds and handlers and  *)
(* every bound on faults and crashes; the safety properties follow.        *)
(*                                                                         *)
(* The heart of the argument is EnterStep: expireLoop may drop an          *)
(* approvalMu entry whose mutex is held, so several handlers can own       *)
(* different mutexes of one approval.  While the approval is pending each  *)
(* of these is the one in the map or one that a failed count dropped       *)
(* (LockInv), which bounds the handlers that the re-check lets in; and     *)
(* once it has left "pending", Recheck lets nobody in.                     *)
(***************************************************************************)
EXTENDS ApprovalLifecycle, FiniteSetTheorems, TLAPS

USE DEF rowVars, logVars, muVars, reqVars, sweepVars, histVars,
        Resolved, Statuses, Holding, PCs, Stay, Return, WriteStatus, RowExists, DBFault, AuditOf

-----------------------------------------------------------------------------
(* Counting the requests on an approval.                                   *)

\* There are finitely many requests.
LEMMA OnFinite ==
  ASSUME NEW a, NEW X
  PROVE  /\ IsFiniteSet(On(a, X)) /\ Cardinality(On(a, X)) \in Nat
         /\ IsFiniteSet(On(a, X)') /\ Cardinality(On(a, X)') \in Nat
<1>1. On(a, X) \in SUBSET Handlers /\ On(a, X)' \in SUBSET Handlers
  BY DEF On
<1>2. IsFiniteSet(On(a, X)) /\ IsFiniteSet(On(a, X)')
  BY <1>1, FS_Subset, ApprovalAssumption
<1> QED
  BY <1>2, FS_CardinalityType

\* So are the mutexes dropped from one.
LEMMA DroppedFinite ==
  ASSUME TypeOK, NEW a \in Approvals
  PROVE  IsFiniteSet(dropped[a]) /\ Cardinality(dropped[a]) \in Nat
<1>1. dropped[a] \in SUBSET Handlers
  BY DEF TypeOK
<1>2. IsFiniteSet(dropped[a])
  BY <1>1, FS_Subset, ApprovalAssumption
<1> QED
  BY <1>2, FS_CardinalityType

\* A request that moves changes only the counts of its own approval, by one.
LEMMA Moves ==
  ASSUME TypeOK, NEW h \in Handlers, NEW label, Goto(h, label), target' = target,
         NEW X, NEW a
  PROVE  /\ target[h] # a \/ (pc[h] \in X <=> label \in X) => On(a, X)' = On(a, X)
         /\ target[h] = a /\ pc[h] \notin X /\ label \in X =>
              Cardinality(On(a, X)') = Cardinality(On(a, X)) + 1
         /\ target[h] = a /\ pc[h] \in X /\ label \notin X =>
              Cardinality(On(a, X)') = Cardinality(On(a, X)) - 1
<1>1. \A g \in Handlers : pc'[g] = IF g = h THEN label ELSE pc[g]
  BY DEF TypeOK, Goto
<1>2. target[h] # a \/ (pc[h] \in X <=> label \in X) => On(a, X)' = On(a, X)
  BY <1>1 DEF On
<1>3. ASSUME target[h] = a, pc[h] \notin X, label \in X
      PROVE  Cardinality(On(a, X)') = Cardinality(On(a, X)) + 1
  <2>1. On(a, X)' = On(a, X) \cup {h} /\ h \notin On(a, X)
    BY <1>1, <1>3 DEF On
  <2> QED
    BY <2>1, OnFinite, FS_AddElement
<1>4. ASSUME target[h] = a, pc[h] \in X, label \notin X
      PROVE  Cardinality(On(a, X)') = Cardinality(On(a, X)) - 1
  <2>1. On(a, X)' = On(a, X) \ {h} /\ h \in On(a, X)
    BY <1>1, <1>4 DEF On
  <2> QED
    BY <2>1, OnFinite, FS_RemoveElement
<1> QED
  BY <1>2, <1>3, <1>4

\* Past the re-check a request either may still act or has its result unsaved.
LEMMA CriticalSplits ==
  ASSUME NEW a
  PROVE  /\ Cardinality(On(a, Critical)) = Cardinality(On(a, Acting)) + Cardinality(On(a, Unsaved))
         /\ Cardinality(On(a, Critical)') =
              Cardinality(On(a, Acting)') + Cardinality(On(a, Unsaved)')
<1>1. /\ On(a, Critical) = On(a, Acting) \cup On(a, Unsaved)
      /\ On(a, Acting) \cap On(a, Unsaved) = {}
  BY DEF On, Critical, Acting, Working, Unsaved
<1>2. /\ On(a, Critical)' = On(a, Acting)' \cup On(a, Unsaved)'
      /\ On(a, Acting)' \cap On(a, Unsaved)' = {}
  BY DEF On, Critical, Acting, Working, Unsaved
<1>3. /\ IsFiniteSet(On(a, Acting)) /\ Cardinality(On(a, Acting)) \in Nat
      /\ IsFiniteSet(On(a, Acting)') /\ Cardinality(On(a, Acting)') \in Nat
  BY OnFinite
<1>4. Cardinality(On(a, Critical)) = Cardinality(On(a, Acting)) + Cardinality(On(a, Unsaved))
  <2>1. Cardinality(On(a, Acting) \cup On(a, Unsaved)) =
          Cardinality(On(a, Acting)) + Cardinality(On(a, Unsaved))
            - Cardinality(On(a, Acting) \cap On(a, Unsaved))
    BY OnFinite, FS_Union
  <2> QED
    BY <1>1, <1>3, <2>1, OnFinite, FS_EmptySet
<1>5. Cardinality(On(a, Critical)') =
        Cardinality(On(a, Acting)') + Cardinality(On(a, Unsaved)')
  <2>1. Cardinality(On(a, Acting)' \cup On(a, Unsaved)') =
          Cardinality(On(a, Acting)') + Cardinality(On(a, Unsaved)')
            - Cardinality(On(a, Acting)' \cap On(a, Unsaved)')
    BY OnFinite, FS_Union
  <2>2. Cardinality(On(a, Acting)' \cap On(a, Unsaved)') = 0
    BY <1>2, FS_EmptySet
  <2>3. Cardinality(On(a, Unsaved)') \in Nat
    BY OnFinite
  <2> QED
    BY <1>2, <1>3, <2>1, <2>2, <2>3
<1> QED
  BY <1>4, <1>5

\* While the approval is pending, the requests past the re-check own distinct
\* mutexes, each in the map or dropped.
LEMMA DistinctMutexes ==
  ASSUME TypeOK', LockInv', NEW a \in Approvals, status'[a] = "pending"
  PROVE  Cardinality(On(a, Critical)') <= 1 + Cardinality(dropped'[a])
<1> DEFINE S == On(a, Critical)'
           T == dropped'[a] \cup {mutexOf'[a]}
           f == [h \in S |-> mine'[h]]
<1>1. \A h \in S : mine'[h] \in T /\ holder'[mine'[h]] = h
  BY DEF On, LockInv
<1>2. f \in Injection(S, T)
  BY <1>1 DEF Injection, IsInjective
<1>3. dropped'[a] \in SUBSET Handlers
  BY DEF TypeOK
<1>4. IsFiniteSet(dropped'[a]) /\ Cardinality(dropped'[a]) \in Nat
  BY <1>3, FS_Subset, FS_CardinalityType, ApprovalAssumption
<1>5. IsFiniteSet(T) /\ Cardinality(T) <= 1 + Cardinality(dropped'[a])
  BY <1>4, FS_AddElement
<1> HIDE DEF T, f
<1>6. Cardinality(S) <= Cardinality(T)
  BY <1>2, <1>5, FS_Injection
<1>7. Cardinality(T) \in Nat
  BY <1>5, FS_CardinalityType
<1> QED
  BY <1>4, <1>5, <1>6, <1>7, OnFinite

-----------------------------------------------------------------------------
(* The counting part of the invariant, by kinds of steps.                  *)

CountInv == EffectExclusion /\ EffectInv /\ VerdictInv

\* No row becomes pending that was not, and none gets a verdict.
NoVerdict ==
  \A a \in Approvals :
    /\ status'[a] \in {"none", "pending"} => status[a] \in {"none", "pending"}
    /\ status'[a] \in Resolved => status'[a] = status[a]

\* Steps that move nobody into, within or out of the critical section.
LEMMA StillStep ==
  ASSUME IndInv, NoVerdict, effects' = effects, lost' = lost, dropped' = dropped,
         \A a \in Approvals : /\ On(a, Critical)' = On(a, Critical)
                              /\ On(a, Unsaved)' = On(a, Unsaved)
                              /\ On(a, Acting)' = On(a, Acting)
  PROVE  CountInv'
<1>1. EffectExclusion'
  BY DEF IndInv, EffectExclusion
<1>2. EffectInv'
  BY DEF IndInv, EffectInv, NoVerdict
<1>3. VerdictInv'
  BY DEF IndInv, VerdictInv, NoVerdict
<1> QED
  BY <1>1, <1>2, <1>3 DEF CountInv

\* A request goes on without carrying anything out, or gives up before it has
\* an unsaved result.
LEMMA QuietCount ==
  ASSUME IndInv, NEW h \in Handlers, NEW label \in PCs, Goto(h, label), target' = target,
         NoVerdict, effects' = effects, lost' = lost, dropped' = dropped,
         label \in Critical => pc[h] \in Critical,
         pc[h] \in Unsaved => label \in Unsaved
  PROVE  CountInv'
<1>0. label \in Acting => pc[h] \in Acting
  BY DEF Critical, Acting, Working, Unsaved
<1>1. \A a \in Approvals :
        /\ Cardinality(On(a, Critical)') \in Nat /\ Cardinality(On(a, Critical)) \in Nat
        /\ Cardinality(On(a, Unsaved)') \in Nat /\ Cardinality(On(a, Unsaved)) \in Nat
        /\ Cardinality(On(a, Acting)') \in Nat /\ Cardinality(On(a, Acting)) \in Nat
        /\ Cardinality(dropped[a]) \in Nat
  BY OnFinite, DroppedFinite DEF IndInv
<1>2. \A a \in Approvals :
        /\ Cardinality(On(a, Critical)') <= Cardinality(On(a, Critical))
        /\ Cardinality(On(a, Unsaved)') >= Cardinality(On(a, Unsaved))
        /\ Cardinality(On(a, Acting)') <= Cardinality(On(a, Acting))
  <2> SUFFICES ASSUME NEW a \in Approvals
               PROVE  /\ Cardinality(On(a, Critical)') <= Cardinality(On(a, Critical))
                      /\ Cardinality(On(a, Unsaved)') >= Cardinality(On(a, Unsaved))
                      /\ Cardinality(On(a, Acting)') <= Cardinality(On(a, Acting))
    OBVIOUS
  <2>1. Cardinality(On(a, Critical)') <= Cardinality(On(a, Critical))
    BY <1>0, <1>1, Moves DEF IndInv
  <2>2. Cardinality(On(a, Unsaved)') >= Cardinality(On(a, Unsaved))
    BY <1>0, <1>1, Moves DEF IndInv
  <2>3. Cardinality(On(a, Acting)') <= Cardinality(On(a, Acting))
    BY <1>0, <1>1, Moves DEF IndInv
  <2> QED
    BY <2>1, <2>2, <2>3
<1>3. EffectExclusion'
  BY <1>1, <1>2 DEF IndInv, EffectExclusion
<1>4. EffectInv'
  BY <1>1, <1>2 DEF IndInv, TypeOK, EffectInv, NoVerdict
<1>5. VerdictInv'
  <2>1. \A a \in Approvals : On(a, Critical) = {} => On(a, Critical)' = {}
    BY DEF On, IndInv, TypeOK, Goto
  <2> QED
    BY <2>1 DEF IndInv, VerdictInv, NoVerdict
<1> QED
  BY <1>3, <1>4, <1>5 DEF CountInv

\* A request carries the operation out; its result is unsaved.
LEMMA ActCount ==
  ASSUME IndInv, NEW h \in Handlers, NEW label \in Unsaved, Goto(h, label), target' = target,
         pc[h] \in Working, status' = status,
         effects' = [effects EXCEPT ![target[h]] = @ + 1], lost' = lost, dropped' = dropped
  PROVE  CountInv'
<1>0. /\ pc[h] # "idle" /\ pc[h] \in Critical /\ pc[h] \in Acting /\ pc[h] \notin Unsaved
      /\ label \in Critical /\ label \notin Acting
  BY DEF Critical, Acting, Working, Unsaved
<1>1. \A a \in Approvals :
        /\ Cardinality(On(a, Critical)) \in Nat
        /\ Cardinality(On(a, Unsaved)') \in Nat /\ Cardinality(On(a, Unsaved)) \in Nat
        /\ Cardinality(On(a, Acting)') \in Nat /\ Cardinality(On(a, Acting)) \in Nat
        /\ Cardinality(dropped[a]) \in Nat
  BY OnFinite, DroppedFinite DEF IndInv
<1>2. target[h] \in Approvals
  BY <1>0 DEF IndInv, TargetInv
<1>3. \A a \in Approvals : On(a, Critical)' = On(a, Critical)
  BY <1>0, Moves DEF IndInv
<1>4. \A a \in Approvals :
        IF a = target[h]
        THEN /\ Cardinality(On(a, Unsaved)') = Cardinality(On(a, Unsaved)) + 1
             /\ Cardinality(On(a, Acting)') = Cardinality(On(a, Acting)) - 1
        ELSE On(a, Unsaved)' = On(a, Unsaved) /\ On(a, Acting)' = On(a, Acting)
  <2> SUFFICES ASSUME NEW a \in Approvals
               PROVE  IF a = target[h]
                      THEN /\ Cardinality(On(a, Unsaved)') = Cardinality(On(a, Unsaved)) + 1
                           /\ Cardinality(On(a, Acting)') = Cardinality(On(a, Acting)) - 1
                      ELSE On(a, Unsaved)' = On(a, Unsaved) /\ On(a, Acting)' = On(a, Acting)
    OBVIOUS
  <2>1. IF a = target[h]
        THEN Cardinality(On(a, Unsaved)') = Cardinality(On(a, Unsaved)) + 1
        ELSE On(a, Unsaved)' = On(a, Unsaved)
    BY <1>0, Moves DEF IndInv
  <2>2. IF a = target[h]
        THEN Cardinality(On(a, Acting)') = Cardinality(On(a, Acting)) - 1
        ELSE On(a, Acting)' = On(a, Acting)
    BY <1>0, Moves DEF IndInv
  <2> QED
    BY <2>1, <2>2
<1>5. EffectExclusion'
  BY <1>3 DEF IndInv, EffectExclusion
<1>6. EffectInv'
  BY <1>1, <1>2, <1>4 DEF IndInv, TypeOK, EffectInv
<1>7. VerdictInv'
  <2>1. h \in On(target[h], Critical)
    BY <1>0 DEF On
  <2> QED
    BY <1>2, <1>3, <2>1 DEF IndInv, TypeOK, VerdictInv
<1> QED
  BY <1>5, <1>6, <1>7 DEF CountInv

\* A request writes its verdict: unless a count failed, it is the only one past
\* the re-check, and it rejects only what was not carried out.
LEMMA VerdictCount ==
  ASSUME IndInv, NEW h \in Handlers, NEW s \in Resolved, Goto(h, s), target' = target,
         pc[h] \in Critical, s = "rejected" => pc[h] = "checked",
         WriteStatus(target[h], s), effects' = effects, lost' = lost, dropped' = dropped
  PROVE  CountInv'
<1>0. /\ pc[h] # "idle" /\ s \notin Critical /\ s \notin Acting /\ s \notin Unsaved
      /\ pc[h] = "checked" => pc[h] \in Acting
  BY DEF Critical, Acting, Working, Unsaved
<1>1. \A a \in Approvals :
        /\ Cardinality(On(a, Critical)') \in Nat /\ Cardinality(On(a, Critical)) \in Nat
        /\ Cardinality(On(a, Unsaved)) \in Nat
        /\ Cardinality(On(a, Acting)') \in Nat /\ Cardinality(On(a, Acting)) \in Nat
        /\ Cardinality(dropped[a]) \in Nat
  BY OnFinite, DroppedFinite DEF IndInv
<1>2. /\ target[h] \in Approvals /\ h \in On(target[h], Critical)
      /\ \A a \in Approvals : a # target[h] => status'[a] = status[a]
      /\ status'[target[h]] = IF status[target[h]] = "deleted" THEN "deleted" ELSE s
  BY <1>0 DEF IndInv, TypeOK, TargetInv, On
<1>3. \A a \in Approvals : IF a = target[h]
        THEN Cardinality(On(a, Critical)') = Cardinality(On(a, Critical)) - 1
        ELSE On(a, Critical)' = On(a, Critical)
  BY <1>0, Moves DEF IndInv
<1>4. \A a \in Approvals : Cardinality(On(a, Acting)') <= Cardinality(On(a, Acting))
  BY <1>0, <1>1, Moves DEF IndInv
<1>5. \A a \in Approvals : a # target[h] => On(a, Unsaved)' = On(a, Unsaved)
  BY <1>0, Moves DEF IndInv
<1>6. EffectExclusion'
  BY <1>1, <1>3 DEF IndInv, EffectExclusion
<1>7. EffectInv'
  BY <1>1, <1>2, <1>4, <1>5 DEF IndInv, TypeOK, EffectInv
<1>8. VerdictInv'
  <2> SUFFICES ASSUME NEW a \in Approvals, dropped[a] = {}
               PROVE  /\ status'[a] \in Resolved => On(a, Critical)' = {}
                      /\ status'[a] = "rejected" => effects[a] <= lost[a]
    BY DEF VerdictInv
  <2>1. Cardinality(dropped[a]) = 0
    BY FS_EmptySet
  <2>2. CASE a # target[h]
    BY <1>2, <1>3, <2>2 DEF IndInv, VerdictInv
  <2>3. CASE a = target[h]
    <3>1. Cardinality(On(a, Critical)') = 0
      <4>1. Cardinality(On(a, Critical)) <= 1 + Cardinality(dropped[a])
        BY DEF IndInv, EffectExclusion
      <4> QED
        BY <1>1, <1>3, <2>1, <2>3, <4>1
    <3>2. On(a, Critical)' = {}
      BY <3>1, OnFinite, FS_EmptySet
    <3>3. ASSUME s = "rejected"
          PROVE  effects[a] <= lost[a]
      <4>1. On(a, Acting) # {}
        BY <1>0, <2>3, <3>3 DEF On
      <4>2. Cardinality(On(a, Acting)) # 0
        BY <4>1, OnFinite, FS_EmptySet
      <4> QED
        <5>1. effects[a] + Cardinality(On(a, Acting)) <= 1 + lost[a] + Cardinality(dropped[a])
          BY DEF IndInv, EffectInv
        <5>2. effects[a] \in Nat /\ lost[a] \in Nat
          BY DEF IndInv, TypeOK
        <5> QED
          BY <1>1, <2>1, <4>2, <5>1, <5>2
    <3> QED
      BY <1>2, <2>3, <3>2, <3>3
  <2> QED
    BY <2>2, <2>3
<1> QED
  BY <1>6, <1>7, <1>8 DEF CountInv

\* A request's status write is lost, and counted.
LEMMA LossCount ==
  ASSUME IndInv, NEW h \in Handlers, NEW label \in PCs \ Critical, Goto(h, label),
         target' = target, pc[h] \in Unsaved, status' = status,
         effects' = effects, lost' = [lost EXCEPT ![target[h]] = @ + 1], dropped' = dropped
  PROVE  CountInv'
<1>0. /\ pc[h] # "idle" /\ pc[h] \in Critical /\ pc[h] \notin Acting
      /\ label \notin Critical /\ label \notin Acting /\ label \notin Unsaved
  BY DEF Critical, Acting, Working, Unsaved
<1>1. \A a \in Approvals :
        /\ Cardinality(On(a, Critical)') \in Nat /\ Cardinality(On(a, Critical)) \in Nat
        /\ Cardinality(On(a, Unsaved)') \in Nat /\ Cardinality(On(a, Unsaved)) \in Nat
        /\ Cardinality(On(a, Acting)) \in Nat
        /\ Cardinality(dropped[a]) \in Nat
  BY OnFinite, DroppedFinite DEF IndInv
<1>2. target[h] \in Approvals
  BY <1>0 DEF IndInv, TargetInv
<1>3. \A a \in Approvals : On(a, Acting)' = On(a, Acting)
  BY <1>0, Moves DEF IndInv
<1>4. \A a \in Approvals : IF a = target[h]
        THEN Cardinality(On(a, Critical)') = Cardinality(On(a, Critical)) - 1
        ELSE On(a, Critical)' = On(a, Critical)
  BY <1>0, Moves DEF IndInv
<1>5. \A a \in Approvals : IF a = target[h]
        THEN Cardinality(On(a, Unsaved)') = Cardinality(On(a, Unsaved)) - 1
        ELSE On(a, Unsaved)' = On(a, Unsaved)
  BY <1>0, Moves DEF IndInv
<1>6. EffectExclusion'
  BY <1>1, <1>4 DEF IndInv, EffectExclusion
<1>7. EffectInv'
  BY <1>1, <1>2, <1>3, <1>5 DEF IndInv, TypeOK, EffectInv
<1>8. VerdictInv'
  <2>1. h \in On(target[h], Critical)
    BY <1>0 DEF On
  <2> QED
    BY <1>2, <1>4, <2>1 DEF IndInv, TypeOK, VerdictInv
<1> QED
  BY <1>6, <1>7, <1>8 DEF CountInv

\* The one step that enters the critical section: the row is pending.
LEMMA EnterStep ==
  ASSUME IndInv, TypeOK', LockInv', NEW h \in Handlers, pc[h] = "locked",
         Goto(h, "checked"), target' = target, status' = status,
         status[target[h]] = "pending",
         effects' = effects, lost' = lost, dropped' = dropped
  PROVE  CountInv'
<1>0. pc[h] \notin Unsaved /\ "checked" \notin Unsaved
  BY DEF Critical, Acting, Working, Unsaved
<1>1. \A a \in Approvals :
        /\ Cardinality(On(a, Critical)') \in Nat
        /\ Cardinality(On(a, Unsaved)') \in Nat
        /\ Cardinality(On(a, Acting)') \in Nat
        /\ Cardinality(dropped[a]) \in Nat
  BY OnFinite, DroppedFinite DEF IndInv
<1>2. target[h] \in Approvals
  BY DEF IndInv, TargetInv
<1>3. \A a \in Approvals : On(a, Unsaved)' = On(a, Unsaved)
  BY <1>0, Moves DEF IndInv
<1>4. \A a \in Approvals : a # target[h] =>
        On(a, Critical)' = On(a, Critical) /\ On(a, Acting)' = On(a, Acting)
  BY <1>0, Moves DEF IndInv
<1>5. Cardinality(On(target[h], Critical)') <= 1 + Cardinality(dropped[target[h]])
  BY <1>2, DistinctMutexes
<1>6. EffectExclusion'
  BY <1>4, <1>5 DEF IndInv, EffectExclusion
<1>7. EffectInv'
  <2> SUFFICES ASSUME NEW a \in Approvals
               PROVE  /\ status[a] \in {"none", "pending"} =>
                           effects[a] <= lost[a] + Cardinality(On(a, Unsaved)')
                      /\ effects[a] + Cardinality(On(a, Acting)') <=
                           1 + lost[a] + Cardinality(dropped[a])
    BY DEF EffectInv
  <2>1. CASE a # target[h]
    BY <1>3, <1>4, <2>1 DEF IndInv, EffectInv
  <2>2. CASE a = target[h]
    <3>1. Cardinality(On(a, Critical)') =
            Cardinality(On(a, Acting)') + Cardinality(On(a, Unsaved)')
      BY CriticalSplits
    <3> QED
      BY <1>1, <1>3, <1>5, <2>2, <3>1 DEF IndInv, TypeOK, EffectInv
  <2> QED
    BY <2>1, <2>2
<1>8. VerdictInv'
  BY <1>4 DEF IndInv, VerdictInv
<1> QED
  BY <1>6, <1>7, <1>8 DEF CountInv

-----------------------------------------------------------------------------
USE DEF Working, Acting, Unsaved, Critical, Goto

-----------------------------------------------------------------------------
(* Creation and the clock.                                                 *)

\* A new row is pending, was never carried out and has no mutex.
LEMMA CreateRowPreserves ==
  ASSUME IndInv, NEW a \in Approvals, CreateRow(a)
  PROVE  IndInv'
<1>1. TypeOK'
  BY ApprovalAssumption DEF IndInv, TypeOK, TargetInv, LockInv, CreateRow
<1>2. TargetInv' /\ LockInv' /\ SweepInv'
  BY ApprovalAssumption DEF IndInv, TypeOK, TargetInv, LockInv, SweepInv, CreateRow
<1>3. CountInv'
  <2>1. \A b \in Approvals : /\ On(b, Critical)' = On(b, Critical)
                             /\ On(b, Unsaved)' = On(b, Unsaved)
                             /\ On(b, Acting)' = On(b, Acting)
    BY DEF CreateRow, On
  <2>2. NoVerdict
    BY DEF IndInv, TypeOK, NoVerdict, CreateRow
  <2> QED
    BY <2>1, <2>2, StillStep DEF CreateRow
<1>4. ReportInv' /\ ReportsTruthful'
  BY ApprovalAssumption DEF IndInv, TypeOK, TargetInv, ReportInv, ReportsTruthful, CreateRow
<1> QED
  BY <1>1, <1>2, <1>3, <1>4 DEF IndInv, CountInv

\* The creator's audit entry is pending, which claims nothing.
LEMMA CreateAuditPreserves ==
  ASSUME IndInv, NEW a \in Approvals, CreateAudit(a)
  PROVE  IndInv'
<1>1. TypeOK'
  BY ApprovalAssumption DEF IndInv, TypeOK, TargetInv, LockInv, CreateAudit
<1>2. TargetInv' /\ LockInv' /\ SweepInv'
  BY ApprovalAssumption DEF IndInv, TypeOK, TargetInv, LockInv, SweepInv, CreateAudit
<1>3. CountInv'
  <2>1. \A b \in Approvals : /\ On(b, Critical)' = On(b, Critical)
                             /\ On(b, Unsaved)' = On(b, Unsaved)
                             /\ On(b, Acting)' = On(b, Acting)
    BY DEF CreateAudit, On
  <2>2. NoVerdict
    BY DEF IndInv, TypeOK, NoVerdict, CreateAudit
  <2> QED
    BY <2>1, <2>2, StillStep DEF CreateAudit
<1>4. ReportInv' /\ ReportsTruthful'
  BY ApprovalAssumption DEF IndInv, TypeOK, TargetInv, ReportInv, ReportsTruthful, CreateAudit
<1> QED
  BY <1>1, <1>2, <1>3, <1>4 DEF IndInv, CountInv

\* The clock touches no variable the invariant relates.
LEMMA ElapsePreserves ==
  ASSUME IndInv, NEW a \in Approvals, Elapse(a)
  PROVE  IndInv'
<1>1. TypeOK'
  BY ApprovalAssumption DEF IndInv, TypeOK, TargetInv, LockInv, Elapse
<1>2. TargetInv' /\ LockInv' /\ SweepInv'
  BY ApprovalAssumption DEF IndInv, TypeOK, TargetInv, LockInv, SweepInv, Elapse
<1>3. CountInv'
  <2>1. \A b \in Approvals : /\ On(b, Critical)' = On(b, Critical)
                             /\ On(b, Unsaved)' = On(b, Unsaved)
                             /\ On(b, Acting)' = On(b, Acting)
    BY DEF Elapse, On
  <2>2. NoVerdict
    BY DEF IndInv, TypeOK, NoVerdict, Elapse
  <2> QED
    BY <2>1, <2>2, StillStep DEF Elapse
<1>4. ReportInv' /\ ReportsTruthful'
  BY ApprovalAssumption DEF IndInv, TypeOK, TargetInv, ReportInv, ReportsTruthful, Elapse
<1> QED
  BY <1>1, <1>2, <1>3, <1>4 DEF IndInv, CountInv

-----------------------------------------------------------------------------
(* Requests: entry and approvalMu.                                         *)

\* A request on an existing row enters outside the critical section.
LEMMA StartPreserves ==
  ASSUME IndInv, NEW h \in Handlers, NEW a \in Approvals,
         NEW endpoint \in {"approve", "reject"}, Start(h, a, endpoint)
  PROVE  IndInv'
<1>1. TypeOK'
  BY ApprovalAssumption DEF IndInv, TypeOK, TargetInv, LockInv, Start
<1>2. TargetInv' /\ LockInv' /\ SweepInv'
  BY ApprovalAssumption DEF IndInv, TypeOK, TargetInv, LockInv, SweepInv, Start
<1>3. CountInv'
  <2>1. \A b \in Approvals : /\ On(b, Critical)' = On(b, Critical)
                             /\ On(b, Unsaved)' = On(b, Unsaved)
                             /\ On(b, Acting)' = On(b, Acting)
    BY DEF IndInv, TypeOK, Start, On
  <2>2. NoVerdict
    BY DEF IndInv, TypeOK, NoVerdict, Start
  <2> QED
    BY <2>1, <2>2, StillStep DEF Start
<1>4. ReportInv' /\ ReportsTruthful'
  BY ApprovalAssumption DEF IndInv, TypeOK, TargetInv, ReportInv, ReportsTruthful, Start
<1> QED
  BY <1>1, <1>2, <1>3, <1>4 DEF IndInv, CountInv

\* A fresh mutex is published only where no request on a pending row can
\* hold another that was not dropped.
LEMMA LoadOrStorePreserves ==
  ASSUME IndInv, NEW h \in Handlers, LoadOrStore(h)
  PROVE  IndInv'
<1>1. TypeOK'
  BY ApprovalAssumption DEF IndInv, TypeOK, TargetInv, LockInv, LoadOrStore
<1>2. TargetInv' /\ LockInv' /\ SweepInv'
  BY ApprovalAssumption DEF IndInv, TypeOK, TargetInv, LockInv, SweepInv, LoadOrStore
<1>3. CountInv'
  <2>1. NoVerdict
    BY DEF IndInv, TypeOK, TargetInv, NoVerdict, LoadOrStore
  <2> QED
    BY <2>1, QuietCount DEF LoadOrStore
<1>4. ReportInv' /\ ReportsTruthful'
  BY ApprovalAssumption DEF IndInv, TypeOK, TargetInv, ReportInv, ReportsTruthful, LoadOrStore
<1> QED
  BY <1>1, <1>2, <1>3, <1>4 DEF IndInv, CountInv

\* Only one handler owns a mutex object.
LEMMA LockPreserves ==
  ASSUME IndInv, NEW h \in Handlers, Lock(h)
  PROVE  IndInv'
<1>1. TypeOK'
  BY ApprovalAssumption DEF IndInv, TypeOK, TargetInv, LockInv, Lock
<1>2. TargetInv' /\ LockInv' /\ SweepInv'
  BY ApprovalAssumption DEF IndInv, TypeOK, TargetInv, LockInv, SweepInv, Lock
<1>3. CountInv'
  <2>1. NoVerdict
    BY DEF IndInv, TypeOK, TargetInv, NoVerdict, Lock
  <2> QED
    BY <2>1, QuietCount DEF Lock
<1>4. ReportInv' /\ ReportsTruthful'
  BY ApprovalAssumption DEF IndInv, TypeOK, TargetInv, ReportInv, ReportsTruthful, Lock
<1> QED
  BY <1>1, <1>2, <1>3, <1>4 DEF IndInv, CountInv

\* The re-check lets a request in only while the row is pending.
LEMMA RecheckPreserves ==
  ASSUME IndInv, NEW h \in Handlers, Recheck(h)
  PROVE  IndInv'
<1>1. TypeOK'
  <2>1. target[h] \in Approvals /\ mine[h] \in Handlers
    BY DEF IndInv, TargetInv, LockInv, Recheck
  <2>2. /\ pc' \in [Handlers -> PCs]
        /\ holder' \in [Handlers -> Handlers \cup {None}]
        /\ op' \in [Handlers -> {"none", "approve", "reject"}]
        /\ mine' \in [Handlers -> Handlers \cup {None}]
    BY <2>1 DEF IndInv, TypeOK, Recheck
  <2>3. faults' \in 0 .. MaxFaults
    BY <2>1, ApprovalAssumption DEF IndInv, TypeOK, Recheck
  <2> QED
    BY <2>2, <2>3 DEF IndInv, TypeOK, Recheck
<1>2. TargetInv' /\ LockInv' /\ SweepInv'
  BY ApprovalAssumption DEF IndInv, TypeOK, TargetInv, LockInv, SweepInv, Recheck
<1>3. CountInv'
  <2>1. NoVerdict
    BY DEF NoVerdict, Recheck
  <2>2. CASE pc'[h] = "checked"
    <3>1. /\ status[target[h]] = "pending" /\ Goto(h, "checked") /\ pc[h] = "locked"
          /\ target' = target /\ status' = status /\ effects' = effects /\ lost' = lost
          /\ dropped' = dropped
      BY <2>2 DEF IndInv, TypeOK, Recheck
    <3> QED
      BY <1>1, <1>2, <3>1, EnterStep
  <2>3. CASE pc'[h] # "checked"
    <3>1. /\ Goto(h, "done") /\ pc[h] = "locked"
          /\ target' = target /\ effects' = effects /\ lost' = lost /\ dropped' = dropped
      BY <2>3 DEF IndInv, TypeOK, Recheck
    <3> QED
      BY <2>1, <3>1, QuietCount
  <2> QED
    BY <2>2, <2>3
<1>4. ReportInv' /\ ReportsTruthful'
  BY ApprovalAssumption DEF IndInv, TypeOK, TargetInv, ReportInv, ReportsTruthful, Recheck
<1> QED
  BY <1>1, <1>2, <1>3, <1>4 DEF IndInv, CountInv

-----------------------------------------------------------------------------
(* Requests: under the lock.                                               *)

\* An overdue approval is given up without effect.
LEMMA ApproveExpiryPreserves ==
  ASSUME IndInv, NEW h \in Handlers, ApproveExpiry(h)
  PROVE  IndInv'
<1>1. TypeOK'
  <2>1. target[h] \in Approvals /\ mine[h] \in Handlers
    BY DEF IndInv, TargetInv, LockInv, ApproveExpiry
  <2>2. /\ pc' \in [Handlers -> PCs]
        /\ holder' \in [Handlers -> Handlers \cup {None}]
        /\ op' \in [Handlers -> {"none", "approve", "reject"}]
        /\ mine' \in [Handlers -> Handlers \cup {None}]
    BY <2>1 DEF IndInv, TypeOK, ApproveExpiry
  <2>3. faults' \in 0 .. MaxFaults /\ status' \in [Approvals -> Statuses]
    BY <2>1, ApprovalAssumption DEF IndInv, TypeOK, ApproveExpiry
  <2> QED
    BY <2>2, <2>3 DEF IndInv, TypeOK, ApproveExpiry
<1>2. TargetInv' /\ LockInv' /\ SweepInv'
  BY ApprovalAssumption DEF IndInv, TypeOK, TargetInv, LockInv, SweepInv, ApproveExpiry
<1>3. CountInv'
  <2>1. NoVerdict
    BY DEF IndInv, TypeOK, TargetInv, NoVerdict, ApproveExpiry
  <2> QED
    BY <2>1, QuietCount DEF ApproveExpiry
<1>4. ReportInv' /\ ReportsTruthful'
  BY ApprovalAssumption DEF IndInv, TypeOK, TargetInv, ReportInv, ReportsTruthful, ApproveExpiry
<1> QED
  BY <1>1, <1>2, <1>3, <1>4 DEF IndInv, CountInv

\* The verdict "rejected" is written before any effect.
LEMMA RejectWritePreserves ==
  ASSUME IndInv, NEW h \in Handlers, RejectWrite(h)
  PROVE  IndInv'
<1>1. TypeOK'
  <2>1. target[h] \in Approvals /\ mine[h] \in Handlers
    BY DEF IndInv, TargetInv, LockInv, RejectWrite
  <2>2. /\ pc' \in [Handlers -> PCs]
        /\ holder' \in [Handlers -> Handlers \cup {None}]
        /\ op' \in [Handlers -> {"none", "approve", "reject"}]
        /\ mine' \in [Handlers -> Handlers \cup {None}]
    BY <2>1 DEF IndInv, TypeOK, RejectWrite
  <2>3. faults' \in 0 .. MaxFaults /\ status' \in [Approvals -> Statuses]
    BY <2>1, ApprovalAssumption DEF IndInv, TypeOK, RejectWrite
  <2> QED
    BY <2>2, <2>3 DEF IndInv, TypeOK, RejectWrite
<1>2. TargetInv' /\ LockInv' /\ SweepInv'
  BY ApprovalAssumption DEF IndInv, TypeOK, TargetInv, LockInv, SweepInv, RejectWrite
<1>3. CountInv'
  <2>1. CASE WriteStatus(target[h], "rejected") /\ Stay(h, "rejected")
    BY <2>1, VerdictCount DEF RejectWrite
  <2>2. CASE DBFault /\ Return(h) /\ UNCHANGED status
    BY <2>2, QuietCount DEF NoVerdict, RejectWrite
  <2> QED
    BY <2>1, <2>2 DEF RejectWrite
<1>4. ReportInv' /\ ReportsTruthful'
  BY ApprovalAssumption DEF IndInv, TypeOK, TargetInv, ReportInv, ReportsTruthful, RejectWrite
<1> QED
  BY <1>1, <1>2, <1>3, <1>4 DEF IndInv, CountInv

\* A table edit is an effect that the handler now owes the status of.
LEMMA ApproveApplyPreserves ==
  ASSUME IndInv, NEW h \in Handlers, ApproveApply(h)
  PROVE  IndInv'
<1>1. TypeOK'
  <2>1. target[h] \in Approvals /\ mine[h] \in Handlers
    BY DEF IndInv, TargetInv, LockInv, ApproveApply
  <2>2. /\ pc' \in [Handlers -> PCs]
        /\ holder' \in [Handlers -> Handlers \cup {None}]
        /\ op' \in [Handlers -> {"none", "approve", "reject"}]
        /\ mine' \in [Handlers -> Handlers \cup {None}]
    BY <2>1 DEF IndInv, TypeOK, ApproveApply
  <2>3. effects' \in [Approvals -> Nat]
    BY <2>1, ApprovalAssumption DEF IndInv, TypeOK, ApproveApply
  <2> QED
    BY <2>2, <2>3 DEF IndInv, TypeOK, ApproveApply
<1>2. TargetInv' /\ LockInv' /\ SweepInv'
  BY ApprovalAssumption DEF IndInv, TypeOK, TargetInv, LockInv, SweepInv, ApproveApply
<1>3. CountInv'
  <2>1. NoVerdict
    BY DEF NoVerdict, ApproveApply
  <2>2. CASE effects' = [effects EXCEPT ![target[h]] = @ + 1] /\ Stay(h, "sent")
    BY <2>2, ActCount DEF ApproveApply
  <2>3. CASE effects' = effects
    BY <2>1, <2>3, QuietCount DEF ApproveApply
  <2> QED
    BY <2>2, <2>3 DEF ApproveApply
<1>4. ReportInv' /\ ReportsTruthful'
  BY ApprovalAssumption DEF IndInv, TypeOK, TargetInv, ReportInv, ReportsTruthful, ApproveApply
<1> QED
  BY <1>1, <1>2, <1>3, <1>4 DEF IndInv, CountInv

\* Rebuilding the transaction has no effect on the approval.
LEMMA ApproveBuildPreserves ==
  ASSUME IndInv, NEW h \in Handlers, ApproveBuild(h)
  PROVE  IndInv'
<1>1. TypeOK'
  BY ApprovalAssumption DEF IndInv, TypeOK, TargetInv, LockInv, ApproveBuild
<1>2. TargetInv' /\ LockInv' /\ SweepInv'
  BY ApprovalAssumption DEF IndInv, TypeOK, TargetInv, LockInv, SweepInv, ApproveBuild
<1>3. CountInv'
  <2>1. NoVerdict
    BY DEF IndInv, TypeOK, TargetInv, NoVerdict, ApproveBuild
  <2> QED
    BY <2>1, QuietCount DEF ApproveBuild
<1>4. ReportInv' /\ ReportsTruthful'
  BY ApprovalAssumption DEF IndInv, TypeOK, TargetInv, ReportInv, ReportsTruthful, ApproveBuild
<1> QED
  BY <1>1, <1>2, <1>3, <1>4 DEF IndInv, CountInv

\* Signing alone sends nothing.
LEMMA ApproveSignPreserves ==
  ASSUME IndInv, NEW h \in Handlers, ApproveSign(h)
  PROVE  IndInv'
<1>1. TypeOK'
  BY ApprovalAssumption DEF IndInv, TypeOK, TargetInv, LockInv, ApproveSign
<1>2. TargetInv' /\ LockInv' /\ SweepInv'
  BY ApprovalAssumption DEF IndInv, TypeOK, TargetInv, LockInv, SweepInv, ApproveSign
<1>3. CountInv'
  <2>1. NoVerdict
    BY DEF IndInv, TypeOK, TargetInv, NoVerdict, ApproveSign
  <2> QED
    BY <2>1, QuietCount DEF ApproveSign
<1>4. ReportInv' /\ ReportsTruthful'
  BY ApprovalAssumption DEF IndInv, TypeOK, TargetInv, ReportInv, ReportsTruthful, ApproveSign
<1> QED
  BY <1>1, <1>2, <1>3, <1>4 DEF IndInv, CountInv

\* Running over the daily limit leaves the approval as it was.
LEMMA ApproveBudgetPreserves ==
  ASSUME IndInv, NEW h \in Handlers, ApproveBudget(h)
  PROVE  IndInv'
<1>1. TypeOK'
  BY ApprovalAssumption DEF IndInv, TypeOK, TargetInv, LockInv, ApproveBudget
<1>2. TargetInv' /\ LockInv' /\ SweepInv'
  BY ApprovalAssumption DEF IndInv, TypeOK, TargetInv, LockInv, SweepInv, ApproveBudget
<1>3. CountInv'
  <2>1. NoVerdict
    BY DEF IndInv, TypeOK, TargetInv, NoVerdict, ApproveBudget
  <2> QED
    BY <2>1, QuietCount DEF ApproveBudget
<1>4. ReportInv' /\ ReportsTruthful'
  BY ApprovalAssumption DEF IndInv, TypeOK, TargetInv, ReportInv, ReportsTruthful, ApproveBudget
<1> QED
  BY <1>1, <1>2, <1>3, <1>4 DEF IndInv, CountInv

\* The broadcast is an effect, reported as success only when it is one.
LEMMA ApproveBroadcastPreserves ==
  ASSUME IndInv, NEW h \in Handlers, ApproveBroadcast(h)
  PROVE  IndInv'
<1>1. TypeOK'
  BY ApprovalAssumption DEF IndInv, TypeOK, TargetInv, LockInv, ApproveBroadcast
<1>2. TargetInv' /\ LockInv' /\ SweepInv'
  BY ApprovalAssumption DEF IndInv, TypeOK, TargetInv, LockInv, SweepInv, ApproveBroadcast
<1>3. CountInv'
  <2>1. NoVerdict
    BY DEF NoVerdict, ApproveBroadcast
  <2>2. ASSUME NEW label \in Unsaved, effects' = [effects EXCEPT ![target[h]] = @ + 1],
               Goto(h, label)
        PROVE  CountInv'
    BY <2>2, ActCount DEF ApproveBroadcast
  <2>3. CASE effects' = effects /\ Goto(h, "bad")
    BY <2>1, <2>3, QuietCount DEF ApproveBroadcast
  <2> QED
    BY <2>2, <2>3 DEF ApproveBroadcast
<1>4. ReportInv' /\ ReportsTruthful'
  BY ApprovalAssumption DEF IndInv, TypeOK, TargetInv, ReportInv, ReportsTruthful, ApproveBroadcast
<1> QED
  BY <1>1, <1>2, <1>3, <1>4 DEF IndInv, CountInv

\* "failed" is written, or the loss is counted.
LEMMA ApproveFailPreserves ==
  ASSUME IndInv, NEW h \in Handlers, ApproveFail(h)
  PROVE  IndInv'
<1>1. TypeOK'
  BY ApprovalAssumption DEF IndInv, TypeOK, TargetInv, LockInv, ApproveFail
<1>2. TargetInv' /\ LockInv' /\ SweepInv'
  BY ApprovalAssumption DEF IndInv, TypeOK, TargetInv, LockInv, SweepInv, ApproveFail
<1>3. CountInv'
  <2>1. CASE WriteStatus(target[h], "failed") /\ Goto(h, "failed") /\ lost' = lost
    BY <2>1, VerdictCount DEF ApproveFail
  <2>2. CASE lost' = [lost EXCEPT ![target[h]] = @ + 1] /\ UNCHANGED status
    BY <2>2, LossCount DEF ApproveFail
  <2> QED
    BY <2>1, <2>2 DEF ApproveFail
<1>4. ReportInv' /\ ReportsTruthful'
  BY ApprovalAssumption DEF IndInv, TypeOK, TargetInv, ReportInv, ReportsTruthful, ApproveFail
<1> QED
  BY <1>1, <1>2, <1>3, <1>4 DEF IndInv, CountInv

\* "approved" is written, or the loss is counted.
LEMMA ApproveCommitPreserves ==
  ASSUME IndInv, NEW h \in Handlers, ApproveCommit(h)
  PROVE  IndInv'
<1>1. TypeOK'
  BY ApprovalAssumption DEF IndInv, TypeOK, TargetInv, LockInv, ApproveCommit
<1>2. TargetInv' /\ LockInv' /\ SweepInv'
  BY ApprovalAssumption DEF IndInv, TypeOK, TargetInv, LockInv, SweepInv, ApproveCommit
<1>3. CountInv'
  <2>1. CASE WriteStatus(target[h], "approved") /\ Goto(h, "approved") /\ lost' = lost
    BY <2>1, VerdictCount DEF ApproveCommit
  <2>2. CASE lost' = [lost EXCEPT ![target[h]] = @ + 1] /\ UNCHANGED status
    BY <2>2, LossCount DEF ApproveCommit
  <2> QED
    BY <2>1, <2>2 DEF ApproveCommit
<1>4. ReportInv' /\ ReportsTruthful'
  BY ApprovalAssumption DEF IndInv, TypeOK, TargetInv, ReportInv, ReportsTruthful, ApproveCommit
<1> QED
  BY <1>1, <1>2, <1>3, <1>4 DEF IndInv, CountInv

\* Success is reported only by a handler that carried the operation out, or
\* whose kind takes nothing to write for success.
LEMMA SettlePreserves ==
  ASSUME IndInv, NEW h \in Handlers, Settle(h)
  PROVE  IndInv'
<1>1. TypeOK'
  <2>1. AuditOf(pc[h]) \in {"success", "rejected", "failed"}
    BY DEF Settle
  <2>2. target[h] \in Approvals /\ mine[h] \in Handlers
    BY DEF IndInv, TargetInv, LockInv, Settle
  <2>3. /\ audit' \in [Approvals -> {"none", "pending", "success", "rejected", "failed"}]
        /\ auditMissed' \in [Approvals -> BOOLEAN]
    <3> HIDE DEF AuditOf
    <3>1. CASE audit' = [audit EXCEPT ![target[h]] = AuditOf(pc[h])] /\ auditMissed' = auditMissed
      BY <3>1, <2>1, <2>2 DEF IndInv, TypeOK
    <3>2. CASE auditMissed' = [auditMissed EXCEPT ![target[h]] = TRUE] /\ audit' = audit
      BY <3>2, <2>2 DEF IndInv, TypeOK
    <3> QED
      BY <3>1, <3>2 DEF Settle
  <2>4. notified' \in [Approvals -> {"none"} \cup Resolved]
    BY <2>2 DEF IndInv, TypeOK, Settle
  <2>5. /\ pc' \in [Handlers -> PCs]
        /\ holder' \in [Handlers -> Handlers \cup {None}]
        /\ op' \in [Handlers -> {"none", "approve", "reject"}]
        /\ mine' \in [Handlers -> Handlers \cup {None}]
    BY <2>2 DEF IndInv, TypeOK, Settle
  <2>6. faults' \in 0 .. MaxFaults
    BY ApprovalAssumption DEF IndInv, TypeOK, Settle
  <2> QED
    BY <2>3, <2>4, <2>5, <2>6 DEF IndInv, TypeOK, Settle
<1>2. TargetInv' /\ LockInv' /\ SweepInv'
  BY ApprovalAssumption DEF IndInv, TypeOK, TargetInv, LockInv, SweepInv, Settle
<1>3. CountInv'
  <2>1. NoVerdict
    BY DEF IndInv, TypeOK, TargetInv, NoVerdict, Settle
  <2> QED
    BY <2>1, QuietCount DEF Settle
<1>4. ReportInv' /\ ReportsTruthful'
  BY ApprovalAssumption DEF IndInv, TypeOK, TargetInv, ReportInv, ReportsTruthful, Settle
<1> QED
  BY <1>1, <1>2, <1>3, <1>4 DEF IndInv, CountInv

-----------------------------------------------------------------------------
(* GetApproval.                                                            *)

\* A read takes no lock and enters no critical section.
LEMMA StartGetPreserves ==
  ASSUME IndInv, NEW h \in Handlers, NEW a \in Approvals, StartGet(h, a)
  PROVE  IndInv'
<1>1. TypeOK'
  BY ApprovalAssumption DEF IndInv, TypeOK, TargetInv, LockInv, StartGet
<1>2. TargetInv' /\ LockInv' /\ SweepInv'
  BY ApprovalAssumption DEF IndInv, TypeOK, TargetInv, LockInv, SweepInv, StartGet
<1>3. CountInv'
  <2>1. \A b \in Approvals : /\ On(b, Critical)' = On(b, Critical)
                             /\ On(b, Unsaved)' = On(b, Unsaved)
                             /\ On(b, Acting)' = On(b, Acting)
    BY DEF IndInv, TypeOK, StartGet, On
  <2>2. NoVerdict
    BY DEF IndInv, TypeOK, NoVerdict, StartGet
  <2> QED
    BY <2>1, <2>2, StillStep DEF StartGet
<1>4. ReportInv' /\ ReportsTruthful'
  BY ApprovalAssumption DEF IndInv, TypeOK, TargetInv, ReportInv, ReportsTruthful, StartGet
<1> QED
  BY <1>1, <1>2, <1>3, <1>4 DEF IndInv, CountInv

\* The unlocked write of GetApproval never reopens a row.
LEMMA GetExpirePreserves ==
  ASSUME IndInv, NEW h \in Handlers, GetExpire(h)
  PROVE  IndInv'
<1>1. TypeOK'
  BY ApprovalAssumption DEF IndInv, TypeOK, TargetInv, LockInv, GetExpire
<1>2. TargetInv' /\ LockInv' /\ SweepInv'
  BY ApprovalAssumption DEF IndInv, TypeOK, TargetInv, LockInv, SweepInv, GetExpire
<1>3. CountInv'
  <2>1. NoVerdict
    BY DEF IndInv, TypeOK, TargetInv, NoVerdict, GetExpire
  <2> QED
    BY <2>1, QuietCount DEF GetExpire
<1>4. ReportInv' /\ ReportsTruthful'
  BY ApprovalAssumption DEF IndInv, TypeOK, TargetInv, ReportInv, ReportsTruthful, GetExpire
<1> QED
  BY <1>1, <1>2, <1>3, <1>4 DEF IndInv, CountInv

-----------------------------------------------------------------------------
(* Wallet deletion, the background loop and crashes.                       *)

\* A deleted row is neither pending nor a verdict.
LEMMA DeleteWalletPreserves ==
  ASSUME IndInv, DeleteWallet
  PROVE  IndInv'
<1>1. TypeOK'
  BY ApprovalAssumption DEF IndInv, TypeOK, TargetInv, LockInv, DeleteWallet
<1>2. TargetInv' /\ LockInv' /\ SweepInv'
  BY ApprovalAssumption DEF IndInv, TypeOK, TargetInv, LockInv, SweepInv, DeleteWallet
<1>3. CountInv'
  <2>1. \A a \in Approvals : /\ On(a, Critical)' = On(a, Critical)
                             /\ On(a, Unsaved)' = On(a, Unsaved)
                             /\ On(a, Acting)' = On(a, Acting)
    BY DEF DeleteWallet, On
  <2>2. NoVerdict
    BY DEF IndInv, TypeOK, NoVerdict, DeleteWallet
  <2> QED
    BY <2>1, <2>2, StillStep DEF DeleteWallet
<1>4. ReportInv' /\ ReportsTruthful'
  BY ApprovalAssumption DEF IndInv, TypeOK, TargetInv, ReportInv, ReportsTruthful, DeleteWallet
<1> QED
  BY <1>1, <1>2, <1>3, <1>4 DEF IndInv, CountInv

\* Expiry only takes rows out of pending.
LEMMA ExpireTickPreserves ==
  ASSUME IndInv, ExpireTick
  PROVE  IndInv'
<1>1. TypeOK'
  BY ApprovalAssumption DEF IndInv, TypeOK, TargetInv, LockInv, ExpireTick
<1>2. TargetInv' /\ LockInv' /\ SweepInv'
  BY ApprovalAssumption DEF IndInv, TypeOK, TargetInv, LockInv, SweepInv, ExpireTick
<1>3. CountInv'
  <2>1. \A a \in Approvals : /\ On(a, Critical)' = On(a, Critical)
                             /\ On(a, Unsaved)' = On(a, Unsaved)
                             /\ On(a, Acting)' = On(a, Acting)
    BY DEF ExpireTick, On
  <2>2. NoVerdict
    BY DEF IndInv, TypeOK, NoVerdict, ExpireTick
  <2> QED
    BY <2>1, <2>2, StillStep DEF ExpireTick
<1>4. ReportInv' /\ ReportsTruthful'
  BY ApprovalAssumption DEF IndInv, TypeOK, TargetInv, ReportInv, ReportsTruthful, ExpireTick
<1> QED
  BY <1>1, <1>2, <1>3, <1>4 DEF IndInv, CountInv

\* The key picked for deletion is that of a row that left pending, or its mutex
\* is on record as dropped.
LEMMA CleanupVisitPreserves ==
  ASSUME IndInv, NEW a \in Approvals, CleanupVisit(a)
  PROVE  IndInv'
<1>1. TypeOK'
  <2>1. mutexOf[a] \in Handlers
    BY DEF IndInv, TypeOK, SweepInv, CleanupVisit
  <2>2. dropped' \in [Approvals -> SUBSET Handlers] /\ faults' \in 0 .. MaxFaults
    BY <2>1, ApprovalAssumption DEF IndInv, TypeOK, CleanupVisit
  <2> QED
    BY <2>2 DEF IndInv, TypeOK, CleanupVisit
<1>2. TargetInv' /\ LockInv' /\ SweepInv'
  BY ApprovalAssumption DEF IndInv, TypeOK, TargetInv, LockInv, SweepInv, CleanupVisit
<1>3. CountInv'
  <2>1. \A b \in Approvals : /\ On(b, Critical)' = On(b, Critical)
                             /\ On(b, Unsaved)' = On(b, Unsaved)
                             /\ On(b, Acting)' = On(b, Acting)
    BY DEF CleanupVisit, On
  <2>2. CASE dropped' = dropped
    BY <2>1, <2>2, StillStep DEF NoVerdict, CleanupVisit
  <2>3. CASE dropped' # dropped
    <3>1. /\ status[a] = "pending"
          /\ dropped' = [dropped EXCEPT ![a] = @ \cup {mutexOf[a]}]
          /\ status' = status /\ effects' = effects /\ lost' = lost
      BY <2>3 DEF CleanupVisit
    <3>2. \A b \in Approvals : /\ dropped'[b] = {} => dropped[b] = {}
                               /\ Cardinality(dropped[b]) <= Cardinality(dropped'[b])
                               /\ Cardinality(dropped[b]) \in Nat
                               /\ Cardinality(dropped'[b]) \in Nat
      <4> SUFFICES ASSUME NEW b \in Approvals
                   PROVE  /\ dropped'[b] = {} => dropped[b] = {}
                          /\ Cardinality(dropped[b]) <= Cardinality(dropped'[b])
                          /\ Cardinality(dropped[b]) \in Nat
                          /\ Cardinality(dropped'[b]) \in Nat
        OBVIOUS
      <4>1. dropped'[b] \in SUBSET Handlers /\ dropped[b] \in SUBSET dropped'[b]
        BY <1>1, <3>1 DEF IndInv, TypeOK
      <4>2. IsFiniteSet(dropped'[b])
        BY <4>1, FS_Subset, ApprovalAssumption
      <4> QED
        BY <4>1, <4>2, FS_Subset, FS_CardinalityType
    <3>3. \A b \in Approvals : /\ Cardinality(On(b, Critical)) \in Nat
                               /\ Cardinality(On(b, Acting)) \in Nat
                               /\ effects[b] \in Nat /\ lost[b] \in Nat
      BY OnFinite DEF IndInv, TypeOK
    <3>4. EffectExclusion'
      BY <2>1, <3>2, <3>3 DEF IndInv, EffectExclusion
    <3>5. EffectInv'
      <4> SUFFICES ASSUME NEW b \in Approvals
                   PROVE  /\ status[b] \in {"none", "pending"} =>
                               effects[b] <= lost[b] + Cardinality(On(b, Unsaved))
                          /\ effects[b] + Cardinality(On(b, Acting)) <=
                               1 + lost[b] + Cardinality(dropped'[b])
        BY <2>1, <3>1 DEF EffectInv
      <4>1. /\ status[b] \in {"none", "pending"} =>
                 effects[b] <= lost[b] + Cardinality(On(b, Unsaved))
            /\ effects[b] + Cardinality(On(b, Acting)) <= 1 + lost[b] + Cardinality(dropped[b])
        BY DEF IndInv, EffectInv
      <4> QED
        BY <3>2, <3>3, <4>1
    <3>6. VerdictInv'
      BY <2>1, <3>1, <3>2 DEF IndInv, VerdictInv
    <3> QED
      BY <3>4, <3>5, <3>6 DEF CountInv
  <2> QED
    BY <2>2, <2>3
<1>4. ReportInv' /\ ReportsTruthful'
  BY ApprovalAssumption DEF IndInv, TypeOK, TargetInv, ReportInv, ReportsTruthful, CleanupVisit
<1> QED
  BY <1>1, <1>2, <1>3, <1>4 DEF IndInv, CountInv

\* The mutex deleted guards a row that is not pending, or is on record.
LEMMA CleanupDeletePreserves ==
  ASSUME IndInv, CleanupDelete
  PROVE  IndInv'
<1>1. TypeOK'
  BY ApprovalAssumption DEF IndInv, TypeOK, TargetInv, LockInv, CleanupDelete
<1>2. TargetInv' /\ LockInv' /\ SweepInv'
  BY ApprovalAssumption DEF IndInv, TypeOK, TargetInv, LockInv, SweepInv, CleanupDelete
<1>3. CountInv'
  <2>1. \A a \in Approvals : /\ On(a, Critical)' = On(a, Critical)
                             /\ On(a, Unsaved)' = On(a, Unsaved)
                             /\ On(a, Acting)' = On(a, Acting)
    BY DEF CleanupDelete, On
  <2>2. NoVerdict
    BY DEF IndInv, TypeOK, NoVerdict, CleanupDelete
  <2> QED
    BY <2>1, <2>2, StillStep DEF CleanupDelete
<1>4. ReportInv' /\ ReportsTruthful'
  BY ApprovalAssumption DEF IndInv, TypeOK, TargetInv, ReportInv, ReportsTruthful, CleanupDelete
<1> QED
  BY <1>1, <1>2, <1>3, <1>4 DEF IndInv, CountInv

\* A crash empties the critical section and counts the unsaved results.
LEMMA CrashPreserves ==
  ASSUME IndInv, Crash
  PROVE  IndInv'
<1>1. TypeOK'
  <2>1. \A a \in Approvals : Cardinality(On(a, Unsaved)) \in Nat
    BY OnFinite
  <2> QED
    BY <2>1, ApprovalAssumption DEF IndInv, TypeOK, Crash
<1>2. TargetInv' /\ LockInv' /\ SweepInv'
  BY ApprovalAssumption DEF IndInv, TypeOK, TargetInv, LockInv, SweepInv, Crash
<1>3. CountInv'
  <2>1. \A a \in Approvals, X \in {Critical, Acting, Unsaved} : On(a, X)' = {}
    BY DEF Crash, On
  <2>2. \A a \in Approvals :
          /\ Cardinality(On(a, Critical)') = 0 /\ On(a, Critical)' = {}
          /\ Cardinality(On(a, Acting)') = 0 /\ Cardinality(On(a, Unsaved)') = 0
    BY <2>1, FS_EmptySet
  <2>3. \A a \in Approvals :
          /\ Cardinality(On(a, Acting)) \in Nat /\ Cardinality(On(a, Unsaved)) \in Nat
          /\ Cardinality(dropped[a]) \in Nat
          /\ effects[a] \in Nat /\ lost[a] \in Nat
    BY OnFinite, DroppedFinite DEF IndInv, TypeOK
  <2>4. /\ status' = status /\ effects' = effects /\ dropped' = dropped
        /\ \A a \in Approvals : lost'[a] = lost[a] + Cardinality(On(a, Unsaved))
    BY DEF Crash
  <2>5. EffectExclusion'
    BY <2>2, <2>3, <2>4 DEF EffectExclusion
  <2>6. EffectInv'
    <3> SUFFICES ASSUME NEW a \in Approvals
                 PROVE  /\ status[a] \in {"none", "pending"} =>
                             effects[a] <= lost'[a] + Cardinality(On(a, Unsaved)')
                        /\ effects[a] + Cardinality(On(a, Acting)') <=
                             1 + lost'[a] + Cardinality(dropped[a])
      BY <2>4 DEF EffectInv
    <3>1. /\ status[a] \in {"none", "pending"} =>
               effects[a] <= lost[a] + Cardinality(On(a, Unsaved))
          /\ effects[a] + Cardinality(On(a, Acting)) <=
               1 + lost[a] + Cardinality(dropped[a])
      BY DEF IndInv, EffectInv
    <3> QED
      BY <2>2, <2>3, <2>4, <3>1
  <2>7. VerdictInv'
    BY <2>2, <2>3, <2>4 DEF IndInv, VerdictInv
  <2> QED
    BY <2>5, <2>6, <2>7 DEF CountInv
<1>4. ReportInv' /\ ReportsTruthful'
  BY ApprovalAssumption DEF IndInv, TypeOK, TargetInv, ReportInv, ReportsTruthful, Crash
<1> QED
  BY <1>1, <1>2, <1>3, <1>4 DEF IndInv, CountInv

-----------------------------------------------------------------------------
(* The invariant.                                                          *)

\* Before the first request nothing is inserted, held or carried out.
LEMMA InitEstablishes == Init => IndInv
<1> SUFFICES ASSUME Init
             PROVE  IndInv
  OBVIOUS
<1>1. TypeOK
  <2>1. faults \in 0 .. MaxFaults /\ crashes \in 0 .. MaxFaults
    BY ApprovalAssumption DEF Init
  <2>2. pc \in [Handlers -> PCs] /\ op \in [Handlers -> {"none", "approve", "reject"}]
    BY DEF Init
  <2> QED
    BY <2>1, <2>2 DEF Init, TypeOK
<1>2. TargetInv /\ LockInv /\ SweepInv
  BY DEF Init, TargetInv, LockInv, SweepInv
<1>3. \A a \in Approvals : /\ Cardinality(On(a, Critical)) = 0
                           /\ Cardinality(On(a, Acting)) = 0
                           /\ Cardinality(On(a, Unsaved)) = 0
                           /\ Cardinality(dropped[a]) = 0
  <2>1. \A a \in Approvals : /\ On(a, Critical) = {} /\ On(a, Acting) = {}
                             /\ On(a, Unsaved) = {} /\ dropped[a] = {}
    BY DEF Init, On
  <2> QED
    BY <2>1, FS_EmptySet
<1>4. EffectExclusion
  BY <1>3 DEF EffectExclusion
<1>5. EffectInv
  BY <1>3 DEF Init, EffectInv
<1>6. VerdictInv /\ ReportInv /\ ReportsTruthful
  BY DEF Init, VerdictInv, ReportInv, ReportsTruthful
<1> QED
  BY <1>1, <1>2, <1>4, <1>5, <1>6 DEF IndInv

\* Every step of the system preserves the inductive invariant.
LEMMA NextPreserves == IndInv /\ [Next]_vars => IndInv'
<1> SUFFICES ASSUME IndInv, [Next]_vars
             PROVE  IndInv'
  OBVIOUS
<1>1. ASSUME NEW a \in Approvals, CreateRow(a) \/ CreateAudit(a) \/ Elapse(a)
      PROVE  IndInv'
  BY <1>1, CreateRowPreserves, CreateAuditPreserves, ElapsePreserves
<1>2. ASSUME NEW h \in Handlers, NEW a \in Approvals,
             Start(h, a, "approve") \/ Start(h, a, "reject") \/ StartGet(h, a)
      PROVE  IndInv'
  BY <1>2, StartPreserves, StartGetPreserves
<1>3. ASSUME NEW h \in Handlers, HandlerStep(h)
      PROVE  IndInv'
  BY <1>3, LoadOrStorePreserves, LockPreserves, RecheckPreserves,
     ApproveExpiryPreserves, RejectWritePreserves, ApproveApplyPreserves,
     ApproveBuildPreserves, ApproveSignPreserves, ApproveBudgetPreserves,
     ApproveBroadcastPreserves, ApproveFailPreserves,
     ApproveCommitPreserves, SettlePreserves, GetExpirePreserves DEF
     HandlerStep
<1>4. CASE DeleteWallet
  BY <1>4, DeleteWalletPreserves
<1>5. CASE ExpireTick
  BY <1>5, ExpireTickPreserves
<1>6. CASE Sweep
  BY <1>6, CleanupDeletePreserves, CleanupVisitPreserves DEF Sweep
<1>7. CASE Crash
  BY <1>7, CrashPreserves
<1>8. CASE UNCHANGED vars
  <2>1. \A a \in Approvals : /\ On(a, Critical)' = On(a, Critical)
                             /\ On(a, Unsaved)' = On(a, Unsaved)
                             /\ On(a, Acting)' = On(a, Acting)
    BY <1>8 DEF vars, On
  <2>2. CountInv'
    BY <1>8, <2>1, StillStep DEF vars, NoVerdict
  <2> QED
    BY <1>8, <2>2 DEF vars, IndInv, CountInv, TypeOK, TargetInv, LockInv, SweepInv,
                      ReportInv, ReportsTruthful
<1> QED
  BY <1>1, <1>2, <1>3, <1>4, <1>5, <1>6, <1>7, <1>8 DEF Next

\* The inductive invariant of the approval flow holds in every reachable state.
THEOREM Invariance == Spec => []IndInv
BY InitEstablishes, NextPreserves, PTL DEF Spec

-----------------------------------------------------------------------------
(* What follows from it.                                                   *)

\* The row, lock and request state keeps its type.
THEOREM TypeCorrect == Spec => []TypeOK
<1>1. IndInv => TypeOK
  BY DEF IndInv
<1> QED
  BY <1>1, Invariance, PTL

\* Approve carries the approved operation out at most once, plus once per lost
\* status write and once per mutex the sweep took off the pending approval,
\* whatever the interleaving of requests, sweep and crashes.
THEOREM EffectsAtMostOnce == Spec => []AtMostOnce
<1>1. IndInv => AtMostOnce
  <2> SUFFICES ASSUME IndInv, NEW a \in Approvals
               PROVE  effects[a] <= 1 + lost[a] + Cardinality(dropped[a])
    BY DEF AtMostOnce
  <2>1. effects[a] + Cardinality(On(a, Acting)) <= 1 + lost[a] + Cardinality(dropped[a])
    BY DEF IndInv, EffectInv
  <2>2. /\ Cardinality(On(a, Acting)) \in Nat /\ Cardinality(dropped[a]) \in Nat
        /\ effects[a] \in Nat /\ lost[a] \in Nat
    BY OnFinite, DroppedFinite DEF IndInv, TypeOK
  <2> QED
    BY <2>1, <2>2
<1> QED
  BY <1>1, Invariance, PTL

\* lockApproval keeps requests on one approval apart although its mutexes are
\* swept while in use; each failed count of the sweep lets in one more.
THEOREM CriticalSection == Spec => []EffectExclusion
<1>1. IndInv => EffectExclusion
  BY DEF IndInv
<1> QED
  BY <1>1, Invariance, PTL

\* A rejected approval was not and will not be carried out, if no status write
\* was lost and its mutex was not dropped while it was pending.
THEOREM RejectionWins == Spec => []RejectedMeansUnsent
<1>1. IndInv => RejectedMeansUnsent
  <2> SUFFICES ASSUME IndInv, NEW a \in Approvals, status[a] = "rejected", lost[a] = 0,
                      dropped[a] = {}
               PROVE  effects[a] = 0 /\ On(a, Working \cup Unsaved) = {}
    BY DEF RejectedMeansUnsent
  <2>1. effects[a] = 0
    BY DEF IndInv, TypeOK, VerdictInv
  <2>2. On(a, Working \cup Unsaved) = {}
    BY DEF IndInv, VerdictInv, On
  <2> QED
    BY <2>1, <2>2
<1> QED
  BY <1>1, Invariance, PTL

\* Neither the audit log nor the SSE event claims a success that did not happen,
\* the kinds that take "nothing to write" for success aside.
THEOREM ReportsAreTruthful == Spec => []ReportsTruthful
<1>1. IndInv => ReportsTruthful
  BY DEF IndInv
<1> QED
  BY <1>1, Invariance, PTL

\* No step reopens an approval that has its verdict, or replaces the verdict by
\* another one while the approval's mutex was never dropped.
THEOREM VerdictsStand == Spec => VerdictStands
<1> DEFINE Stands(a) == \/ status'[a] = status[a]
                        \/ status'[a] \in Resolved /\ dropped[a] # {}
                        \/ status'[a] = "expired" /\ due[a]
                        \/ status'[a] = "deleted" /\ walletGone'
<1>1. ASSUME IndInv, [Next]_vars, NEW a \in Approvals, status[a] \in Resolved
      PROVE  Stands(a)
  <2>1. ASSUME NEW b \in Approvals, CreateRow(b) \/ CreateAudit(b) \/ Elapse(b)
        PROVE  Stands(a)
    BY <1>1, <2>1 DEF IndInv, TypeOK, CreateRow, CreateAudit, Elapse
  <2>2. ASSUME NEW h \in Handlers, NEW b \in Approvals,
               Start(h, b, "approve") \/ Start(h, b, "reject") \/ StartGet(h, b)
        PROVE  Stands(a)
    BY <2>2 DEF Start, StartGet
  <2>3. ASSUME NEW h \in Handlers, HandlerStep(h)
        PROVE  Stands(a)
    <3>1. CASE RejectWrite(h) \/ ApproveFail(h) \/ ApproveCommit(h)
      <4>1. target[h] = a /\ dropped[a] = {} => h \notin On(a, Critical)
        BY <1>1 DEF IndInv, VerdictInv
      <4> QED
        BY <1>1, <3>1, <4>1 DEF IndInv, TypeOK, TargetInv, On, RejectWrite, ApproveFail,
                                ApproveCommit
    <3>2. CASE ApproveExpiry(h) \/ GetExpire(h)
      BY <1>1, <3>2 DEF IndInv, TypeOK, TargetInv, ApproveExpiry, GetExpire
    <3> QED
      BY <2>3, <3>1, <3>2 DEF HandlerStep, LoadOrStore, Lock, Recheck, ApproveApply,
         ApproveBuild, ApproveSign, ApproveBudget, ApproveBroadcast, Settle
  <2>4. CASE DeleteWallet
    BY <1>1, <2>4 DEF DeleteWallet
  <2>5. CASE ExpireTick
    BY <1>1, <2>5 DEF ExpireTick
  <2>6. CASE Sweep \/ Crash
    BY <2>6 DEF Sweep, CleanupDelete, CleanupVisit, Crash
  <2>7. CASE UNCHANGED vars
    BY <2>7 DEF vars
  <2> QED
    BY <1>1, <2>1, <2>2, <2>3, <2>4, <2>5, <2>6, <2>7 DEF Next
<1>2. IndInv /\ [Next]_vars =>
        [\A a \in Approvals : status[a] \in Resolved => Stands(a)]_vars
  BY <1>1
<1> QED
  BY <1>2, Invariance, PTL DEF Spec, VerdictStands

-----------------------------------------------------------------------------
(* Row, audit entry and event agree in the end.                            *)

\* Who has written a verdict and not yet reported it is alone with the
\* approval, and the verdict in the row, if there still is one, is its own.
ReporterInv ==
  \A h \in Handlers : pc[h] \in Resolved /\ lost[target[h]] = 0 /\ dropped[target[h]] = {} =>
    /\ status[target[h]] \notin {"none", "pending"}
    /\ status[target[h]] \in Resolved => status[target[h]] = pc[h]
    /\ \A g \in Handlers : target[g] = target[h] /\ pc[g] \in Critical \cup Resolved => g = h

\* The audit entry is written once, by the creator of the row.
CreatorInv ==
  \A a \in Approvals : /\ status[a] = "none" \/ a \in creating => audit[a] = "none"
                       /\ a \in creating => status[a] # "none"

\* A verdict that nobody has still to report was reported.
ReportedInv ==
  \A a \in Approvals :
    /\ status[a] \in Resolved
    /\ lost[a] = 0 /\ dropped[a] = {} /\ crashes = 0
    /\ \A h \in Handlers : target[h] = a => pc[h] \notin Resolved
    => /\ notified[a] = status[a]
       /\ audit[a] = AuditOf(status[a]) \/ auditMissed[a]

SettleInv == ReporterInv /\ CreatorInv /\ ReportedInv

\* Unless a count failed, one request at a time is past the re-check.
LEMMA Alone ==
  ASSUME IndInv, NEW a \in Approvals, dropped[a] = {},
         NEW g \in On(a, Critical), NEW h \in On(a, Critical)
  PROVE  g = h
<1>1. Cardinality(dropped[a]) = 0
  BY FS_EmptySet
<1>2. Cardinality(On(a, Critical)) <= 1
  BY <1>1 DEF IndInv, EffectExclusion
<1>3. IsFiniteSet(On(a, Critical)) /\ Cardinality(On(a, Critical)) \in Nat
  BY OnFinite
<1>4. Cardinality(On(a, Critical)) # 0
  BY <1>3, FS_EmptySet
<1>5. Cardinality(On(a, Critical)) = 1
  BY <1>2, <1>3, <1>4
<1>6. \E x : On(a, Critical) = {x}
  BY <1>3, <1>5, FS_Singleton
<1> QED
  BY <1>6

\* Steps that write neither a status nor a report, and bring no request to
\* either.
LEMMA QuietStep ==
  ASSUME IndInv, SettleInv, NEW h \in Handlers, NEW label \in PCs \ Resolved, Goto(h, label),
         pc[h] \notin Resolved, target' = target,
         label \in Critical => pc[h] \in Critical \/ status[target[h]] = "pending",
         status' = status, creating' = creating, lost' = lost, dropped' = dropped,
         crashes' = crashes, UNCHANGED logVars
  PROVE  SettleInv'
<1>1. \A g \in Handlers : pc'[g] = IF g = h THEN label ELSE pc[g]
  BY DEF IndInv, TypeOK
<1>2. ReporterInv'
  BY <1>1 DEF IndInv, SettleInv, ReporterInv
<1>3. CreatorInv' /\ ReportedInv'
  BY <1>1 DEF SettleInv, CreatorInv, ReportedInv
<1> QED
  BY <1>2, <1>3 DEF SettleInv

\* Whoever writes a verdict is alone with the approval, unless a count failed,
\* and is the one to report it.
LEMMA VerdictStep ==
  ASSUME IndInv, SettleInv, NEW h \in Handlers, pc[h] \in Critical, NEW s \in Resolved,
         Goto(h, s), target' = target, WriteStatus(target[h], s), creating' = creating,
         lost' = lost, dropped' = dropped, crashes' = crashes,
         UNCHANGED logVars
  PROVE  SettleInv'
<1>1. \A g \in Handlers : pc'[g] = IF g = h THEN s ELSE pc[g]
  BY DEF IndInv, TypeOK
<1>2. /\ target[h] \in Approvals /\ status[target[h]] # "none"
      /\ \A a \in Approvals : a # target[h] => status'[a] = status[a]
      /\ status'[target[h]] = IF status[target[h]] = "deleted" THEN "deleted" ELSE s
  BY DEF IndInv, TypeOK, TargetInv
<1>3. \A g \in Handlers : pc[g] # "idle" => target[g] \in Approvals
  BY DEF IndInv, TargetInv
<1>4. ReporterInv'
  <2>1. \A g \in Handlers :
          target[g] = target[h] /\ pc[g] \in Critical /\ dropped[target[h]] = {} => g = h
    BY <1>2, Alone DEF On
  <2> QED
    BY <1>1, <1>2, <1>3, <2>1 DEF SettleInv, ReporterInv
<1>5. CreatorInv'
  BY <1>2 DEF SettleInv, CreatorInv
<1>6. ReportedInv'
  BY <1>1, <1>2, <1>3 DEF SettleInv, ReportedInv
<1> QED
  BY <1>4, <1>5, <1>6 DEF SettleInv

\* A write that is lost ends what the property promises of this approval.
LEMMA LossStep ==
  ASSUME IndInv, SettleInv, NEW h \in Handlers, pc[h] \in Critical, NEW label \in PCs \ Critical,
         Goto(h, label), target' = target, status' = status, creating' = creating,
         lost' = [lost EXCEPT ![target[h]] = @ + 1], dropped' = dropped, crashes' = crashes,
         UNCHANGED logVars
  PROVE  SettleInv'
<1>1. \A g \in Handlers : pc'[g] = IF g = h THEN label ELSE pc[g]
  BY DEF IndInv, TypeOK
<1>2. /\ target[h] \in Approvals
      /\ lost'[target[h]] # 0
      /\ \A a \in Approvals : a # target[h] => lost'[a] = lost[a]
  BY DEF IndInv, TypeOK, TargetInv
<1>3. \A g \in Handlers : pc[g] # "idle" => target[g] \in Approvals
  BY DEF IndInv, TargetInv
<1>4. ReporterInv'
  BY <1>1, <1>2, <1>3 DEF SettleInv, ReporterInv
<1>5. CreatorInv' /\ ReportedInv'
  BY <1>1, <1>2, <1>3 DEF SettleInv, CreatorInv, ReportedInv
<1> QED
  BY <1>4, <1>5 DEF SettleInv

\* Rows that expire or go away carry no verdict any more.
LEMMA ExpiryStep ==
  ASSUME IndInv, SettleInv, NEW h \in Handlers, pc[h] \notin Resolved,
         NEW label \in PCs \ (Critical \cup Resolved), Goto(h, label), target' = target,
         status' \in [Approvals -> Statuses],
         \A a \in Approvals : status'[a] = status[a] \/ status'[a] = "expired",
         creating' = creating, lost' = lost, dropped' = dropped, crashes' = crashes,
         UNCHANGED logVars,
         \A a \in Approvals : status[a] = "none" => status'[a] = "none"
  PROVE  SettleInv'
<1>1. \A g \in Handlers : pc'[g] = IF g = h THEN label ELSE pc[g]
  BY DEF IndInv, TypeOK
<1>2. \A g \in Handlers : pc[g] # "idle" => target[g] \in Approvals
  BY DEF IndInv, TargetInv
<1>3. ReporterInv'
  BY <1>1, <1>2 DEF SettleInv, ReporterInv
<1>4. CreatorInv' /\ ReportedInv'
  BY <1>1 DEF SettleInv, CreatorInv, ReportedInv
<1> QED
  BY <1>3, <1>4 DEF SettleInv

\* Settle reports the verdict of its own request.
LEMMA SettleStep ==
  ASSUME IndInv, SettleInv, NEW h \in Handlers, Settle(h)
  PROVE  SettleInv'
<1>1. /\ \A g \in Handlers : pc'[g] = IF g = h THEN "done" ELSE pc[g]
      /\ target[h] \in Approvals /\ status[target[h]] # "none"
  BY DEF IndInv, TypeOK, TargetInv, Settle
<1>2. /\ status' = status /\ creating' = creating /\ lost' = lost /\ dropped' = dropped
      /\ crashes' = crashes /\ target' = target /\ pc[h] \in Resolved
  BY DEF Settle
<1>3. /\ notified'[target[h]] = pc[h]
      /\ audit'[target[h]] = AuditOf(pc[h]) \/ auditMissed'[target[h]]
      /\ target[h] \in creating => audit'[target[h]] = audit[target[h]]
      /\ \A a \in Approvals : a # target[h] =>
           notified'[a] = notified[a] /\ audit'[a] = audit[a] /\ auditMissed'[a] = auditMissed[a]
  BY <1>1 DEF IndInv, TypeOK, Settle, SettleInv, CreatorInv
<1> HIDE DEF AuditOf
<1>4. ReporterInv'
  BY <1>1, <1>2 DEF SettleInv, ReporterInv
<1>5. CreatorInv'
  BY <1>1, <1>2, <1>3 DEF SettleInv, CreatorInv
<1>6. ReportedInv'
  <2>1. SUFFICES ASSUME NEW a \in Approvals, status[a] \in Resolved, lost[a] = 0,
                        dropped[a] = {}, crashes = 0,
                        \A g \in Handlers : target[g] = a => pc'[g] \notin Resolved
                 PROVE  /\ notified'[a] = status[a]
                        /\ audit'[a] = AuditOf(status[a]) \/ auditMissed'[a]
    BY <1>2 DEF ReportedInv
  <2>2. CASE a = target[h]
    BY <1>2, <1>3, <2>1, <2>2 DEF SettleInv, ReporterInv
  <2>3. CASE a # target[h]
    BY <1>1, <1>3, <2>1, <2>3 DEF SettleInv, ReportedInv
  <2> QED
    BY <2>2, <2>3
<1> QED
  BY <1>4, <1>5, <1>6 DEF SettleInv

\* One step of one request.
LEMMA HandlerSettles ==
  ASSUME IndInv, SettleInv, NEW h \in Handlers, HandlerStep(h)
  PROVE  SettleInv'
<1>1. CASE LoadOrStore(h) \/ Lock(h) \/ Recheck(h)
  BY <1>1, QuietStep DEF LoadOrStore, Lock, Recheck
<1>2. CASE ApproveApply(h) \/ ApproveBuild(h) \/ ApproveSign(h) \/ ApproveBudget(h)
  BY <1>2, QuietStep DEF ApproveApply, ApproveBuild, ApproveSign, ApproveBudget
<1>3. CASE ApproveBroadcast(h)
  BY <1>3, QuietStep DEF ApproveBroadcast
<1>4. CASE ApproveExpiry(h)
  <2>1. target[h] \in Approvals /\ status[target[h]] # "none"
    BY <1>4 DEF IndInv, TargetInv, ApproveExpiry
  <2>2. CASE due[target[h]]
    <3>1. /\ status' \in [Approvals -> Statuses]
          /\ \A a \in Approvals : status'[a] = status[a] \/ status'[a] = "expired"
          /\ \A a \in Approvals : status[a] = "none" => status'[a] = "none"
      BY <1>4, <2>1 DEF ApproveExpiry, IndInv, TypeOK
    <3> QED
      BY <1>4, <2>2, <3>1, ExpiryStep DEF ApproveExpiry
  <2>3. CASE ~due[target[h]]
    BY <1>4, <2>3, QuietStep DEF ApproveExpiry
  <2> QED
    BY <2>2, <2>3
<1>5. CASE RejectWrite(h)
  BY <1>5, VerdictStep, QuietStep DEF RejectWrite
<1>6. CASE ApproveFail(h)
  BY <1>6, VerdictStep, LossStep DEF ApproveFail
<1>7. CASE ApproveCommit(h)
  BY <1>7, VerdictStep, LossStep DEF ApproveCommit
<1>8. CASE Settle(h)
  BY <1>8, SettleStep
<1>9. CASE GetExpire(h)
  <2>1. target[h] \in Approvals /\ status[target[h]] # "none"
    BY <1>9 DEF IndInv, TargetInv, GetExpire
  <2>2. /\ status' \in [Approvals -> Statuses]
        /\ \A a \in Approvals : status'[a] = status[a] \/ status'[a] = "expired"
        /\ \A a \in Approvals : status[a] = "none" => status'[a] = "none"
    BY <1>9, <2>1 DEF GetExpire, IndInv, TypeOK
  <2>3. Goto(h, "done") /\ target' = target /\ creating' = creating /\ lost' = lost
        /\ dropped' = dropped /\ crashes' = crashes /\ UNCHANGED logVars /\ pc[h] = "got"
    BY <1>9 DEF GetExpire
  <2> QED
    BY <2>2, <2>3, ExpiryStep
<1> QED
  BY <1>1, <1>2, <1>3, <1>4, <1>5, <1>6, <1>7, <1>8, <1>9 DEF HandlerStep

\* Steps of nobody's request.
LEMMA EnvironmentSettles ==
  ASSUME IndInv, SettleInv, [Next]_vars, ~ \E h \in Handlers : HandlerStep(h)
  PROVE  SettleInv'
<1>0. \A g \in Handlers : pc[g] # "idle" => target[g] \in Approvals /\ status[target[g]] # "none"
  BY DEF IndInv, TargetInv
<1>1. ASSUME NEW a \in Approvals, CreateRow(a) \/ CreateAudit(a) \/ Elapse(a)
      PROVE  SettleInv'
  <2>1. ReporterInv'
    BY <1>0, <1>1 DEF IndInv, TypeOK, SettleInv, ReporterInv, CreateRow, CreateAudit, Elapse
  <2>2. CreatorInv'
    BY <1>1 DEF IndInv, TypeOK, SettleInv, CreatorInv, CreateRow, CreateAudit, Elapse
  <2>3. ReportedInv'
    BY <1>1 DEF IndInv, TypeOK, SettleInv, CreatorInv, ReportedInv, CreateRow, CreateAudit, Elapse
  <2> QED
    BY <2>1, <2>2, <2>3 DEF SettleInv
<1>2. ASSUME NEW h \in Handlers, NEW a \in Approvals,
             Start(h, a, "approve") \/ Start(h, a, "reject") \/ StartGet(h, a)
      PROVE  SettleInv'
  <2>1. \A g \in Handlers :
          /\ pc'[g] \in Critical \cup Resolved => pc'[g] = pc[g] /\ target'[g] = target[g]
          /\ pc[g] \in Critical \cup Resolved => pc'[g] = pc[g] /\ target'[g] = target[g]
    BY <1>2 DEF IndInv, TypeOK, Start, StartGet
  <2>2. /\ status' = status /\ lost' = lost /\ dropped' = dropped
        /\ crashes' = crashes /\ creating' = creating
        /\ audit' = audit /\ auditMissed' = auditMissed /\ notified' = notified
    BY <1>2 DEF Start, StartGet
  <2> QED
    BY <2>1, <2>2 DEF SettleInv, ReporterInv, CreatorInv, ReportedInv
<1>3. CASE DeleteWallet \/ ExpireTick
  <2>1. /\ pc' = pc /\ target' = target /\ lost' = lost /\ dropped' = dropped
        /\ crashes' = crashes /\ creating' = creating /\ audit' = audit
        /\ auditMissed' = auditMissed /\ notified' = notified
    BY <1>3 DEF DeleteWallet, ExpireTick
  <2>2. \A a \in Approvals : \/ status'[a] = status[a]
                             \/ status[a] # "none" /\ status'[a] \in {"deleted", "expired"}
    BY <1>3 DEF DeleteWallet, ExpireTick
  <2> QED
    BY <1>0, <2>1, <2>2 DEF SettleInv, ReporterInv, CreatorInv, ReportedInv
<1>4. CASE Sweep
  <2>1. /\ pc' = pc /\ target' = target /\ status' = status /\ lost' = lost
        /\ crashes' = crashes /\ creating' = creating /\ audit' = audit
        /\ auditMissed' = auditMissed /\ notified' = notified
    BY <1>4 DEF Sweep, CleanupDelete, CleanupVisit
  <2>2. \A a \in Approvals : dropped'[a] = {} => dropped[a] = {}
    BY <1>4 DEF IndInv, TypeOK, Sweep, CleanupDelete, CleanupVisit
  <2> QED
    BY <1>0, <2>1, <2>2 DEF SettleInv, ReporterInv, CreatorInv, ReportedInv
<1>5. CASE Crash
  <2>1. \A h \in Handlers : pc'[h] \notin Resolved
    BY <1>5 DEF Crash
  <2>2. crashes' # 0
    BY <1>5 DEF IndInv, TypeOK, Crash
  <2>3. CreatorInv'
    BY <1>5 DEF SettleInv, CreatorInv, Crash
  <2> QED
    BY <2>1, <2>2, <2>3 DEF SettleInv, ReporterInv, ReportedInv
<1>6. CASE UNCHANGED vars
  BY <1>6 DEF vars, SettleInv, ReporterInv, CreatorInv, ReportedInv
<1> QED
  BY <1>1, <1>2, <1>3, <1>4, <1>5, <1>6 DEF Next

\* Once no request works on a resolved approval, event and audit entry say what
\* the row says, but for lost writes, crashes, a dropped mutex and an audit update
\* that failed or overtook the creator's entry.
THEOREM ReportsSettle == Spec => []SettledConsistently
<1>1. Init => SettleInv
  BY DEF Init, SettleInv, ReporterInv, CreatorInv, ReportedInv
<1>2. IndInv /\ SettleInv /\ [Next]_vars => SettleInv'
  BY HandlerSettles, EnvironmentSettles
<1>3. SettleInv => SettledConsistently
  BY DEF SettleInv, ReportedInv, SettledConsistently, On
<1> QED
  BY <1>1, <1>2, <1>3, Invariance, PTL DEF Spec
=============================================================================
