-------------------------- MODULE NonceLane_proofs --------------------------
(***************************************************************************)
(* IndInv of NonceLane is inductive for any requests, fees, numbers of     *)
(* attempts and nonces; the safety properties follow from it.              *)
(*                                                                         *)
(* The argument: the address lock makes the requests between reading a     *)
(* nonce and their return a single one (LaneInv), so the pool gains        *)
(* nothing behind its back and the nonce stays the pool's next             *)
(* (NonceFresh).  An operation is sent either by its own request, which    *)
(* then has no verdict, or by the approver that holds its mutex while the  *)
(* verdict is pending (ApprovalInv).  As long as one of them is left, each *)
(* of its payments was answered with "already known" (PaidInv), unless the *)
(* verdict could not be stored.                                            *)
(***************************************************************************)
EXTENDS NonceLane, FiniteSetTheorems, TLAPS

\* A turn that is not the last leaves room for the next.
LEMMA OneMore ==
  ASSUME NEW m \in Nat, NEW a \in 0 .. (m - 1), a + 1 < m
  PROVE  a + 1 \in 0 .. (m - 1)
  OBVIOUS

USE DEF lockVars, reqVars, locals, nodeVars, rowVars, Building, Holding, Ending, InLane, PCs,
        Goto, Requests

-----------------------------------------------------------------------------
(* Types.                                                                  *)

\* The empty transaction is one.
LEMMA NoTxType == NoTx \in Tx
  BY DEF NoTx, Tx

\* BumpETHGas stays in the naturals.
LEMMA BumpType == ASSUME NEW v \in Nat PROVE Bump(v) \in Nat
<1>1. (v * 125) \div 100 \in Nat
  BY SMT
<1> QED
  BY <1>1 DEF Bump

\* The return path resets what it touches.
LEMMA ReturnType ==
  ASSUME TypeOK, NEW r \in Requests, Return(r)
  PROVE  /\ lane' \in Requests \cup {None} /\ spendMu' = spendMu
         /\ approvalMu' \in [Operations -> Approvers \cup {None}]
         /\ pc' \in [Requests -> PCs]
         /\ cur' \in [Requests -> Tx] /\ signed' \in [Requests -> Tx]
         /\ attempt' \in [Requests -> 0 .. (MaxAttempts - 1)]
         /\ charged' \in [Requests -> BOOLEAN] /\ blind' \in [Requests -> BOOLEAN]
<1>1. lane' \in Requests \cup {None} /\ spendMu' = spendMu
  BY DEF TypeOK, Return
<1>2. approvalMu' \in [Operations -> Approvers \cup {None}]
  BY DEF TypeOK, Return
<1>3. pc' \in [Requests -> PCs]
  BY DEF TypeOK, Return
<1>4. cur' \in [Requests -> Tx] /\ signed' \in [Requests -> Tx]
  BY NoTxType DEF TypeOK, Return, Forget
<1>5. 0 \in 0 .. (MaxAttempts - 1)
  BY NonceAssumption
<1>6. attempt' \in [Requests -> 0 .. (MaxAttempts - 1)]
  BY <1>5 DEF TypeOK, Return, Forget
<1>7. charged' \in [Requests -> BOOLEAN] /\ blind' \in [Requests -> BOOLEAN]
  BY DEF TypeOK, Return, Forget
<1> QED
  BY <1>1, <1>2, <1>3, <1>4, <1>6, <1>7

-----------------------------------------------------------------------------
(* Payments.                                                               *)

Open(o) == pc[o] \notin {"refund", "refunding", "settle", "done"} \/ verdict[o] = "pending"

\* An operation is paid a finite number of times.
LEMMA UsedNat == ASSUME NEW o PROVE Used(o) \in Nat /\ IsFiniteSet({n \in Nonces : <<o, n>> \in admitted})
<1>1. IsFiniteSet(Nonces)
  <2>1. 0 \in Int /\ MaxNonce - 1 \in Int
    BY NonceAssumption
  <2> QED
    BY <2>1, FS_Interval DEF Nonces
<1>2. IsFiniteSet({n \in Nonces : <<o, n>> \in admitted})
  BY <1>1, FS_Subset
<1> QED
  BY <1>2, FS_CardinalityType DEF Used

\* What the node does not take changes no count.
LEMMA UsedKept == ASSUME admitted' = admitted, NEW o PROVE Used(o)' = Used(o)
  BY DEF Used

\* An accepted transaction takes at most one nonce more, of its operation only.
LEMMA UsedGrows ==
  ASSUME NEW p \in Operations, NEW m \in Nonces, admitted' = admitted \cup {<<p, m>>}
  PROVE  /\ Used(p)' \in Nat /\ Used(p)' <= Used(p) + 1
         /\ \A o \in Operations \ {p} : Used(o)' = Used(o)
<1> DEFINE U == {n \in Nonces : <<p, n>> \in admitted}
<1>1. {n \in Nonces : <<p, n>> \in admitted'} = U \cup {m}
  OBVIOUS
<1>2. IsFiniteSet(U) /\ Cardinality(U) \in Nat
  BY UsedNat, FS_CardinalityType
<1>3. Cardinality(U \cup {m}) = IF m \in U THEN Cardinality(U) ELSE Cardinality(U) + 1
  BY <1>2, FS_AddElement
<1>4. Used(p)' = Cardinality(U \cup {m}) /\ Used(p) = Cardinality(U)
  BY <1>1 DEF Used
<1>5. ASSUME NEW o \in Operations \ {p} PROVE Used(o)' = Used(o)
  <2>1. {n \in Nonces : <<o, n>> \in admitted'} = {n \in Nonces : <<o, n>> \in admitted}
    OBVIOUS
  <2> QED
    BY <2>1 DEF Used
<1> HIDE DEF U
<1> QED
  BY <1>2, <1>3, <1>4, <1>5

\* A step that reopens no operation and that the node takes nothing from.
LEMMA PaidKept ==
  ASSUME IndInv, UNCHANGED <<admitted, echoes>>, unrecorded \subseteq unrecorded',
         \A o \in Operations \ unrecorded' : Open(o)' => Open(o)
  PROVE  PaidInv' /\ PaidOnce'
  BY UsedKept DEF IndInv, PaidInv, PaidOnce, Open

\* The node takes a transaction of p: nobody else may send p any more, or the
\* answer was "already known".
LEMMA PaidMore ==
  ASSUME IndInv, NEW p \in Operations, NEW m \in Nonces, admitted' = admitted \cup {<<p, m>>},
         p \notin unrecorded' => Open(p),
         unrecorded \subseteq unrecorded',
         \A o \in Operations \ unrecorded' : Open(o)' => Open(o),
         \/ echoes' = echoes /\ (p \in unrecorded' \/ ~Open(p)')
         \/ echoes' = [echoes EXCEPT ![p] = @ + 1]
  PROVE  PaidInv' /\ PaidOnce'
<1>1. ASSUME NEW o \in Operations \ unrecorded', o # p
      PROVE  (Open(o)' => Used(o)' <= echoes'[o]) /\ Used(o)' <= 1 + echoes'[o]
  <2>1. Used(o)' = Used(o) /\ echoes'[o] = echoes[o]
    BY <1>1, UsedGrows DEF IndInv, TypeOK
  <2> QED
    BY <1>1, <2>1 DEF IndInv, PaidInv, PaidOnce, Open
<1>2. ASSUME p \notin unrecorded'
      PROVE  (Open(p)' => Used(p)' <= echoes'[p]) /\ Used(p)' <= 1 + echoes'[p]
  <2>1. Used(p)' \in Nat /\ Used(p) \in Nat /\ Used(p)' <= Used(p) + 1
    BY UsedGrows, UsedNat
  <2>2. Used(p) <= echoes[p] /\ echoes[p] \in Nat
    BY <1>2 DEF IndInv, TypeOK, PaidInv, Open
  <2>3. \/ echoes'[p] = echoes[p] /\ ~Open(p)'
        \/ echoes'[p] = echoes[p] + 1
    BY <1>2 DEF IndInv, TypeOK
  <2> QED
    BY <2>1, <2>2, <2>3
<1> QED
  BY <1>1, <1>2 DEF PaidInv, PaidOnce, Open

-----------------------------------------------------------------------------
(* One lemma per action.                                                   *)

\* A request of its own goes for the lane.
LEMMA ArrivePreserves ==
  ASSUME IndInv, NEW r \in Requests, Arrive(r)
  PROVE  IndInv'
<1>1. TypeOK'
  BY NonceAssumption DEF IndInv, TypeOK, RoleInv, Arrive
<1>2. LaneInv'
  BY NonceAssumption DEF IndInv, TypeOK, LaneInv, RoleInv, Arrive
<1>3. RoleInv'
  BY NonceAssumption DEF IndInv, TypeOK, RoleInv, Arrive
<1>4. ApprovalInv'
  BY NonceAssumption DEF IndInv, TypeOK, RoleInv, ApprovalInv, Arrive
<1>5. PaidInv' /\ PaidOnce'
  BY PaidKept, NonceAssumption
  DEF IndInv, TypeOK, RoleInv, ApprovalInv, Open, Arrive
<1>6. NonceFresh'
  BY NonceAssumption DEF IndInv, TypeOK, RoleInv, NonceFresh, IsPending, Arrive
<1> QED
  BY <1>1, <1>2, <1>3, <1>4, <1>5, <1>6 DEF IndInv

\* An approver goes for its mutex.
LEMMA ArriveApprovePreserves ==
  ASSUME IndInv, NEW r \in Requests, ArriveApprove(r)
  PROVE  IndInv'
<1>1. TypeOK'
  BY NonceAssumption DEF IndInv, TypeOK, RoleInv, ArriveApprove
<1>2. LaneInv'
  BY NonceAssumption DEF IndInv, TypeOK, LaneInv, RoleInv, ArriveApprove
<1>3. RoleInv'
  BY NonceAssumption DEF IndInv, TypeOK, RoleInv, ArriveApprove
<1>4. ApprovalInv'
  BY NonceAssumption DEF IndInv, TypeOK, RoleInv, ApprovalInv, ArriveApprove
<1>5. PaidInv' /\ PaidOnce'
  BY PaidKept, NonceAssumption
  DEF IndInv, TypeOK, RoleInv, ApprovalInv, Open, ArriveApprove
<1>6. NonceFresh'
  BY NonceAssumption DEF IndInv, TypeOK, RoleInv, NonceFresh, IsPending, ArriveApprove
<1> QED
  BY <1>1, <1>2, <1>3, <1>4, <1>5, <1>6 DEF IndInv

\* The mutex was free, so no other approver is past the re-check.
LEMMA LockApprovalPreserves ==
  ASSUME IndInv, NEW r \in Requests, LockApproval(r)
  PROVE  IndInv'
<1>1. TypeOK'
  BY NonceAssumption DEF IndInv, TypeOK, RoleInv, LockApproval
<1>2. LaneInv'
  BY NonceAssumption DEF IndInv, TypeOK, LaneInv, RoleInv, LockApproval
<1>3. RoleInv'
  BY NonceAssumption DEF IndInv, TypeOK, RoleInv, LockApproval
<1>4. ApprovalInv'
  BY NonceAssumption DEF IndInv, TypeOK, RoleInv, ApprovalInv, LockApproval
<1>5. PaidInv' /\ PaidOnce'
  BY PaidKept, NonceAssumption
  DEF IndInv, TypeOK, RoleInv, ApprovalInv, Open, LockApproval
<1>6. NonceFresh'
  BY NonceAssumption DEF IndInv, TypeOK, RoleInv, NonceFresh, IsPending, LockApproval
<1> QED
  BY <1>1, <1>2, <1>3, <1>4, <1>5, <1>6 DEF IndInv

\* The approval is pending, or the approver returns.
LEMMA RecheckPreserves ==
  ASSUME IndInv, NEW r \in Requests, Recheck(r)
  PROVE  IndInv'
<1>1. TypeOK'
  <2>1. CASE verdict[target[r]] = "pending"
    BY <2>1 DEF IndInv, TypeOK, Recheck
  <2>2. CASE verdict[target[r]] # "pending"
    BY <2>2, ReturnType DEF IndInv, TypeOK, Recheck
  <2> QED
    BY <2>1, <2>2
<1>2. LaneInv'
  BY NonceAssumption DEF IndInv, TypeOK, LaneInv, RoleInv, Recheck, Return, Forget
<1>3. RoleInv'
  BY NonceAssumption DEF IndInv, TypeOK, RoleInv, Recheck, Return, Forget
<1>4. ApprovalInv'
  BY NonceAssumption DEF IndInv, TypeOK, RoleInv, ApprovalInv, Recheck, Return, Forget
<1>5. PaidInv' /\ PaidOnce'
  BY PaidKept, NonceAssumption
  DEF IndInv, TypeOK, RoleInv, ApprovalInv, Open, Recheck, Return, Forget
<1>6. NonceFresh'
  BY NonceAssumption DEF IndInv, TypeOK, RoleInv, NonceFresh, IsPending, Recheck, Return, Forget
<1> QED
  BY <1>1, <1>2, <1>3, <1>4, <1>5, <1>6 DEF IndInv

\* The lane was free, so nobody is in it.
LEMMA LockAddrPreserves ==
  ASSUME IndInv, NEW r \in Requests, LockAddr(r)
  PROVE  IndInv'
<1>1. TypeOK'
  BY NonceAssumption DEF IndInv, TypeOK, RoleInv, LockAddr
<1>2. LaneInv'
  BY NonceAssumption DEF IndInv, TypeOK, LaneInv, RoleInv, LockAddr
<1>3. RoleInv'
  BY NonceAssumption DEF IndInv, TypeOK, RoleInv, LockAddr
<1>4. ApprovalInv'
  BY NonceAssumption DEF IndInv, TypeOK, RoleInv, ApprovalInv, LockAddr
<1>5. PaidInv' /\ PaidOnce'
  BY PaidKept, NonceAssumption
  DEF IndInv, TypeOK, RoleInv, ApprovalInv, Open, LockAddr
<1>6. NonceFresh'
  BY NonceAssumption DEF IndInv, TypeOK, RoleInv, NonceFresh, IsPending, LockAddr
<1> QED
  BY <1>1, <1>2, <1>3, <1>4, <1>5, <1>6 DEF IndInv

\* The decision touches no lock and no transaction.
LEMMA PolicyPreserves ==
  ASSUME IndInv, NEW r \in Requests, Policy(r)
  PROVE  IndInv'
<1>1. TypeOK'
  BY NonceAssumption DEF IndInv, TypeOK, RoleInv, Policy
<1>2. LaneInv'
  BY NonceAssumption DEF IndInv, TypeOK, LaneInv, RoleInv, Policy
<1>3. RoleInv'
  BY NonceAssumption DEF IndInv, TypeOK, RoleInv, Policy
<1>4. ApprovalInv'
  BY NonceAssumption DEF IndInv, TypeOK, RoleInv, ApprovalInv, Policy
<1>5. PaidInv' /\ PaidOnce'
  BY PaidKept, NonceAssumption
  DEF IndInv, TypeOK, RoleInv, ApprovalInv, Open, Policy
<1>6. NonceFresh'
  BY NonceAssumption DEF IndInv, TypeOK, RoleInv, NonceFresh, IsPending, Policy
<1> QED
  BY <1>1, <1>2, <1>3, <1>4, <1>5, <1>6 DEF IndInv

\* The wallet mutex guards the counter only.
LEMMA EnterSpendPreserves ==
  ASSUME IndInv, NEW r \in Requests, EnterSpend(r)
  PROVE  IndInv'
<1>1. TypeOK'
  BY NonceAssumption DEF IndInv, TypeOK, RoleInv, EnterSpend
<1>2. LaneInv'
  BY NonceAssumption DEF IndInv, TypeOK, LaneInv, RoleInv, EnterSpend
<1>3. RoleInv'
  BY NonceAssumption DEF IndInv, TypeOK, RoleInv, EnterSpend
<1>4. ApprovalInv'
  BY NonceAssumption DEF IndInv, TypeOK, RoleInv, ApprovalInv, EnterSpend
<1>5. PaidInv' /\ PaidOnce'
  BY PaidKept, NonceAssumption
  DEF IndInv, TypeOK, RoleInv, ApprovalInv, Open, EnterSpend
<1>6. NonceFresh'
  BY NonceAssumption DEF IndInv, TypeOK, RoleInv, NonceFresh, IsPending, EnterSpend
<1> QED
  BY <1>1, <1>2, <1>3, <1>4, <1>5, <1>6 DEF IndInv

\* Nor does leaving it.
LEMMA LeaveDeductPreserves ==
  ASSUME IndInv, NEW r \in Requests, LeaveDeduct(r)
  PROVE  IndInv'
<1>1. TypeOK'
  <2>1. pc' \in [Requests -> PCs] /\ spendMu' \in Requests \cup {None}
    BY DEF IndInv, TypeOK, LeaveDeduct
  <2>2. charged' \in [Requests -> BOOLEAN]
    BY DEF IndInv, TypeOK, LeaveDeduct
  <2> QED
    BY <2>1, <2>2 DEF IndInv, TypeOK, LeaveDeduct
<1>2. LaneInv'
  BY NonceAssumption DEF IndInv, TypeOK, LaneInv, RoleInv, LeaveDeduct
<1>3. RoleInv'
  BY NonceAssumption DEF IndInv, TypeOK, RoleInv, LeaveDeduct
<1>4. ApprovalInv'
  BY NonceAssumption DEF IndInv, TypeOK, RoleInv, ApprovalInv, LeaveDeduct
<1>5. PaidInv' /\ PaidOnce'
  BY PaidKept, NonceAssumption
  DEF IndInv, TypeOK, RoleInv, ApprovalInv, Open, LeaveDeduct
<1>6. NonceFresh'
  BY NonceAssumption DEF IndInv, TypeOK, RoleInv, NonceFresh, IsPending, LeaveDeduct
<1> QED
  BY <1>1, <1>2, <1>3, <1>4, <1>5, <1>6 DEF IndInv

\* A roll-back is on the way out.
LEMMA LeaveRefundPreserves ==
  ASSUME IndInv, NEW r \in Requests, LeaveRefund(r)
  PROVE  IndInv'
<1>1. TypeOK'
  BY NonceAssumption DEF IndInv, TypeOK, RoleInv, LeaveRefund
<1>2. LaneInv'
  BY NonceAssumption DEF IndInv, TypeOK, LaneInv, RoleInv, LeaveRefund
<1>3. RoleInv'
  BY NonceAssumption DEF IndInv, TypeOK, RoleInv, LeaveRefund
<1>4. ApprovalInv'
  BY NonceAssumption DEF IndInv, TypeOK, RoleInv, ApprovalInv, LeaveRefund
<1>5. PaidInv' /\ PaidOnce'
  BY PaidKept, NonceAssumption
  DEF IndInv, TypeOK, RoleInv, ApprovalInv, Open, LeaveRefund
<1>6. NonceFresh'
  BY NonceAssumption DEF IndInv, TypeOK, RoleInv, NonceFresh, IsPending, LeaveRefund
<1> QED
  BY <1>1, <1>2, <1>3, <1>4, <1>5, <1>6 DEF IndInv

\* The operation has not been sent: its request was still at work.
LEMMA QueuePreserves ==
  ASSUME IndInv, NEW r \in Requests, Queue(r)
  PROVE  IndInv'
<1>1. TypeOK'
  <2>1. verdict' \in [Operations -> {"none", "pending", "approved", "failed"}]
    BY DEF IndInv, TypeOK, Queue
  <2> QED
    BY <2>1, ReturnType DEF IndInv, TypeOK, Queue
<1>2. LaneInv'
  BY NonceAssumption DEF IndInv, TypeOK, LaneInv, RoleInv, Queue, Return, Forget
<1>3. RoleInv'
  BY NonceAssumption DEF IndInv, TypeOK, RoleInv, Queue, Return, Forget
<1>4. ApprovalInv'
  BY NonceAssumption DEF IndInv, TypeOK, RoleInv, ApprovalInv, Queue, Return, Forget
<1>5. PaidInv' /\ PaidOnce'
  BY PaidKept, NonceAssumption
  DEF IndInv, TypeOK, RoleInv, ApprovalInv, Open, Queue, Return, Forget
<1>6. NonceFresh'
  BY NonceAssumption DEF IndInv, TypeOK, RoleInv, NonceFresh, IsPending, Queue, Return, Forget
<1> QED
  BY <1>1, <1>2, <1>3, <1>4, <1>5, <1>6 DEF IndInv

\* The request returns.
LEMMA SettlePreserves ==
  ASSUME IndInv, NEW r \in Requests, Settle(r)
  PROVE  IndInv'
<1>1. TypeOK'
  BY ReturnType DEF IndInv, TypeOK, Settle
<1>2. LaneInv'
  BY NonceAssumption DEF IndInv, TypeOK, LaneInv, RoleInv, Settle, Return, Forget
<1>3. RoleInv'
  BY NonceAssumption DEF IndInv, TypeOK, RoleInv, Settle, Return, Forget
<1>4. ApprovalInv'
  BY NonceAssumption DEF IndInv, TypeOK, RoleInv, ApprovalInv, Settle, Return, Forget
<1>5. PaidInv' /\ PaidOnce'
  BY PaidKept, NonceAssumption
  DEF IndInv, TypeOK, RoleInv, ApprovalInv, Open, Settle, Return, Forget
<1>6. NonceFresh'
  BY NonceAssumption DEF IndInv, TypeOK, RoleInv, NonceFresh, IsPending, Settle, Return, Forget
<1> QED
  BY <1>1, <1>2, <1>3, <1>4, <1>5, <1>6 DEF IndInv

\* A signature changes nothing the node knows.
LEMMA SignPreserves ==
  ASSUME IndInv, NEW r \in Requests, Sign(r)
  PROVE  IndInv'
<1>1. TypeOK'
  BY NonceAssumption DEF IndInv, TypeOK, RoleInv, Sign, Failed, FailLabel, Record, SigningHash
<1>2. LaneInv'
  BY NonceAssumption
  DEF IndInv, TypeOK, LaneInv, RoleInv, Sign, Failed, FailLabel, Record, SigningHash
<1>3. RoleInv'
  BY NonceAssumption DEF IndInv, TypeOK, RoleInv, Sign, Failed, FailLabel, Record, SigningHash
<1>4. ApprovalInv'
  BY NonceAssumption
  DEF IndInv, TypeOK, RoleInv, ApprovalInv, Sign, Failed, FailLabel, Record, SigningHash
<1>5. PaidInv' /\ PaidOnce'
  BY PaidKept, NonceAssumption
  DEF IndInv, TypeOK, RoleInv, ApprovalInv, Open, Sign, Failed, FailLabel, Record,
      SigningHash
<1>6. NonceFresh'
  BY NonceAssumption
  DEF IndInv, TypeOK, RoleInv, NonceFresh, IsPending, Sign, Failed, FailLabel, Record, SigningHash
<1> QED
  BY <1>1, <1>2, <1>3, <1>4, <1>5, <1>6 DEF IndInv

\* The nonce stays.
LEMMA BumpGasPreserves ==
  ASSUME IndInv, NEW r \in Requests, BumpGas(r)
  PROVE  IndInv'
<1>0. /\ cur' \in [Requests -> Tx]
      /\ \A g \in Requests : cur'[g].op = cur[g].op /\ cur'[g].nonce = cur[g].nonce
  <2>1. CASE cur' = cur
    BY <2>1 DEF IndInv, TypeOK
  <2>2. CASE cur' = [cur EXCEPT ![r].tip = Bump(@), ![r].max = Bump(@)]
    <3>1. /\ cur[r] \in Tx /\ Bump(cur[r].tip) \in Nat /\ Bump(cur[r].max) \in Nat
      BY BumpType DEF IndInv, TypeOK, Tx
    <3>2. cur' = [cur EXCEPT ![r] = [cur[r] EXCEPT !.tip = Bump(cur[r].tip), !.max = Bump(cur[r].max)]]
      BY <2>2, <3>1 DEF IndInv, TypeOK, Tx
    <3>3. /\ [cur[r] EXCEPT !.tip = Bump(cur[r].tip), !.max = Bump(cur[r].max)] \in Tx
          /\ [cur[r] EXCEPT !.tip = Bump(cur[r].tip), !.max = Bump(cur[r].max)].op = cur[r].op
          /\ [cur[r] EXCEPT !.tip = Bump(cur[r].tip), !.max = Bump(cur[r].max)].nonce = cur[r].nonce
      BY <3>1 DEF Tx
    <3> QED
      BY <3>2, <3>3 DEF IndInv, TypeOK
  <2> QED
    BY <2>1, <2>2 DEF BumpGas
<1>1. TypeOK'
  <2>1. /\ verdict' \in [Operations -> {"none", "pending", "approved", "failed"}]
        /\ unrecorded' \subseteq Operations
    BY DEF IndInv, TypeOK, RoleInv, BumpGas, Failed, Record
  <2> QED
    BY <1>0, <2>1 DEF IndInv, TypeOK, BumpGas, Failed, FailLabel
<1>2. LaneInv'
  BY NonceAssumption DEF IndInv, TypeOK, LaneInv, RoleInv, BumpGas, Failed, FailLabel
<1>3. RoleInv'
  BY <1>0, NonceAssumption DEF IndInv, TypeOK, RoleInv, BumpGas, Failed, FailLabel
<1>4. ApprovalInv'
  BY NonceAssumption DEF IndInv, TypeOK, RoleInv, ApprovalInv, BumpGas, Failed, FailLabel, Record
<1>5. PaidInv' /\ PaidOnce'
  BY PaidKept, NonceAssumption
  DEF IndInv, TypeOK, RoleInv, ApprovalInv, Open, BumpGas,
       Failed, FailLabel, Record
<1>6. NonceFresh'
  BY <1>0 DEF IndInv, TypeOK, NonceFresh, IsPending, BumpGas, Failed, FailLabel
<1> QED
  BY <1>1, <1>2, <1>3, <1>4, <1>5, <1>6 DEF IndInv

\* What FreshParams writes: an operation, a nonce and fees.
LEMMA FreshType ==
  ASSUME IndInv, NEW r \in Requests, pc[r] # "idle", NEW n \in Nonces, NEW fees,
         fees.tip \in Nat, fees.max \in Nat, FreshParams(r, n, fees)
  PROVE  /\ cur' \in [Requests -> Tx] /\ blind' \in [Requests -> BOOLEAN]
         /\ cur'[r].op = target[r] /\ cur'[r].nonce = n /\ blind'[r] = ~IsPending(n)
         /\ \A g \in Requests : g # r => cur'[g] = cur[g] /\ blind'[g] = blind[g]
<1> DEFINE t == [op |-> target[r], nonce |-> n, tip |-> fees.tip, max |-> fees.max]
<1>1. t \in Tx /\ t.op = target[r] /\ t.nonce = n
  BY NonceAssumption DEF IndInv, TypeOK, Tx, Nonces
<1>2. cur' = [cur EXCEPT ![r] = t]
  BY DEF FreshParams
<1> HIDE DEF t
<1>3. IsPending(n) \in BOOLEAN
  BY DEF IsPending
<1>4. blind' = [blind EXCEPT ![r] = ~IsPending(n)]
  BY DEF FreshParams
<1>5. blind' \in [Requests -> BOOLEAN] /\ blind'[r] = ~IsPending(n)
      /\ \A g \in Requests : g # r => blind'[g] = blind[g]
  BY <1>3, <1>4 DEF IndInv, TypeOK
<1> QED
  BY <1>1, <1>2, <1>5 DEF IndInv, TypeOK

\* The nonce read is the pool's next, or known not to be.
LEMMA BuiltPreserves ==
  ASSUME IndInv, NEW r \in Requests, NEW label \in {"policy", "sign"}, Built(r, label),
         r \in Approvers => label = "sign"
  PROVE  IndInv'
<1>1. CASE Return(r)
  <2>1. TypeOK'
    BY <1>1, ReturnType DEF IndInv, TypeOK, Built
  <2>2. LaneInv' /\ RoleInv'
    BY <1>1, NonceAssumption DEF IndInv, TypeOK, LaneInv, RoleInv, Built, Return, Forget
  <2>3. ApprovalInv'
    BY <1>1, NonceAssumption DEF IndInv, TypeOK, RoleInv, ApprovalInv, Built, Return
  <2>4. PaidInv' /\ PaidOnce'
    BY <1>1, PaidKept, NonceAssumption DEF IndInv, TypeOK, Open, Built, Return
  <2>5. NonceFresh'
    BY <1>1 DEF IndInv, TypeOK, NonceFresh, IsPending, Built, Return, Forget
  <2> QED
    BY <2>1, <2>2, <2>3, <2>4, <2>5 DEF IndInv
<1>2. ASSUME NEW n \in Nonces, NEW base \in Bases, NEW tip \in Tips, ReadNonce(n),
             FreshParams(r, n, GasFees(base, tip)), Goto(r, label),
             UNCHANGED <<lockVars, signed, attempt, charged>>
      PROVE  IndInv'
  <2>1. GasFees(base, tip).tip \in Nat /\ GasFees(base, tip).max \in Nat
    BY NonceAssumption DEF GasFees
  <2>2. pc[r] = "build" /\ UNCHANGED <<target, rowVars, nodeVars>>
    BY DEF Built
  <2>3. /\ cur' \in [Requests -> Tx] /\ blind' \in [Requests -> BOOLEAN]
        /\ cur'[r].op = target[r] /\ cur'[r].nonce = n /\ blind'[r] = ~IsPending(n)
        /\ \A g \in Requests : g # r => cur'[g] = cur[g] /\ blind'[g] = blind[g]
    BY <1>2, <2>1, <2>2, FreshType
  <2>4. TypeOK'
    BY <1>2, <2>2, <2>3 DEF IndInv, TypeOK
  <2>5. LaneInv' /\ RoleInv'
    BY <1>2, <2>2, <2>3 DEF IndInv, TypeOK, LaneInv, RoleInv
  <2>6. ApprovalInv' /\ PaidInv' /\ PaidOnce'
    BY <1>2, <2>2, PaidKept DEF IndInv, TypeOK, RoleInv, ApprovalInv, Open
  <2>7. NonceFresh'
    BY <1>2, <2>2, <2>3 DEF IndInv, TypeOK, NonceFresh, IsPending
  <2> QED
    BY <2>4, <2>5, <2>6, <2>7 DEF IndInv
<1> QED
  BY <1>1, <1>2 DEF Built

\* A refreshed nonce, as a first one; or the request fails.
LEMMA RefreshNoncePreserves ==
  ASSUME IndInv, NEW r \in Requests, RefreshNonce(r)
  PROVE  IndInv'
<1>0. pc[r] = "refresh" /\ UNCHANGED <<target, signed, attempt, charged, nodeVars>>
  BY DEF RefreshNonce
<1>1. ASSUME NEW n \in Nonces, FreshParams(r, n, cur[r]), Goto(r, "sign"),
             UNCHANGED <<lockVars, rowVars>>
      PROVE  IndInv'
  <2>1. cur[r].tip \in Nat /\ cur[r].max \in Nat
    BY DEF IndInv, TypeOK, Tx
  <2>3. /\ cur' \in [Requests -> Tx] /\ blind' \in [Requests -> BOOLEAN]
        /\ cur'[r].op = target[r] /\ cur'[r].nonce = n /\ blind'[r] = ~IsPending(n)
        /\ \A g \in Requests : g # r => cur'[g] = cur[g] /\ blind'[g] = blind[g]
    BY <1>0, <1>1, <2>1, FreshType
  <2>4. TypeOK'
    BY <1>0, <1>1, <2>3 DEF IndInv, TypeOK
  <2>5. LaneInv' /\ RoleInv'
    BY <1>0, <1>1, <2>3 DEF IndInv, TypeOK, LaneInv, RoleInv
  <2>6. ApprovalInv' /\ PaidInv' /\ PaidOnce'
    BY <1>0, <1>1, PaidKept DEF IndInv, TypeOK, RoleInv, ApprovalInv, Open
  <2>7. NonceFresh'
    BY <1>0, <1>1, <2>3 DEF IndInv, TypeOK, NonceFresh, IsPending
  <2> QED
    BY <2>4, <2>5, <2>6, <2>7 DEF IndInv
<1>2. CASE Failed(r) /\ UNCHANGED <<cur, blind>>
  <2>1. TypeOK'
    BY <1>0, <1>2 DEF IndInv, TypeOK, RoleInv, Failed, FailLabel, Record
  <2>2. LaneInv' /\ RoleInv'
    BY <1>0, <1>2, NonceAssumption DEF IndInv, TypeOK, LaneInv, RoleInv, Failed, FailLabel
  <2>3. ApprovalInv'
    BY <1>0, <1>2, NonceAssumption
    DEF IndInv, TypeOK, RoleInv, ApprovalInv, Failed, FailLabel, Record
  <2>4. PaidInv' /\ PaidOnce'
    BY <1>0, <1>2, PaidKept, NonceAssumption DEF IndInv, TypeOK, RoleInv, ApprovalInv, Open,
         Failed, FailLabel, Record
  <2>5. NonceFresh'
    BY <1>0, <1>2 DEF IndInv, TypeOK, NonceFresh, IsPending, Failed, FailLabel
  <2> QED
    BY <2>1, <2>2, <2>3, <2>4, <2>5 DEF IndInv
<1> QED
  BY <1>1, <1>2 DEF RefreshNonce

\* What the node takes is a transaction of the operation at hand.
LEMMA AcceptType ==
  ASSUME IndInv, NEW r \in Requests, pc[r] = "send", Accept(cur[r]),
         UNCHANGED echoes \/ Echo(cur[r])
  PROVE  /\ slot' \in [Nonces -> Tx] /\ ever' \subseteq Nonces
         /\ admitted' \subseteq Operations \X Nonces
         /\ echoes' \in [Operations -> Nat]
         /\ mined' = mined /\ evictions' = evictions
         /\ target[r] \in Operations /\ cur[r].nonce \in Nonces
         /\ admitted' = admitted \cup {<<target[r], cur[r].nonce>>}
         /\ UNCHANGED echoes \/ echoes' = [echoes EXCEPT ![target[r]] = @ + 1]
<1>1. /\ target[r] \in Operations /\ cur[r].op = target[r] /\ cur[r].nonce \in Nonces
      /\ cur[r] \in Tx
  BY DEF IndInv, TypeOK, RoleInv
<1>2. echoes' \in [Operations -> Nat]
  BY <1>1 DEF IndInv, TypeOK, Echo
<1> QED
  BY <1>1, <1>2 DEF IndInv, TypeOK, Accept, Echo

\* The request that sends an operation may send it.
LEMMA SenderIsOpen ==
  ASSUME IndInv, NEW r \in Requests, pc[r] = "send"
  PROVE  Open(target[r]) /\ (r \in Operations => target[r] = r)
         /\ (r \in Approvers => pc[target[r]] = "done")
  BY NonceAssumption DEF IndInv, TypeOK, RoleInv, ApprovalInv, Open

\* A failing request leaves the lane for its way out.  When the node has just
\* taken its transaction, the operation is recorded as paid and nobody is left to
\* send it again.
LEMMA UnansweredPreserves ==
  ASSUME IndInv, NEW r \in Requests, pc[r] = "send", Unanswered(r), target' = target,
         \/ UNCHANGED nodeVars
         \/ Accept(cur[r]) /\ (UNCHANGED echoes \/ Echo(cur[r]))
  PROVE  IndInv'
<1>0. /\ target[r] \in Operations /\ cur[r].op = target[r] /\ cur[r].nonce \in Nonces
      /\ cur[r] \in Tx
  BY DEF IndInv, TypeOK, RoleInv
<1>1. TypeOK'
  <2>1. /\ verdict' \in [Operations -> {"none", "pending", "approved", "failed"}]
        /\ unrecorded' \subseteq Operations
    BY <1>0 DEF IndInv, TypeOK, Unanswered, Failed, Record
  <2>2. /\ slot' \in [Nonces -> Tx] /\ ever' \subseteq Nonces
        /\ admitted' \subseteq Operations \X Nonces
        /\ echoes' \in [Operations -> Nat]
        /\ mined' = mined /\ evictions' = evictions
    BY AcceptType DEF IndInv, TypeOK
  <2>3. pc' \in [Requests -> PCs]
    BY DEF IndInv, TypeOK, Unanswered, Failed, FailLabel
  <2> QED
    BY <2>1, <2>2, <2>3 DEF IndInv, TypeOK, Unanswered, Failed
<1>2. \A g \in Requests : pc'[g] = IF g = r THEN FailLabel(r) ELSE pc[g]
  BY DEF IndInv, TypeOK, Unanswered, Failed
<1>3. FailLabel(r) \in {"refund", "settle"}
  BY DEF FailLabel
<1>4. UNCHANGED <<lockVars, locals>> /\ Record(r, "failed")
  BY DEF Unanswered, Failed
<1>5. LaneInv'
  BY <1>2, <1>3, <1>4 DEF IndInv, LaneInv
<1>6. RoleInv'
  BY <1>2, <1>3, <1>4, NonceAssumption DEF IndInv, RoleInv
<1>7. ApprovalInv'
  BY <1>0, <1>2, <1>3, <1>4, NonceAssumption DEF IndInv, TypeOK, RoleInv, ApprovalInv, Record
<1>8. /\ unrecorded \subseteq unrecorded'
      /\ \A o \in Operations \ unrecorded' : Open(o)' => Open(o)
      /\ target[r] \in unrecorded' \/ ~Open(target[r])'
  <2>1. CASE r \in Operations
    BY <1>0, <1>2, <1>3, <1>4, <2>1, SenderIsOpen, NonceAssumption
    DEF IndInv, TypeOK, RoleInv, ApprovalInv, Record, Open
  <2>2. CASE r \in Approvers
    BY <1>0, <1>2, <1>3, <1>4, <2>2, SenderIsOpen, NonceAssumption
    DEF IndInv, TypeOK, RoleInv, ApprovalInv, Record, Open
  <2> QED
    BY <2>1, <2>2
<1>9. PaidInv' /\ PaidOnce'
  <2>1. CASE UNCHANGED nodeVars
    BY <1>8, <2>1, PaidKept
  <2>2. CASE Accept(cur[r]) /\ (UNCHANGED echoes \/ Echo(cur[r]))
    <3>1. /\ admitted' = admitted \cup {<<target[r], cur[r].nonce>>}
          /\ UNCHANGED echoes \/ echoes' = [echoes EXCEPT ![target[r]] = @ + 1]
      BY <2>2, AcceptType
    <3> QED
      BY <1>0, <1>8, <3>1, PaidMore, SenderIsOpen
  <2> QED
    BY <2>1, <2>2
<1>10. NonceFresh'
  BY <1>2, <1>3, <1>4 DEF IndInv, LaneInv, NonceFresh, IsPending
<1> QED
  BY <1>1, <1>5, <1>6, <1>7, <1>9, <1>10 DEF IndInv

\* The same for a request that is told of its success.
LEMMA SucceedPreserves ==
  ASSUME IndInv, NEW r \in Requests, pc[r] = "send", Succeed(r), target' = target,
         Accept(cur[r]), UNCHANGED echoes
  PROVE  IndInv'
<1>0. /\ target[r] \in Operations /\ cur[r].op = target[r] /\ cur[r].nonce \in Nonces
      /\ cur[r] \in Tx
  BY DEF IndInv, TypeOK, RoleInv
<1>1. Record(r, "approved")
  BY DEF Succeed
<1>2. Return(r)
  BY DEF Succeed
<1>3. /\ slot' \in [Nonces -> Tx] /\ ever' \subseteq Nonces
      /\ admitted' \subseteq Operations \X Nonces
      /\ echoes' \in [Operations -> Nat]
      /\ mined' = mined /\ evictions' = evictions
      /\ admitted' = admitted \cup {<<target[r], cur[r].nonce>>}
  BY AcceptType
<1>4. TypeOK'
  <2>1. /\ verdict' \in [Operations -> {"none", "pending", "approved", "failed"}]
        /\ unrecorded' \subseteq Operations
    BY <1>0, <1>1 DEF IndInv, TypeOK, Record
  <2> QED
    BY <1>2, <1>3, <2>1, ReturnType DEF IndInv, TypeOK
<1>5. \A g \in Requests : pc'[g] = IF g = r THEN "done" ELSE pc[g]
  BY <1>2 DEF IndInv, TypeOK, Return
<1>6. LaneInv'
  BY <1>2, <1>5, NonceAssumption DEF IndInv, TypeOK, LaneInv, Return
<1>7. RoleInv'
  BY <1>2, <1>5, NonceAssumption DEF IndInv, TypeOK, RoleInv, Return, Forget
<1>8. ApprovalInv'
  BY <1>0, <1>1, <1>2, <1>5, NonceAssumption
     DEF IndInv, TypeOK, RoleInv, ApprovalInv, Record, Return
<1>9. /\ unrecorded \subseteq unrecorded'
      /\ \A o \in Operations \ unrecorded' : Open(o)' => Open(o)
      /\ target[r] \in unrecorded' \/ ~Open(target[r])'
  <2>1. CASE r \in Operations
    BY <1>0, <1>1, <1>5, <2>1, SenderIsOpen, NonceAssumption
    DEF IndInv, TypeOK, RoleInv, ApprovalInv, Record, Open
  <2>2. CASE r \in Approvers
    BY <1>0, <1>1, <1>5, <2>2, SenderIsOpen, NonceAssumption
    DEF IndInv, TypeOK, RoleInv, ApprovalInv, Record, Open
  <2> QED
    BY <2>1, <2>2
<1>10. PaidInv' /\ PaidOnce'
  BY <1>0, <1>3, <1>9, PaidMore, SenderIsOpen
<1>11. NonceFresh'
  BY <1>2, <1>5 DEF IndInv, LaneInv, NonceFresh
<1> QED
  BY <1>4, <1>6, <1>7, <1>8, <1>9, <1>10, <1>11 DEF IndInv

\* A refused transaction is tried again in the lane, or the request fails; so is
\* one the node took and called already known, which the request is about to
\* send under another nonce.
LEMMA RefusedPreserves ==
  ASSUME IndInv, NEW r \in Requests, pc[r] = "send", NEW answer, Refused(r, answer),
         target' = target,
         \/ UNCHANGED nodeVars
         \/ Accept(cur[r]) /\ Echo(cur[r]) /\ answer = "already known"
  PROVE  IndInv'
<1>1. CASE r \in Transfers /\ attempt[r] + 1 < MaxAttempts
  <2>1. /\ Goto(r, RetryLabel(answer)) /\ RetryLabel(answer) \in {"bump", "refresh"}
        /\ attempt' = [attempt EXCEPT ![r] = @ + 1]
        /\ UNCHANGED <<lockVars, rowVars, cur, signed, charged, blind>>
    BY <1>1 DEF Refused, RetryLabel
  <2>2. attempt' \in [Requests -> 0 .. (MaxAttempts - 1)]
    <3>1. /\ MaxAttempts \in Nat /\ attempt \in [Requests -> 0 .. (MaxAttempts - 1)]
          /\ attempt[r] \in 0 .. (MaxAttempts - 1)
      BY NonceAssumption DEF IndInv, TypeOK
    <3>2. attempt[r] + 1 \in 0 .. (MaxAttempts - 1)
      BY <1>1, <3>1, OneMore
    <3> QED
      BY <2>1, <3>1, <3>2
  <2>3. /\ slot' \in [Nonces -> Tx] /\ ever' \subseteq Nonces
        /\ admitted' \subseteq Operations \X Nonces
        /\ echoes' \in [Operations -> Nat]
        /\ mined' = mined /\ evictions' = evictions
    BY AcceptType DEF IndInv, TypeOK
  <2>4. TypeOK'
    BY <2>1, <2>2, <2>3 DEF IndInv, TypeOK
  <2>5. /\ r \in Operations /\ r \notin Approvers
        /\ pc'[r] \in {"bump", "refresh"}
        /\ \A g \in Requests : g # r => pc'[g] = pc[g]
    BY <1>1, <2>1, NonceAssumption DEF IndInv, TypeOK, Goto, Operations
  <2>6. LaneInv' /\ RoleInv' /\ ApprovalInv'
    <3>1. LaneInv'
      BY <2>1, <2>5 DEF IndInv, LaneInv, InLane, Holding, Building, lockVars
    <3>2. RoleInv'
      BY <2>1, <2>5 DEF IndInv, RoleInv, Holding, Requests
    <3>3. ApprovalInv'
      BY <2>1 DEF IndInv, TypeOK, ApprovalInv
    <3> QED
      BY <3>1, <3>2, <3>3
  <2>7. PaidInv' /\ PaidOnce'
    <3>1. /\ unrecorded \subseteq unrecorded'
          /\ \A o \in Operations \ unrecorded' : Open(o)' => Open(o)
      BY <2>1, SenderIsOpen DEF IndInv, TypeOK, RoleInv, Open
    <3>2. CASE UNCHANGED nodeVars
      BY <3>1, <3>2, PaidKept
    <3>3. CASE Accept(cur[r]) /\ Echo(cur[r])
      <4>1. /\ admitted' = admitted \cup {<<target[r], cur[r].nonce>>}
            /\ target[r] \in Operations /\ cur[r].nonce \in Nonces
        BY <3>3, AcceptType
      <4>2. echoes' = [echoes EXCEPT ![target[r]] = @ + 1]
        BY <3>3 DEF IndInv, RoleInv, Echo
      <4> QED
        BY <3>1, <4>1, <4>2, PaidMore, SenderIsOpen
    <3> QED
      BY <3>2, <3>3
  <2>8. NonceFresh'
    <3>1. CASE UNCHANGED nodeVars
      BY <2>1, <3>1 DEF IndInv, TypeOK, NonceFresh, IsPending
    <3>2. CASE answer = "already known"
      BY <2>1, <3>2 DEF IndInv, TypeOK, LaneInv, NonceFresh, RetryLabel
    <3> QED
      BY <3>1, <3>2
  <2> QED
    BY <2>4, <2>6, <2>7, <2>8 DEF IndInv
<1>2. CASE ~(r \in Transfers /\ attempt[r] + 1 < MaxAttempts)
  <2>1. Unanswered(r)
    BY <1>2 DEF Refused, Unanswered
  <2> QED
    BY <2>1, UnansweredPreserves
<1> QED
  BY <1>1, <1>2

\* The broadcast.
LEMMA SendPreserves ==
  ASSUME IndInv, NEW r \in Requests, Send(r)
  PROVE  IndInv'
  BY UnansweredPreserves, SucceedPreserves, RefusedPreserves DEF Send

\* Mining takes the first transaction of the pool and leaves its next nonce.
LEMMA MinePreserves ==
  ASSUME IndInv, Mine
  PROVE  IndInv'
<1>1. TypeOK'
  <2>1. slot' \in [Nonces -> Tx]
    BY NoTxType DEF IndInv, TypeOK, Mine
  <2>2. mined' \in 0 .. MaxNonce
    BY NonceAssumption DEF IndInv, TypeOK, Mine
  <2> QED
    BY <2>1, <2>2 DEF IndInv, TypeOK, Mine
<1>2. LaneInv' /\ RoleInv' /\ ApprovalInv' /\ PaidInv' /\ PaidOnce'
  BY PaidKept DEF IndInv, LaneInv, RoleInv, ApprovalInv, Open, Mine
<1>3. NonceFresh'
  <2>1. ASSUME NEW n \in Nonces, IsPending(n) PROVE IsPending(n)'
    BY <2>1, NonceAssumption DEF IndInv, TypeOK, IsPending, Mine, Nonces
  <2> QED
    BY <2>1 DEF IndInv, RoleInv, NonceFresh, Mine
<1> QED
  BY <1>1, <1>2, <1>3 DEF IndInv

\* A dropped transaction makes the nonces in hand doubtful.
LEMMA EvictPreserves ==
  ASSUME IndInv, NEW n \in Nonces, Evict(n)
  PROVE  IndInv'
<1>1. TypeOK'
  <2>1. slot' \in [Nonces -> Tx] /\ blind' \in [Requests -> BOOLEAN]
    BY NoTxType DEF IndInv, TypeOK, Evict
  <2>2. evictions' \in 0 .. MaxEvictions
    BY NonceAssumption DEF IndInv, TypeOK, Evict
  <2> QED
    BY <2>1, <2>2 DEF IndInv, TypeOK, Evict
<1>2. LaneInv' /\ RoleInv' /\ ApprovalInv' /\ PaidInv' /\ PaidOnce'
  BY PaidKept DEF IndInv, LaneInv, RoleInv, ApprovalInv, Open, Evict
<1>3. NonceFresh'
  BY DEF NonceFresh, Evict
<1> QED
  BY <1>1, <1>2, <1>3 DEF IndInv

-----------------------------------------------------------------------------
(* The theorems.                                                           *)

\* Nobody is in the lane and the pool is empty.
LEMMA InitEstablishes == Init => IndInv
<1> SUFFICES ASSUME Init PROVE IndInv
  OBVIOUS
<1>1. TypeOK
  <2>1. 0 \in 0 .. (MaxAttempts - 1) /\ 0 \in 0 .. MaxNonce /\ 0 \in 0 .. MaxEvictions
    BY NonceAssumption
  <2> QED
    BY <2>1, NoTxType DEF Init, TypeOK
<1>2. LaneInv /\ RoleInv /\ ApprovalInv /\ NonceFresh
  BY NonceAssumption DEF Init, LaneInv, RoleInv, ApprovalInv, NonceFresh
<1>3. \A o \in Operations : Used(o) = 0 /\ echoes[o] = 0
  BY FS_EmptySet DEF Init, Used
<1>4. PaidInv /\ PaidOnce
  BY <1>3 DEF PaidInv, PaidOnce
<1> QED
  BY <1>1, <1>2, <1>4 DEF IndInv

\* Every step preserves the invariant.
LEMMA NextPreserves ==
  ASSUME IndInv, [Next]_vars
  PROVE  IndInv'
<1>1. ASSUME NEW r \in Requests, Arrive(r) \/ ArriveApprove(r) \/ Step(r)
      PROVE  IndInv'
  <2>1. CASE BuildETHTx(r) \/ BuildETHContractCallTx(r) \/ RebuildETHTx(r)
    BY <2>1, BuiltPreserves, NonceAssumption
       DEF BuildETHTx, BuildETHContractCallTx, RebuildETHTx, Operations
  <2> QED
    BY <1>1, <2>1, ArrivePreserves, ArriveApprovePreserves, LockApprovalPreserves,
       RecheckPreserves, LockAddrPreserves, PolicyPreserves, EnterSpendPreserves,
       LeaveDeductPreserves, LeaveRefundPreserves, QueuePreserves, SettlePreserves,
       SignPreserves, SendPreserves, BumpGasPreserves, RefreshNoncePreserves DEF Step
<1>2. CASE UNCHANGED vars
  <2>1. PaidInv' /\ PaidOnce'
    BY <1>2, PaidKept DEF vars, Open
  <2> QED
    BY <1>2, <2>1 DEF vars, IndInv, TypeOK, LaneInv, RoleInv, ApprovalInv, NonceFresh, IsPending
<1> QED
  BY <1>1, <1>2, MinePreserves, EvictPreserves DEF Next

\* The lane, the mutexes, the verdicts and the pool keep together.
THEOREM Invariance == Spec => []IndInv
BY InitEstablishes, NextPreserves, PTL DEF Spec

\* Whatever is retried, bumped, lost or approved, an operation takes one nonce.
THEOREM NothingPaidTwice == Spec => []PaidOnce
<1>1. IndInv => PaidOnce
  BY DEF IndInv
<1> QED
  BY <1>1, Invariance, PTL

\* The nonce a request holds in the lane stays the pool's next.
THEOREM NonceStaysFresh == Spec => []NonceFresh
<1>1. IndInv => NonceFresh
  BY DEF IndInv
<1> QED
  BY <1>1, Invariance, PTL

\* Only a nonce that did not come from the primary's pending count, or that an
\* eviction overtook, can push another operation's transaction out of the pool.
THEOREM SiblingsAreSafe == Spec => NeverReplacesSibling
<1> DEFINE Safe ==
      \A n \in Nonces :
        slot[n] # NoTx /\ slot'[n] # NoTx /\ slot'[n].op # slot[n].op =>
          \E r \in Requests : blind[r] /\ pc[r] = "send" /\ target[r] = slot'[n].op
<1>1. ASSUME IndInv, [Next]_vars PROVE Safe
  <2>1. SUFFICES ASSUME NEW n \in Nonces, slot[n] # NoTx, slot'[n] # NoTx,
                        slot'[n].op # slot[n].op
                 PROVE  \E r \in Requests :
                          blind[r] /\ pc[r] = "send" /\ target[r] = slot'[n].op
    OBVIOUS
  <2>2. slot' # slot
    BY <2>1
  <2>3. ~ Mine /\ ~ \E m \in Nonces : Evict(m)
    BY <1>1, <2>1 DEF IndInv, TypeOK, Evict, Mine
  <2>4. PICK r \in Requests : Send(r)
    BY <1>1, <2>2, <2>3 DEF Next, Step, vars, Arrive, ArriveApprove, LockApproval, Recheck,
         LockAddr, BuildETHTx, BuildETHContractCallTx, RebuildETHTx, Built, Policy, EnterSpend,
         LeaveDeduct, LeaveRefund, Queue, Settle, Sign, BumpGas, RefreshNonce
  <2>5. pc[r] = "send" /\ slot' = [slot EXCEPT ![cur[r].nonce] = cur[r]]
    BY <2>2, <2>4 DEF Send, Accept
  <2>6. n = cur[r].nonce /\ slot'[n] = cur[r] /\ cur[r].op = target[r]
    BY <1>1, <2>1, <2>5 DEF IndInv, TypeOK, RoleInv
  <2>7. blind[r]
    BY <1>1, <2>1, <2>5, <2>6 DEF IndInv, NonceFresh, IsPending
  <2> QED
    BY <2>5, <2>6, <2>7
<1> QED
  BY <1>1, Invariance, PTL DEF Spec, NeverReplacesSibling
=============================================================================
