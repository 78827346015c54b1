------------------------------ MODULE NonceLane ------------------------------
(***************************************************************************)
(* EVM transactions of one sending address: the in-process lock of the     *)
(* (rpcURL, address) pair (chain/addr_lock.go), the nonce and fees read    *)
(* from the chain (chain/nonce.go, chain/tx_eth.go), the RPC client with   *)
(* its fallback node (chain/rpc.go), the replace-by-fee loop of            *)
(* signAndBroadcast (handler/wallet.go), and the single-shot broadcasts of *)
(* contract calls (handler/contract_call.go) and of Approve                *)
(* (handler/approval.go).  Locks are taken in the order approvalMu,        *)
(* address lock, wallet mutex.                                             *)
(*                                                                         *)
(* The node is external: its pool is one slot per nonce.  Reads go to the  *)
(* primary node and, when it cannot be reached, to the fallback; the       *)
(* broadcast goes to the primary only, once.                               *)
(***************************************************************************)
EXTENDS Integers, FiniteSets

CONSTANTS
  Transfers,     \* POST /transfer requests: signAndBroadcast
  Calls,         \* contract calls, approve-token, revoke-approval
  Approvers,     \* POST /approvals/:id/approve requests
  None,
  Tips, Bases,   \* priority and base fees the node may suggest
  MinPriority,   \* floor of the priority fee
  PriorityCap,   \* rbfPriorityFeeCapWei
  MaxAttempts,   \* rbfMaxAttempts
  NodeMinTip,    \* tip below which the node refuses any transaction
  MaxNonce,      \* bound: nonces of the address
  MaxEvictions   \* bound: transactions the node drops from its pool

Operations == Transfers \cup Calls
Requests   == Operations \cup Approvers
Nonces     == 0 .. (MaxNonce - 1)

ASSUME NonceAssumption ==
  /\ Transfers \cap Calls = {} /\ Operations \cap Approvers = {}
  /\ None \notin Requests
  /\ Tips \subseteq Nat /\ Bases \subseteq Nat
  /\ {MinPriority, PriorityCap, NodeMinTip, MaxNonce, MaxEvictions} \subseteq Nat
  /\ MaxAttempts \in Nat \ {0}

VARIABLES
  lane,       \* holder of the address lock
  spendMu,    \* holder of the wallet mutex of the daily counter
  approvalMu, \* holder of each operation's approval mutex
  verdict,    \* approval row of an operation: none, pending, approved, failed
  unrecorded, \* operations whose verdict the database refused to store (history)
  pc, target, \* where a request stands; the operation it is about
  cur,        \* the transaction parameters it holds
  signed,     \* the parameters its last signature is for
  attempt,    \* turns of the replace-by-fee loop
  charged,    \* the daily limit was pre-deducted
  slot,       \* the node's pool: nonce -> transaction
  mined,      \* nonces below are in a block
  ever,       \* nonces the node ever accepted (history)
  admitted,   \* <<operation, nonce>> the node accepted (history)
  echoes,     \* transactions of an operation the node took and answered with
              \* "already known" (history)
  blind,      \* the nonce a request holds is not the pool's next (history)
  evictions

lockVars == <<lane, spendMu, approvalMu>>
reqVars  == <<pc, target, cur, signed, attempt, charged>>
locals   == <<cur, signed, attempt, charged, blind>>
nodeVars == <<slot, mined, ever, admitted, echoes, evictions>>
rowVars  == <<verdict, unrecorded>>
vars == <<lockVars, rowVars, reqVars, nodeVars, blind>>

Tx   == [op : Operations \cup {None}, nonce : Nat, tip : Nat, max : Nat]
NoTx == [op |-> None, nonce |-> 0, tip |-> 0, max |-> 0]

Building == {"build", "refresh"}  \* about to read a nonce
Holding  == {"policy", "deduct", "deducting", "sign", "send", "bump"}
Ending   == {"refund", "refunding", "over", "overing", "queue", "settle"}
InLane   == Building \cup Holding \cup Ending
PCs      == {"idle", "approval", "recheck", "lane", "done"} \cup InLane

TypeOK ==
  /\ lane \in Requests \cup {None}
  /\ spendMu \in Requests \cup {None}
  /\ approvalMu \in [Operations -> Approvers \cup {None}]
  /\ verdict \in [Operations -> {"none", "pending", "approved", "failed"}]
  /\ unrecorded \subseteq Operations
  /\ pc \in [Requests -> PCs]
  /\ target \in [Requests -> Operations \cup {None}]
  /\ cur \in [Requests -> Tx]
  /\ signed \in [Requests -> Tx]
  /\ attempt \in [Requests -> 0 .. (MaxAttempts - 1)]
  /\ charged \in [Requests -> BOOLEAN]
  /\ slot \in [Nonces -> Tx]
  /\ mined \in 0 .. MaxNonce
  /\ ever \subseteq Nonces
  /\ admitted \subseteq Operations \X Nonces
  /\ echoes \in [Operations -> Nat]
  /\ blind \in [Requests -> BOOLEAN]
  /\ evictions \in 0 .. MaxEvictions

Init ==
  /\ lane = None /\ spendMu = None
  /\ approvalMu = [o \in Operations |-> None]
  /\ verdict = [o \in Operations |-> "none"] /\ unrecorded = {}
  /\ pc = [r \in Requests |-> "idle"]
  /\ target = [r \in Requests |-> IF r \in Operations THEN r ELSE None]
  /\ cur = [r \in Requests |-> NoTx]
  /\ signed = [r \in Requests |-> NoTx]
  /\ attempt = [r \in Requests |-> 0]
  /\ charged = [r \in Requests |-> FALSE]
  /\ slot = [n \in Nonces |-> NoTx]
  /\ mined = 0 /\ ever = {} /\ admitted = {} /\ evictions = 0
  /\ echoes = [o \in Operations |-> 0]
  /\ blind = [r \in Requests |-> FALSE]

-----------------------------------------------------------------------------
(* The node and the RPC client.                                            *)

\* eth_getTransactionCount(address, "pending") at the primary node: the first
\* free slot after the mined nonces.
IsPending(n) ==
  /\ n >= mined
  /\ slot[n] = NoTx
  /\ \A k \in Nonces : mined <= k /\ k < n => slot[k] # NoTx

\* The fallback node may be blocks behind, miss what is only in the primary's
\* pool, and still keep what the primary dropped.
FallbackSees(n) == \A k \in Nonces : k < n => k \in ever

\* jsonRPCWithRetry for the nonce: the primary's answer or, after transport
\* failures, the fallback's.
ReadNonce(n) == n \in Nonces /\ (IsPending(n) \/ FallbackSees(n))

\* fetchGasFeesAndChainID: twice the base fee plus the tip, the tip floored.
GasFees(base, suggested) ==
  LET tip == IF suggested < MinPriority THEN MinPriority ELSE suggested
  IN  [tip |-> tip, max |-> 2 * base + tip]

\* BumpETHGas: +25 per cent, truncated, plus one.
Bump(v) == (v * 125) \div 100 + 1

\* A node replaces a pooled transaction only for 12.5 per cent more of both fees.
Outbids(new, old) ==
  new.tip * 1000 >= old.tip * 1125 /\ new.max * 1000 >= old.max * 1125

\* The very transaction that is in the pool is refused as already known.
NodeAnswer(tx) ==
  CASE tx.nonce < mined -> "nonce too low"
    [] tx.nonce >= mined /\ slot[tx.nonce] = tx -> "already known"
    [] tx.nonce >= mined /\ slot[tx.nonce] # tx /\ tx.tip < NodeMinTip -> "underpriced"
    [] tx.nonce >= mined /\ slot[tx.nonce] \notin {tx, NoTx} /\ tx.tip >= NodeMinTip
         /\ ~Outbids(tx, slot[tx.nonce]) -> "underpriced"
    [] OTHER -> "ok"

\* The transaction enters its slot, replacing what was there.
Accept(tx) ==
  /\ slot' = [slot EXCEPT ![tx.nonce] = tx]
  /\ ever' = ever \cup {tx.nonce}
  /\ admitted' = admitted \cup {<<tx.op, tx.nonce>>}
  /\ UNCHANGED <<mined, evictions>>

\* The node has the transaction from elsewhere on its way - a gateway that hands
\* it to several nodes, a request delivered twice - and says so.
Echo(tx) == echoes' = [echoes EXCEPT ![tx.op] = @ + 1]

Mine ==
  /\ mined < MaxNonce
  /\ slot[mined] # NoTx
  /\ slot' = [slot EXCEPT ![mined] = NoTx]
  /\ mined' = mined + 1
  /\ UNCHANGED <<ever, admitted, echoes, evictions, lockVars, rowVars, reqVars, blind>>

Evict(n) ==
  /\ evictions < MaxEvictions
  /\ n >= mined /\ slot[n] # NoTx
  /\ slot' = [slot EXCEPT ![n] = NoTx]
  /\ evictions' = evictions + 1
  /\ blind' = [r \in Requests |-> blind[r] \/ pc[r] \in Holding]
  /\ UNCHANGED <<mined, ever, admitted, echoes, lockVars, rowVars, reqVars>>

-----------------------------------------------------------------------------
(* Requests.                                                               *)

Goto(r, label) == pc' = [pc EXCEPT ![r] = label]

\* The parameters live on at most in the approval that was queued; its nonce and
\* fees are not used again (see RebuildETHTx).
Forget(r) ==
  /\ cur' = [cur EXCEPT ![r] = NoTx]
  /\ signed' = [signed EXCEPT ![r] = NoTx]
  /\ attempt' = [attempt EXCEPT ![r] = 0]
  /\ charged' = [charged EXCEPT ![r] = FALSE]
  /\ blind' = [blind EXCEPT ![r] = FALSE]

\* The deferred unlock runs only on the paths that reached the end.
Return_KeepsLane(r) ==
  /\ Goto(r, "done")
  /\ approvalMu' = [o \in Operations |-> IF approvalMu[o] = r THEN None ELSE approvalMu[o]]
  /\ lane' = IF pc[r] = "send" THEN None ELSE lane
  /\ Forget(r)
  /\ UNCHANGED spendMu

\* Every return runs the deferred unlocks.
Return(r) ==
  /\ Goto(r, "done")
  /\ approvalMu' = [o \in Operations |-> IF approvalMu[o] = r THEN None ELSE approvalMu[o]]
  /\ lane' = IF lane = r THEN None ELSE lane
  /\ Forget(r)
  /\ UNCHANGED spendMu

\* A transfer or a contract call passes its validation and the whitelist and
\* goes for the address lock.
Arrive(r) ==
  /\ pc[r] = "idle" /\ r \in Operations
  /\ Goto(r, "lane")
  /\ UNCHANGED <<target, lockVars, rowVars, nodeVars, locals>>

\* Approve finds the approval and goes for its mutex first.
ArriveApprove(r) ==
  /\ pc[r] = "idle" /\ r \in Approvers
  /\ \E o \in Operations : verdict[o] # "none" /\ target' = [target EXCEPT ![r] = o]
  /\ Goto(r, "approval")
  /\ UNCHANGED <<cur, signed, attempt, charged, lockVars, rowVars, nodeVars, blind>>

LockApproval(r) ==
  /\ pc[r] = "approval"
  /\ approvalMu[target[r]] = None
  /\ approvalMu' = [approvalMu EXCEPT ![target[r]] = r]
  /\ Goto(r, "recheck")
  /\ UNCHANGED <<lane, spendMu, target, cur, signed, attempt, charged, rowVars,
                 nodeVars, blind>>

Recheck(r) ==
  /\ pc[r] = "recheck"
  /\ IF verdict[target[r]] = "pending"
     THEN Goto(r, "lane") /\ UNCHANGED <<lockVars, locals>>
     ELSE Return(r)
  /\ UNCHANGED <<target, rowVars, nodeVars>>

\* Taking the nonce before the lock.
LockAddr_Late(r) ==
  /\ pc[r] = "lane"
  /\ Goto(r, "build")
  /\ UNCHANGED <<lockVars, target, cur, signed, attempt, charged, rowVars,
                 nodeVars, blind>>

\* LockAddr blocks until the lane is free.
LockAddr(r) ==
  /\ pc[r] = "lane"
  /\ lane = None
  /\ lane' = r
  /\ Goto(r, "build")
  /\ UNCHANGED <<spendMu, approvalMu, target, cur, signed, attempt, charged, rowVars,
                 nodeVars, blind>>

\* What the transaction builders share: nonce and fees fresh from the chain.
FreshParams(r, n, fees) ==
  /\ cur' = [cur EXCEPT ![r] = [op |-> target[r], nonce |-> n, tip |-> fees.tip, max |-> fees.max]]
  /\ blind' = [blind EXCEPT ![r] = ~IsPending(n)]

\* The transaction is built, or a failing read or gas estimate ends the
\* request, and its lane with it.
Built(r, label) ==
  /\ pc[r] = "build"
  /\ \/ /\ \E n \in Nonces, base \in Bases, tip \in Tips :
             ReadNonce(n) /\ FreshParams(r, n, GasFees(base, tip))
        /\ Goto(r, label)
        /\ UNCHANGED <<lockVars, signed, attempt, charged>>
     \/ Return(r)
  /\ UNCHANGED <<target, rowVars, nodeVars>>

\* The native coin.
BuildETHTx(r) == r \in Transfers /\ Built(r, "policy")

\* Token transfers and contract calls.
BuildETHContractCallTx(r) == r \in Operations /\ Built(r, "policy")

\* Nonce and fees of the stored transaction are refreshed; a failure leaves the
\* approval pending.
RebuildETHTx(r) == r \in Approvers /\ Built(r, "sign")

\* Transfers and calls: refused (balance pre-check), queued for approval with
\* their parameters, or carried out here, after the daily limit where one is
\* set.  Module DailySpend has the decision itself.
Policy(r) ==
  /\ pc[r] = "policy"
  /\ \E label \in {"settle", "queue", "deduct", "sign"} : Goto(r, label)
  /\ UNCHANGED <<target, cur, signed, attempt, charged, lockVars, rowVars, nodeVars,
                 blind>>

\* checkAndDeductDailyLimitUSD and releaseDailySpentUSD run under the wallet
\* mutex.
EnterSpend(r) ==
  /\ spendMu = None
  /\ spendMu' = r
  /\ \/ pc[r] = "deduct" /\ Goto(r, "deducting")
     \/ pc[r] = "refund" /\ Goto(r, "refunding")
     \/ pc[r] = "over" /\ Goto(r, "overing")
  /\ UNCHANGED <<lane, approvalMu, target, cur, signed, attempt, charged, rowVars,
                 nodeVars, blind>>

\* The limit admits the amount; or it does not and the request ends.  Approve
\* deducts after signing, the others before; a transfer may then turn out to be
\* above the approval threshold.
LeaveDeduct(r) ==
  /\ pc[r] = "deducting"
  /\ spendMu' = None
  /\ \/ /\ charged' = [charged EXCEPT ![r] = TRUE]
        /\ \E label \in IF r \in Approvers THEN {"send"}
                       ELSE IF r \in Calls THEN {"sign"} ELSE {"sign", "over"} :
             Goto(r, label)
     \/ Goto(r, "settle") /\ UNCHANGED charged
  /\ UNCHANGED <<lane, approvalMu, target, cur, signed, attempt, rowVars, nodeVars, blind>>

\* The deduction is rolled back; a transfer above the threshold is queued then.
LeaveRefund(r) ==
  /\ pc[r] \in {"refunding", "overing"}
  /\ spendMu' = None
  /\ charged' = [charged EXCEPT ![r] = FALSE]
  /\ Goto(r, IF pc[r] = "overing" THEN "queue" ELSE "settle")
  /\ UNCHANGED <<lane, approvalMu, target, cur, signed, attempt, rowVars, nodeVars, blind>>

\* createApprovalRequest stores the parameters with a pending approval.
Queue(r) ==
  /\ pc[r] = "queue"
  /\ verdict' = [verdict EXCEPT ![r] = "pending"]
  /\ Return(r)
  /\ UNCHANGED <<unrecorded, target, nodeVars>>

\* The error answer, after the roll-back where there is one (contract calls
\* have none).
Settle(r) ==
  /\ pc[r] = "settle"
  /\ Return(r)
  /\ UNCHANGED <<target, rowVars, nodeVars>>

\* A failure after the deduction.  Approve marks the approval failed.
FailLabel(r) == IF charged[r] /\ r \notin Calls THEN "refund" ELSE "settle"

\* Approve stores the verdict, unless the database refuses.
Record(r, v) ==
  \/ r \in Operations /\ UNCHANGED rowVars
  \/ /\ r \in Approvers
     /\ verdict' = [verdict EXCEPT ![target[r]] = v]
     /\ UNCHANGED unrecorded
  \/ /\ r \in Approvers
     /\ unrecorded' = unrecorded \cup {target[r]}
     /\ UNCHANGED verdict

Failed(r) == Goto(r, FailLabel(r)) /\ Record(r, "failed") /\ UNCHANGED lockVars

\* ETHSigningHash stands for the parameters it is computed from.
SigningHash(r) == cur[r]

\* The TEE signs the hash of the parameters at hand.
Sign(r) ==
  /\ pc[r] = "sign"
  /\ \/ /\ signed' = [signed EXCEPT ![r] = SigningHash(r)]
        /\ \E label \in IF r \in Approvers THEN {"deduct", "send"} ELSE {"send"} : Goto(r, label)
        /\ UNCHANGED <<lockVars, rowVars>>
     \/ Failed(r) /\ UNCHANGED signed
  /\ UNCHANGED <<target, cur, attempt, charged, nodeVars, blind>>

\* The node took it: the caller is told so.  Approve marks the row first and
\* answers with an error when it cannot.
Succeed(r) ==
  /\ Record(r, "approved")
  /\ Return(r)

\* The bug a retry invites: an error that may hide a delivery sent again.
Unanswered_Retried(r) ==
  /\ IF r \in Transfers /\ attempt[r] + 1 < MaxAttempts
     THEN Goto(r, "refresh") /\ attempt' = [attempt EXCEPT ![r] = @ + 1]
          /\ UNCHANGED <<lockVars, rowVars>>
     ELSE Failed(r) /\ UNCHANGED attempt
  /\ UNCHANGED <<cur, signed, charged, blind>>

\* Transport errors are not retried: the request fails.
Unanswered(r) == Failed(r) /\ UNCHANGED locals

\* IsReplacementUnderpriced, IsNonceTooLow; the latter also matches "already
\* known".
RetryLabel(answer) == IF answer = "underpriced" THEN "bump" ELSE "refresh"

\* Only signAndBroadcast retries, only these refusals, MaxAttempts in all.
Refused(r, answer) ==
  /\ IF r \in Transfers /\ attempt[r] + 1 < MaxAttempts
     THEN /\ Goto(r, RetryLabel(answer))
          /\ attempt' = [attempt EXCEPT ![r] = @ + 1]
          /\ UNCHANGED <<lockVars, rowVars>>
     ELSE Failed(r) /\ UNCHANGED attempt
  /\ UNCHANGED <<cur, signed, charged, blind>>

\* AssembleAndBroadcastETH: the signature must recover to the sender for these
\* parameters; one POST to the primary node, which may be lost on either way.
Send(r) ==
  /\ pc[r] = "send"
  /\ \/ /\ signed[r] = SigningHash(r)
        /\ NodeAnswer(cur[r]) = "ok"
        /\ Accept(cur[r])
        /\ \/ (Succeed(r) \/ Unanswered(r)) /\ UNCHANGED echoes
           \/ Refused(r, "already known") /\ Echo(cur[r])
     \/ /\ signed[r] = SigningHash(r)
        /\ NodeAnswer(cur[r]) # "ok"
        /\ Refused(r, NodeAnswer(cur[r]))
        /\ UNCHANGED nodeVars
     \/ Unanswered(r) /\ UNCHANGED nodeVars
  /\ UNCHANGED target

\* Replace-by-fee: same nonce, both fees bumped, unless the tip passes the cap.
BumpGas(r) ==
  /\ pc[r] = "bump"
  /\ IF Bump(cur[r].tip) > PriorityCap
     THEN Failed(r) /\ UNCHANGED cur
     ELSE /\ cur' = [cur EXCEPT ![r].tip = Bump(@), ![r].max = Bump(@)]
          /\ Goto(r, "sign")
          /\ UNCHANGED <<lockVars, rowVars>>
  /\ UNCHANGED <<target, signed, attempt, charged, nodeVars, blind>>

\* "nonce too low": a fresh pending nonce, fees kept.
RefreshNonce(r) ==
  /\ pc[r] = "refresh"
  /\ \/ /\ \E n \in Nonces : ReadNonce(n) /\ FreshParams(r, n, cur[r])
        /\ Goto(r, "sign")
        /\ UNCHANGED <<lockVars, rowVars>>
     \/ Failed(r) /\ UNCHANGED <<cur, blind>>
  /\ UNCHANGED <<target, signed, attempt, charged, nodeVars>>

-----------------------------------------------------------------------------
Step(r) ==
  \/ LockApproval(r) \/ Recheck(r) \/ LockAddr(r) \/ BuildETHTx(r)
  \/ BuildETHContractCallTx(r) \/ RebuildETHTx(r)
  \/ Policy(r) \/ EnterSpend(r) \/ LeaveDeduct(r) \/ LeaveRefund(r) \/ Queue(r)
  \/ Settle(r) \/ Sign(r) \/ Send(r) \/ BumpGas(r) \/ RefreshNonce(r)

Next ==
  \/ \E r \in Requests : Arrive(r) \/ ArriveApprove(r) \/ Step(r)
  \/ Mine
  \/ \E n \in Nonces : Evict(n)

Spec == Init /\ [][Next]_vars

\* A request that began keeps running: every RPC, TEE and database call it
\* makes times out, and a free mutex goes to one of its waiters.
Fairness == \A r \in Requests : WF_vars(Step(r))

FairSpec == Spec /\ Fairness

-----------------------------------------------------------------------------
(* Properties.                                                             *)

\* The nonces an operation was paid with.
Used(o) == Cardinality({n \in Nonces : <<o, n>> \in admitted})

\* Over direct paths, approvals, fee bumps and nonce refreshes, lost requests
\* and lost replies, an operation is paid once: it takes at most one nonce, and
\* one more for every "already known" with which the node answered a
\* transaction it took - signAndBroadcast reads that as "nonce too low" and
\* sends again with the next nonce.  (A refused verdict of its approval exempts
\* an operation.)
PaidOnce == \A o \in Operations \ unrecorded : Used(o) <= 1 + echoes[o]

\* While a request holds the lane and a nonce read from the primary, that
\* nonce is still the pool's next one, whatever is mined meanwhile.
NonceFresh ==
  \A r \in Requests : pc[r] \in Holding /\ ~blind[r] => IsPending(cur[r].nonce)

\* A transaction of one request pushes another operation's transaction out of
\* the pool only if its nonce did not come from the primary's pending count,
\* or the node dropped a transaction after that count was read.
NeverReplacesSibling ==
  [][\A n \in Nonces :
       slot[n] # NoTx /\ slot'[n] # NoTx /\ slot'[n].op # slot[n].op =>
         \E r \in Requests : blind[r] /\ pc[r] = "send" /\ target[r] = slot'[n].op]_vars

\* No request waits forever: the three locks are always taken in one order and
\* the retry loop ends.  Whenever requests are running, there comes a moment at
\* which all of them have returned (none starts twice).
Running(r) == pc[r] \notin {"idle", "done"}
EveryRequestReturns ==
  (\E r \in Requests : Running(r)) ~> (\A r \in Requests : ~Running(r))

-----------------------------------------------------------------------------
(* The inductive invariant behind them.                                    *)

\* One request at a time works between reading the nonce and its return.
LaneInv == \A r \in Requests : pc[r] \in InLane <=> lane = r

\* Which labels a request can be at, and what it is about.
RoleInv ==
  /\ \A r \in Operations : target[r] = r /\ pc[r] \notin {"approval", "recheck"}
  /\ \A r \in Approvers :
       /\ pc[r] \notin {"policy", "over", "overing", "queue", "bump", "refresh"}
       /\ pc[r] # "idle" => target[r] \in Operations
  /\ \A r \in Requests : pc[r] \in Holding => cur[r].op = target[r] /\ cur[r].nonce \in Nonces

\* An approver past the recheck holds the mutex of an approval that stays
\* pending until the approver itself settles it.
ApprovalInv ==
  /\ \A r \in Approvers : pc[r] \in {"recheck", "lane"} \cup InLane => approvalMu[target[r]] = r
  /\ \A r \in Approvers :
       pc[r] \in {"lane"} \cup Building \cup Holding => verdict[target[r]] = "pending"
  /\ \A o \in Operations : pc[o] # "done" => verdict[o] = "none"

\* As long as somebody may still send an operation, every payment of it was
\* answered with "already known".
PaidInv ==
  \A o \in Operations \ unrecorded :
    pc[o] \notin {"refund", "refunding", "settle", "done"} \/ verdict[o] = "pending" =>
      Used(o) <= echoes[o]

\* What every step preserves: it relates the lane, the mutexes, the verdicts
\* and the node's pool.
IndInv ==
  /\ TypeOK /\ LaneInv /\ RoleInv /\ ApprovalInv /\ PaidInv
  /\ PaidOnce /\ NonceFresh
=============================================================================
