-------------------------- MODULE ApprovalLifecycle --------------------------
(***************************************************************************)
(* The life of an ApprovalRequest row (model/policy.go) under the          *)
(* goroutines that touch it: the HTTP handlers Approve, Reject and         *)
(* GetApproval, the background expireLoop with its sweep of approvalMu     *)
(* (handler/approval.go), wallet deletion (handler/wallet.go), and a crash *)
(* of the process.  A database statement is one atomic step; everything a  *)
(* handler does between two statements can interleave with the others.     *)
(*                                                                         *)
(* approvalMu is a sync.Map from approval id to *sync.Mutex.  A mutex      *)
(* object is named by the handler whose LoadOrStore allocated it, so       *)
(* Handlers doubles as the set of mutex objects.                           *)
(***************************************************************************)
EXTENDS Naturals, FiniteSets

CONSTANTS
  Approvals,    \* ids of the approval requests
  Kinds,        \* the approval types in use, out of AllKinds
  Handlers,     \* HTTP requests on approvals; each is served once
  None,         \* nil
  MaxFaults     \* bound: database statements that fail and process crashes

\* ApprovalType.  "transfer" stands for sign, transfer and contract_call, which
\* sign and send; the others edit a table.  contract_add belongs to a wallet;
\* without one, and contract_update, it behaves like addressbook_add.
WalletKinds == {"transfer", "policy_change", "contract_add"}
AllKinds    == WalletKinds \cup {"addressbook_add", "addressbook_update"}

\* The types that call it a success when there is nothing to write: the entry
\* exists already (UNIQUE), or the UPDATE matches no row.
Lenient == {"contract_add", "addressbook_add"}

ASSUME ApprovalAssumption ==
  /\ Kinds \subseteq AllKinds
  /\ IsFiniteSet(Handlers)
  /\ None \notin Handlers
  /\ None \notin Approvals
  /\ MaxFaults \in Nat

VARIABLES
  kind,        \* the row's approval_type
  status,      \* the row's status column; "none" before insert
  due,         \* time.Now() is after the row's ExpiresAt
  creating,    \* rows whose creator has not written its audit entry yet
  audit,       \* status of the row's audit log entry
  auditMissed, \* an audit update found no pending entry, or failed
  notified,    \* last approval_resolved event broadcast for the row
  walletGone,  \* the wallet row was deleted
  mutexOf,     \* approvalMu
  holder,      \* which handler holds a mutex object
  pc,          \* where each handler stands
  op,          \* which endpoint the handler serves
  target,      \* the approval it was called for
  mine,        \* the mutex object its LoadOrStore returned
  toSweep,     \* keys cleanupApprovalMu has still to visit
  reaping,     \* key whose pending count came back 0, about to be deleted
  effects,     \* times the approved operation was carried out (history)
  lost,        \* status writes lost to an error or a crash (history)
  dropped,     \* mutexes the sweep took off a pending approval because it
               \* could not count it (history)
  faults, crashes

rowVars   == <<kind, status, due, creating, walletGone>>
logVars   == <<audit, auditMissed, notified>>
muVars    == <<mutexOf, holder>>
reqVars   == <<pc, op, target, mine>>
sweepVars == <<toSweep, reaping>>
histVars  == <<effects, lost, dropped, faults, crashes>>
vars == <<rowVars, logVars, muVars, reqVars, sweepVars, histVars>>

Resolved == {"approved", "rejected", "failed"}
Statuses == {"none", "pending", "expired", "deleted"} \cup Resolved

\* Where a handler may stand.  "sent" and "bad" come after the operation was
\* (or may have been) carried out and before the status is written; a member
\* of Resolved is the status just written, audit and event still to follow.
Working  == {"work", "sign", "budget", "send"}
Acting   == {"checked"} \cup Working
Unsaved  == {"sent", "bad"}
Critical == Acting \cup Unsaved
Holding  == {"locked"} \cup Critical \cup Resolved
PCs      == {"idle", "loaded", "waiting", "got", "done"} \cup Holding

TypeOK ==
  /\ kind \in [Approvals -> Kinds]
  /\ status \in [Approvals -> Statuses]
  /\ due \in [Approvals -> BOOLEAN]
  /\ creating \subseteq Approvals
  /\ audit \in [Approvals -> {"none", "pending", "success", "rejected", "failed"}]
  /\ auditMissed \in [Approvals -> BOOLEAN]
  /\ notified \in [Approvals -> {"none"} \cup Resolved]
  /\ walletGone \in BOOLEAN
  /\ mutexOf \in [Approvals -> Handlers \cup {None}]
  /\ holder \in [Handlers -> Handlers \cup {None}]
  /\ pc \in [Handlers -> PCs]
  /\ op \in [Handlers -> {"none", "approve", "reject"}]
  /\ target \in [Handlers -> Approvals \cup {None}]
  /\ mine \in [Handlers -> Handlers \cup {None}]
  /\ toSweep \subseteq Approvals
  /\ reaping \in Approvals \cup {None}
  /\ effects \in [Approvals -> Nat]
  /\ lost \in [Approvals -> Nat]
  /\ dropped \in [Approvals -> SUBSET Handlers]
  /\ faults \in 0 .. MaxFaults
  /\ crashes \in 0 .. MaxFaults

Init ==
  /\ kind \in [Approvals -> Kinds]
  /\ status = [a \in Approvals |-> "none"]
  /\ due = [a \in Approvals |-> FALSE]
  /\ creating = {}
  /\ audit = [a \in Approvals |-> "none"]
  /\ auditMissed = [a \in Approvals |-> FALSE]
  /\ notified = [a \in Approvals |-> "none"]
  /\ walletGone = FALSE
  /\ mutexOf = [a \in Approvals |-> None]
  /\ holder = [m \in Handlers |-> None]
  /\ pc = [h \in Handlers |-> "idle"]
  /\ op = [h \in Handlers |-> "none"]
  /\ target = [h \in Handlers |-> None]
  /\ mine = [h \in Handlers |-> None]
  /\ toSweep = {}
  /\ reaping = None
  /\ effects = [a \in Approvals |-> 0]
  /\ lost = [a \in Approvals |-> 0]
  /\ dropped = [a \in Approvals |-> {}]
  /\ faults = 0
  /\ crashes = 0

-----------------------------------------------------------------------------
(* Helpers.                                                                *)

RowExists(a) == status[a] \notin {"none", "deleted"}

\* UPDATE approval_requests SET status = s WHERE id = a: no guard on the old
\* status, and no row, hence no effect and no error, once it was deleted.
WriteStatus(a, s) ==
  status' = [status EXCEPT ![a] = IF RowExists(a) THEN s ELSE @]

Goto(h, label) == pc' = [pc EXCEPT ![h] = label]

\* The request goes on under its lock.
Stay(h, label) == Goto(h, label) /\ UNCHANGED <<holder, op, mine>>

\* A return path that skips the deferred unlock.
Return_KeepsLock(h) == Stay(h, "done")

\* Every return runs the deferred unlock; the request's variables go with it.
Return(h) ==
  /\ Goto(h, "done")
  /\ holder' = [holder EXCEPT ![mine[h]] = None]
  /\ op' = [op EXCEPT ![h] = "none"]
  /\ mine' = [mine EXCEPT ![h] = None]

\* The database may fail a statement (SQLITE_BUSY after busy_timeout, disk full).
DBFault == faults + crashes < MaxFaults /\ faults' = faults + 1

\* The requests on an approval that stand at one of these labels.
On(a, labels) == {h \in Handlers : target[h] = a /\ pc[h] \in labels}

AuditOf(s) == CASE s = "approved" -> "success"
                [] s = "rejected" -> "rejected"
                [] s = "failed"   -> "failed"

-----------------------------------------------------------------------------
(* Creation: the row is inserted, then its pending audit entry.  Every     *)
(* creating endpoint does both, in this order, as separate statements.     *)

CreateRow(a) ==
  /\ status[a] = "none"
  /\ status' = [status EXCEPT ![a] = "pending"]
  /\ creating' = creating \cup {a}
  /\ UNCHANGED <<kind, due, walletGone, logVars, muVars, reqVars, sweepVars, histVars>>

\* A failed insert of the audit entry is only logged.
CreateAudit(a) ==
  /\ a \in creating
  /\ \/ audit' = [audit EXCEPT ![a] = "pending"] /\ UNCHANGED faults
     \/ DBFault /\ UNCHANGED audit
  /\ creating' = creating \ {a}
  /\ UNCHANGED <<kind, status, due, walletGone, auditMissed, notified, muVars, reqVars,
                 sweepVars, effects, lost, dropped, crashes>>

\* The clock passes the row's ExpiresAt.
Elapse(a) ==
  /\ status[a] # "none"
  /\ ~due[a]
  /\ due' = [due EXCEPT ![a] = TRUE]
  /\ UNCHANGED <<kind, status, creating, walletGone, logVars, muVars, reqVars,
                 sweepVars, histVars>>

-----------------------------------------------------------------------------
(* Approve and Reject.  A fresh passkey assertion was verified and the row *)
(* loaded (loadUserApproval); a request that fails either has no effect.   *)

Start(h, a, endpoint) ==
  /\ pc[h] = "idle"
  /\ RowExists(a)
  /\ Goto(h, "loaded")
  /\ op' = [op EXCEPT ![h] = endpoint]
  /\ target' = [target EXCEPT ![h] = a]
  /\ UNCHANGED <<mine, rowVars, logVars, muVars, sweepVars, histVars>>

\* Store instead of LoadOrStore: every caller locks a mutex of its own.
LoadOrStore_AlwaysStores(h) ==
  /\ pc[h] = "loaded"
  /\ mutexOf' = [mutexOf EXCEPT ![target[h]] = h]
  /\ mine' = [mine EXCEPT ![h] = h]
  /\ Goto(h, "waiting")
  /\ UNCHANGED <<holder, op, target, rowVars, logVars, sweepVars, histVars>>

\* lockApproval, first half: LoadOrStore publishes a new mutex or returns the
\* one in the map.
LoadOrStore(h) ==
  /\ pc[h] = "loaded"
  /\ LET a == target[h]
         m == IF mutexOf[a] = None THEN h ELSE mutexOf[a]
     IN  /\ mutexOf' = [mutexOf EXCEPT ![a] = m]
         /\ mine' = [mine EXCEPT ![h] = m]
  /\ Goto(h, "waiting")
  /\ UNCHANGED <<holder, op, target, rowVars, logVars, sweepVars, histVars>>

\* lockApproval, second half: Lock blocks until the object is free.
Lock(h) ==
  /\ pc[h] = "waiting"
  /\ holder[mine[h]] = None
  /\ holder' = [holder EXCEPT ![mine[h]] = h]
  /\ Goto(h, "locked")
  /\ UNCHANGED <<mutexOf, op, target, mine, rowVars, logVars, sweepVars, histVars>>

\* The bug the comment of lockApproval is about: trusting the status that was
\* loaded before the lock was taken.
Recheck_NotReloaded(h) ==
  /\ pc[h] = "locked"
  /\ Stay(h, "checked")
  /\ UNCHANGED <<mutexOf, target, rowVars, logVars, sweepVars, histVars>>

\* Reload under the lock; a failed read, or anything but pending, ends the
\* request.
Recheck(h) ==
  /\ pc[h] = "locked"
  /\ \/ status[target[h]] = "pending" /\ Stay(h, "checked") /\ UNCHANGED faults
     \/ status[target[h]] # "pending" /\ Return(h) /\ UNCHANGED faults
     \/ DBFault /\ Return(h)
  /\ UNCHANGED <<mutexOf, target, rowVars, logVars, sweepVars,
                 effects, lost, dropped, crashes>>

\* Approve only: an approval past its deadline is marked expired instead; the
\* error of that write is not looked at.
ApproveExpiry(h) ==
  /\ pc[h] = "checked"
  /\ op[h] = "approve"
  /\ \/ ~due[target[h]] /\ Stay(h, "work") /\ UNCHANGED <<status, faults>>
     \/ due[target[h]] /\ Return(h) /\ WriteStatus(target[h], "expired") /\ UNCHANGED faults
     \/ due[target[h]] /\ Return(h) /\ DBFault /\ UNCHANGED status
  /\ UNCHANGED <<kind, due, creating, walletGone, mutexOf, target, logVars,
                 sweepVars, effects, lost, dropped, crashes>>

\* Reject writes its verdict whether or not the deadline has passed; a failed
\* write ends the request.
RejectWrite(h) ==
  /\ pc[h] = "checked"
  /\ op[h] = "reject"
  /\ \/ /\ WriteStatus(target[h], "rejected")
        /\ Stay(h, "rejected")
        /\ UNCHANGED faults
     \/ /\ DBFault
        /\ Return(h)
        /\ UNCHANGED status
  /\ UNCHANGED <<kind, due, creating, walletGone, mutexOf, target, logVars,
                 sweepVars, effects, lost, dropped, crashes>>

\* contract_add, contract_update, addressbook_add, addressbook_update and
\* policy_change: the table is edited; or there is nothing to write, which some
\* types go on with as if they had written; or the edit fails (database error,
\* unreadable data, the address book entry is gone) and the approval stays
\* pending.
ApproveApply(h) ==
  /\ pc[h] = "work"
  /\ kind[target[h]] # "transfer"
  /\ \/ /\ effects' = [effects EXCEPT ![target[h]] = @ + 1]
        /\ Stay(h, "sent")
     \/ /\ kind[target[h]] \in Lenient
        /\ Stay(h, "sent")
        /\ UNCHANGED effects
     \/ Return(h) /\ UNCHANGED effects
  /\ UNCHANGED <<mutexOf, target, rowVars, logVars, sweepVars,
                 lost, dropped, faults, crashes>>

\* Signing types: load the wallet and rebuild the transaction from chain
\* state.  A missing wallet or a failed rebuild leaves the approval pending.
ApproveBuild(h) ==
  /\ pc[h] = "work"
  /\ kind[target[h]] = "transfer"
  /\ \/ ~walletGone /\ Stay(h, "sign")
     \/ Return(h)
  /\ UNCHANGED <<mutexOf, target, rowVars, logVars, sweepVars, histVars>>

\* TEE signing succeeds, or the approval is to be marked failed.
ApproveSign(h) ==
  /\ pc[h] = "sign"
  /\ \E label \in {"budget", "bad"} : Goto(h, label)
  /\ UNCHANGED <<op, target, mine, rowVars, logVars, muVars, sweepVars, histVars>>

\* The daily limit is pre-deducted (module DailySpend); exceeding it ends the
\* request and leaves the approval pending.
ApproveBudget(h) ==
  /\ pc[h] = "budget"
  /\ \/ Stay(h, "send")
     \/ Return(h)
  /\ UNCHANGED <<mutexOf, target, rowVars, logVars, sweepVars, histVars>>

\* A refused broadcast taken for an accepted one.
ApproveBroadcast_IgnoresError(h) ==
  /\ pc[h] = "send"
  /\ Goto(h, "sent")
  /\ \/ effects' = [effects EXCEPT ![target[h]] = @ + 1]
     \/ UNCHANGED effects
  /\ UNCHANGED <<op, target, mine, rowVars, logVars, muVars, sweepVars,
                 lost, dropped, faults, crashes>>

\* broadcastSigned: accepted; refused; or an error although the node took it
\* (the RPC timed out after delivery).
ApproveBroadcast(h) ==
  /\ pc[h] = "send"
  /\ \/ effects' = [effects EXCEPT ![target[h]] = @ + 1] /\ Goto(h, "sent")
     \/ effects' = [effects EXCEPT ![target[h]] = @ + 1] /\ Goto(h, "bad")
     \/ UNCHANGED effects /\ Goto(h, "bad")
  /\ UNCHANGED <<op, target, mine, rowVars, logVars, muVars, sweepVars,
                 lost, dropped, faults, crashes>>

\* Signing or broadcast failed: the row is marked failed, the error of that
\* write is not looked at.
ApproveFail(h) ==
  /\ pc[h] = "bad"
  /\ \/ WriteStatus(target[h], "failed") /\ UNCHANGED <<lost, faults>>
     \/ /\ DBFault
        /\ lost' = [lost EXCEPT ![target[h]] = @ + 1]
        /\ UNCHANGED status
  /\ Goto(h, "failed")
  /\ UNCHANGED <<kind, due, creating, walletGone, op, target, mine, logVars, muVars,
                 sweepVars, effects, dropped, crashes>>

\* The row is marked approved.  A refused write ends a signing request (the
\* approval is still pending although its transaction is out) and goes
\* unnoticed in the table-editing kinds.
ApproveCommit(h) ==
  /\ pc[h] = "sent"
  /\ \/ /\ WriteStatus(target[h], "approved")
        /\ Stay(h, "approved")
        /\ UNCHANGED <<lost, faults>>
     \/ /\ DBFault
        /\ lost' = [lost EXCEPT ![target[h]] = @ + 1]
        /\ IF kind[target[h]] = "transfer"
           THEN Return(h)
           ELSE Stay(h, "approved")
        /\ UNCHANGED status
  /\ UNCHANGED <<kind, due, creating, walletGone, mutexOf, target, logVars,
                 sweepVars, effects, dropped, crashes>>

\* A resolution that only notifies, leaving the audit entry as it is.
Settle_NoAudit(h) ==
  /\ pc[h] \in Resolved
  /\ notified' = [notified EXCEPT ![target[h]] = pc[h]]
  /\ Return(h)
  /\ UNCHANGED <<audit, auditMissed, mutexOf, target, rowVars, sweepVars,
                 histVars>>

\* updateAuditByApprovalID resolves the entry that is still pending; that there
\* is none, or that the read or the UPDATE failed, is only logged.
\* broadcastApproval sends the event.
Settle(h) ==
  /\ pc[h] \in Resolved
  /\ \/ /\ audit[target[h]] = "pending"
        /\ audit' = [audit EXCEPT ![target[h]] = AuditOf(pc[h])]
        /\ UNCHANGED <<auditMissed, faults>>
     \/ /\ DBFault \/ (audit[target[h]] # "pending" /\ UNCHANGED faults)
        /\ auditMissed' = [auditMissed EXCEPT ![target[h]] = TRUE]
        /\ UNCHANGED audit
  /\ notified' = [notified EXCEPT ![target[h]] = pc[h]]
  /\ Return(h)
  /\ UNCHANGED <<mutexOf, target, rowVars, sweepVars,
                 effects, lost, dropped, crashes>>

-----------------------------------------------------------------------------
(* GetApproval: reads the row and, outside approvalMu, marks it expired if *)
(* the copy it read was pending and is past its deadline.  It changes      *)
(* nothing if that copy was not pending.                                   *)

StartGet(h, a) ==
  /\ pc[h] = "idle"
  /\ status[a] = "pending"
  /\ Goto(h, "got")
  /\ target' = [target EXCEPT ![h] = a]
  /\ UNCHANGED <<op, mine, rowVars, logVars, muVars, sweepVars, histVars>>

GetExpire(h) ==
  /\ pc[h] = "got"
  /\ \/ ~due[target[h]] /\ UNCHANGED <<status, faults>>
     \/ due[target[h]] /\ WriteStatus(target[h], "expired") /\ UNCHANGED faults
     \/ due[target[h]] /\ DBFault /\ UNCHANGED status
  /\ Goto(h, "done")
  /\ UNCHANGED <<kind, due, creating, walletGone, op, target, mine, logVars, muVars,
                 sweepVars, effects, lost, dropped, crashes>>

-----------------------------------------------------------------------------
(* Wallet deletion, the background loop and crashes.                       *)

\* One transaction deletes the wallet with its approval rows.
DeleteWallet ==
  /\ ~walletGone
  /\ walletGone' = TRUE
  /\ status' = [a \in Approvals |->
                  IF kind[a] \in WalletKinds /\ RowExists(a) THEN "deleted" ELSE status[a]]
  /\ UNCHANGED <<kind, due, creating, logVars, muVars, reqVars, sweepVars, histVars>>

\* A tick that forgets the UPDATE.
ExpireTick_NoUpdate ==
  /\ toSweep = {} /\ reaping = None
  /\ toSweep' = {a \in Approvals : mutexOf[a] # None}
  /\ UNCHANGED <<reaping, rowVars, logVars, muVars, reqVars, histVars>>

\* One tick of expireLoop: a single UPDATE, whose error is not looked at; every
\* tenth tick goes on to range over the keys of approvalMu.
ExpireTick ==
  /\ toSweep = {} /\ reaping = None
  /\ \/ /\ status' = [a \in Approvals |->
                         IF status[a] = "pending" /\ due[a] THEN "expired" ELSE status[a]]
        /\ UNCHANGED faults
     \/ DBFault /\ UNCHANGED status
  /\ toSweep' \in {{}, {a \in Approvals : mutexOf[a] # None}}
  /\ UNCHANGED <<kind, due, creating, walletGone, reaping, logVars, muVars, reqVars,
                 effects, lost, dropped, crashes>>

\* A sweep that does not ask whether the approval is still pending.
CleanupVisit_AnyStatus(a) ==
  /\ a \in toSweep /\ reaping = None
  /\ toSweep' = toSweep \ {a}
  /\ reaping' = a
  /\ UNCHANGED <<rowVars, logVars, muVars, reqVars, histVars>>

\* cleanupApprovalMu, per key: count the pending rows with this id.  The error
\* of the query is not looked at, and leaves a count of 0 ...
CleanupVisit(a) ==
  /\ a \in toSweep /\ reaping = None
  /\ toSweep' = toSweep \ {a}
  /\ \/ reaping' = (IF status[a] = "pending" THEN None ELSE a) /\ UNCHANGED <<dropped, faults>>
     \/ /\ status[a] = "pending"
        /\ DBFault
        /\ reaping' = a
        /\ dropped' = [dropped EXCEPT ![a] = @ \cup {mutexOf[a]}]
  /\ UNCHANGED <<rowVars, logVars, muVars, reqVars, effects, lost, crashes>>

\* ... and drop the key if there is none, whoever holds its mutex.
CleanupDelete ==
  /\ reaping # None
  /\ mutexOf' = [mutexOf EXCEPT ![reaping] = None]
  /\ reaping' = None
  /\ UNCHANGED <<toSweep, holder, rowVars, logVars, reqVars, histVars>>

\* The process dies and restarts: requests and mutexes vanish, rows stay.
Crash ==
  /\ faults + crashes < MaxFaults
  /\ crashes' = crashes + 1
  /\ pc' = [h \in Handlers |-> IF pc[h] = "idle" THEN "idle" ELSE "done"]
  /\ mutexOf' = [a \in Approvals |-> None]
  /\ holder' = [m \in Handlers |-> None]
  /\ op' = [h \in Handlers |-> "none"]
  /\ mine' = [h \in Handlers |-> None]
  /\ toSweep' = {} /\ reaping' = None
  /\ creating' = {}
  /\ lost' = [a \in Approvals |-> lost[a] + Cardinality(On(a, Unsaved))]
  /\ UNCHANGED <<kind, status, due, walletGone, logVars, target, effects, dropped, faults>>

-----------------------------------------------------------------------------
(* Specification.                                                          *)

HandlerStep(h) ==
  \/ LoadOrStore(h) \/ Lock(h) \/ Recheck(h)
  \/ ApproveExpiry(h) \/ RejectWrite(h) \/ ApproveApply(h) \/ ApproveBuild(h)
  \/ ApproveSign(h) \/ ApproveBudget(h) \/ ApproveBroadcast(h)
  \/ ApproveFail(h) \/ ApproveCommit(h) \/ Settle(h) \/ GetExpire(h)

Sweep == CleanupDelete \/ \E a \in Approvals : CleanupVisit(a)

Next ==
  \/ \E a \in Approvals : CreateRow(a) \/ CreateAudit(a) \/ Elapse(a)
  \/ \E h \in Handlers, a \in Approvals :
       Start(h, a, "approve") \/ Start(h, a, "reject") \/ StartGet(h, a)
  \/ \E h \in Handlers : HandlerStep(h)
  \/ DeleteWallet
  \/ ExpireTick
  \/ Sweep
  \/ Crash

Spec == Init /\ [][Next]_vars

\* expireLoop runs from start-up to shutdown, and a request that began keeps
\* running: its calls to the database, the TEE and the chain all time out.
Fairness ==
  /\ WF_vars(ExpireTick) /\ WF_vars(Sweep)
  /\ \A h \in Handlers : WF_vars(HandlerStep(h))

FairSpec == Spec /\ Fairness

-----------------------------------------------------------------------------
(* Properties.                                                             *)

\* Double clicks, retries and races between Approve and Reject carry the
\* approved operation out once.  Each status write that the database refused or
\* a crash swallowed leaves the approval open to one more, and so does each time
\* the sweep drops the mutex of a pending approval it could not count.
AtMostOnce == \A a \in Approvals : effects[a] <= 1 + lost[a] + Cardinality(dropped[a])

\* At most one request at a time is past the re-check of an approval, although
\* expireLoop drops approvalMu entries that handlers still hold or wait for; a
\* count that failed on a pending approval lets one more in.
EffectExclusion ==
  \A a \in Approvals : Cardinality(On(a, Critical)) <= 1 + Cardinality(dropped[a])

\* Once Reject has written its verdict nothing was sent and nothing will be,
\* whichever Approve requests were under way - unless an earlier status write
\* was lost or the approval's mutex was dropped while it was pending.
RejectedMeansUnsent ==
  \A a \in Approvals : status[a] = "rejected" /\ lost[a] = 0 /\ dropped[a] = {} =>
    effects[a] = 0 /\ On(a, Working \cup Unsaved) = {}

\* The audit log and the SSE event report a success only for an operation that
\* was carried out; the types that take "nothing to write" for success aside.
ReportsTruthful ==
  \A a \in Approvals :
    /\ audit[a] = "success" \/ notified[a] = "approved"
    /\ kind[a] \notin Lenient
    => effects[a] > 0

\* When no request works on a resolved approval any more, the last event and
\* the audit entry say what the row says - unless a status write was lost, the
\* mutex was dropped while the approval was pending, the audit update failed, or
\* the approval was resolved before its creator had written the audit entry.
SettledConsistently ==
  \A a \in Approvals :
    /\ status[a] \in Resolved
    /\ On(a, Holding) = {}
    /\ lost[a] = 0 /\ dropped[a] = {} /\ crashes = 0
    => /\ notified[a] = status[a]
       /\ audit[a] = AuditOf(status[a]) \/ auditMissed[a]

\* A verdict (approved, rejected, failed) is never reopened, whatever happened;
\* and it is not replaced by another verdict, unless the approval's mutex was
\* dropped while it was pending.  It can be covered by "expired" after the
\* deadline (GetApproval's unlocked write) or go away with the wallet.
VerdictStands ==
  [][\A a \in Approvals : status[a] \in Resolved =>
       \/ status'[a] = status[a]
       \/ status'[a] \in Resolved /\ dropped[a] # {}
       \/ status'[a] = "expired" /\ due[a]
       \/ status'[a] = "deleted" /\ walletGone']_vars

\* A pending approval past its deadline does not stay pending.
DuePendingResolved ==
  \A a \in Approvals : (status[a] = "pending" /\ due[a]) ~> (status[a] # "pending")

\* No request hangs on approvalMu: each one returns.
EveryRequestReturns == \A h \in Handlers : (pc[h] # "idle") ~> (pc[h] = "done")

-----------------------------------------------------------------------------
(* The inductive invariant behind AtMostOnce, EffectExclusion,             *)
(* RejectedMeansUnsent, ReportsTruthful and VerdictStands.                 *)

\* A request works on a row that was inserted.
TargetInv ==
  \A h \in Handlers : pc[h] # "idle" => target[h] \in Approvals /\ status[target[h]] # "none"

\* A handler past Lock owns the mutex object it was given; while the approval
\* is pending that object is the one approvalMu still maps the approval to, or
\* one that was dropped because a count failed.
LockInv ==
  \A h \in Handlers :
    /\ pc[h] \in Holding => holder[mine[h]] = h
    /\ pc[h] \in {"waiting"} \cup Holding =>
         /\ mine[h] \in Handlers
         /\ status[target[h]] = "pending" =>
              mine[h] \in {mutexOf[target[h]]} \cup dropped[target[h]]

\* Only rows that exist have a mutex, and the sweep deletes the mutex of a row
\* that is not pending and will never be pending again, or could not be counted.
SweepInv ==
  /\ \A a \in Approvals : mutexOf[a] # None => status[a] # "none"
  /\ \A a \in toSweep : mutexOf[a] # None /\ a # reaping
  /\ reaping # None =>
       /\ mutexOf[reaping] # None
       /\ status[reaping] = "pending" => mutexOf[reaping] \in dropped[reaping]

\* On a pending row, what was carried out beyond the lost writes is about to be
\* recorded; and whoever may still act has room below the bound of AtMostOnce.
EffectInv ==
  \A a \in Approvals :
    /\ status[a] \in {"none", "pending"} =>
         effects[a] <= lost[a] + Cardinality(On(a, Unsaved))
    /\ effects[a] + Cardinality(On(a, Acting)) <= 1 + lost[a] + Cardinality(dropped[a])

\* Nobody acts on an approval that has its verdict.
VerdictInv ==
  \A a \in Approvals : dropped[a] = {} =>
    /\ status[a] \in Resolved => On(a, Critical) = {}
    /\ status[a] = "rejected" => effects[a] <= lost[a]

\* A handler about to report success has carried the operation out.
ReportInv ==
  \A h \in Handlers :
    pc[h] \in {"sent", "approved"} /\ kind[target[h]] \notin Lenient => effects[target[h]] > 0

IndInv ==
  /\ TypeOK
  /\ TargetInv /\ LockInv /\ SweepInv
  /\ EffectExclusion /\ EffectInv /\ VerdictInv /\ ReportInv
  /\ ReportsTruthful

-----------------------------------------------------------------------------
(* Claims of comments in the code that its behaviour does not meet.        *)

\* approvalMu is there "to prevent TOCTOU races on status checks": then no
\* verdict would ever turn into "expired".
VerdictNeverExpires ==
  [][\A a \in Approvals : status[a] \in Resolved => status'[a] # "expired"]_vars
=============================================================================
