----------------------------- MODULE DailySpend -----------------------------
(***************************************************************************)
(* The USD approval policy of one wallet and its daily spend counter       *)
(* (model.ApprovalPolicy), used by Transfer and WrapSOL (handler/wallet.go)*)
(* by the broadcast part of Approve (handler/approval.go), by passkey      *)
(* contract calls with a value (handler/contract_call.go), and edited by   *)
(* SetPolicy, policy_change approvals and DeletePolicy.                    *)
(*                                                                         *)
(* checkAndDeductDailyLimitUSD, releaseDailySpentUSD and addDailySpentUSD  *)
(* read and write the row as two statements under the wallet's mutex;      *)
(* edits take no mutex, and SetPolicy saves the whole row it read earlier. *)
(***************************************************************************)
EXTENDS Integers

CONSTANTS
  Transfers,  \* /transfer and /wrap-sol requests
  Approves,   \* Approve requests of transfers and contract calls
  Calls,      \* contract calls carrying native value
  Tokens,     \* requests that move a token rather than the native coin
  ApiKeys,    \* requests authenticated by an API key
  Amount,     \* USD value of each request
  Editors,    \* SetPolicy requests and policy_change approvals
  Settings,   \* the values an edit may set: [enabled, limit, threshold]
  None,       \* no row
  MaxDay,     \* bound: UTC days
  MaxRows,    \* bound: policy rows created
  MaxFaults   \* bound: reads and writes the database may refuse

Requests == Transfers \cup Approves \cup Calls

\* limit 0 stands for an empty daily_limit_usd.
Setting == [enabled : BOOLEAN, limit : Nat, threshold : Nat \ {0}]

\* day 0 stands for a zero daily_reset_at.
Row == [id : Nat, enabled : BOOLEAN, limit : Nat, threshold : Nat, spent : Nat, day : Nat]

ASSUME DailySpendAssumption ==
  /\ Amount \in [Requests -> Nat \ {0}]
  /\ Settings \subseteq Setting
  /\ None \notin Requests \cup Row
  /\ MaxDay \in Nat /\ MaxRows \in Nat /\ MaxFaults \in Nat

VARIABLES
  policy,   \* the row, or None
  rows,     \* ids handed out to rows
  today,    \* the UTC day
  mu,       \* holder of the wallet's mutex
  pc, seen, price, snap, marked, sent,  \* per request; see TypeOK
  epc, eread, eset,                     \* per editor: step, row read, new setting
  charge,   \* account period in which the request is charged; 0 = not (history)
  period,   \* account periods: a new one per day and per deleted row (history)
  owed,     \* charges of this period not given back (history)
  raced,    \* what has happened that the counter does not survive (history)
  faults

rowVars  == <<policy, rows, today>>
reqVars  == <<pc, seen, price, snap, marked, sent>>
editVars == <<epc, eread, eset>>
histVars == <<charge, period, owed, raced>>
vars == <<rowVars, mu, reqVars, editVars, histVars, faults>>

\* What a handler keeps of the policy it looked at.
Terms == [limit : Nat, threshold : Nat]

Locked == {"deducting", "releasing", "adding"}
Ended  == {"done", "failed", "refused", "queued"}
PCs == {"idle", "limit", "deduct", "send", "release", "add"} \cup Ended \cup Locked

Races == {"stale_save", "midnight_release", "unpaired_release", "lost_reply",
          "phantom", "skipped"}

TypeOK ==
  /\ policy \in Row \cup {None}
  /\ rows \in Nat
  /\ today \in Nat
  /\ mu \in Requests \cup {None}
  /\ pc \in [Requests -> PCs]
  /\ seen \in [Requests -> Terms \cup {None}]      \* enabled policy at the first look
  /\ price \in [Requests -> {"main", "fallback", "none"}]
  /\ snap \in [Requests -> Row \cup {None}]        \* row read under the mutex
  /\ marked \in [Requests -> BOOLEAN]              \* deductedUSDStr / preDeductedUSD set
  /\ sent \in [Requests -> BOOLEAN]                \* the transaction is out
  /\ epc \in [Editors -> {"idle", "read", "done"}]
  /\ eread \in [Editors -> Row \cup {None}]
  /\ eset \in [Editors -> Setting]
  /\ charge \in [Requests -> Nat]
  /\ period \in Nat \ {0}
  /\ owed \in Int
  /\ raced \subseteq Races
  /\ faults \in 0 .. MaxFaults

\* An inserted row is enabled: gorm writes the default, true, for a false.
NewRow(id, s) == [id |-> id, enabled |-> TRUE, limit |-> s.limit,
                  threshold |-> s.threshold, spent |-> 0, day |-> 0]

Init ==
  /\ \E s \in Settings : policy = NewRow(1, s)
  /\ rows = 1
  /\ today = 1
  /\ mu = None
  /\ pc = [r \in Requests |-> "idle"]
  /\ seen = [r \in Requests |-> None]
  /\ price = [r \in Requests |-> "none"]
  /\ snap = [r \in Requests |-> None]
  /\ marked = [r \in Requests |-> FALSE]
  /\ sent = [r \in Requests |-> FALSE]
  /\ epc = [e \in Editors |-> "idle"]
  /\ eread = [e \in Editors |-> None]
  /\ eset \in [Editors -> Settings]
  /\ charge = [r \in Requests |-> 0]
  /\ period = 1
  /\ owed = 0
  /\ raced = {}
  /\ faults = 0

-----------------------------------------------------------------------------
(* Helpers.                                                                *)

\* WHERE wallet_id = ? AND enabled = true
EnabledPolicy == IF policy # None /\ policy.enabled THEN policy ELSE None

TermsOf(p) == IF p = None THEN None ELSE [limit |-> p.limit, threshold |-> p.threshold]

\* The database refuses a read or a write.
DBFault == faults < MaxFaults /\ faults' = faults + 1

\* First(&policy): whatever goes wrong, the handlers take it for "no policy".
Look(row, p) == (p = row /\ UNCHANGED faults) \/ (p = None /\ DBFault)

\* The counter as every reader interprets it: 0 unless it was reset today.
Effective(p) == IF p = None \/ p.day < today THEN 0 ELSE p.spent

Goto(r, label) == pc' = [pc EXCEPT ![r] = label]
Race(names) == raced' = raced \cup names
OverThreshold(r, p) == p # None /\ Amount[r] > p.threshold

\* A native coin has no fallback price.
Prices(r) == IF r \in Tokens THEN {"main", "fallback", "none"} ELSE {"main", "none"}

-----------------------------------------------------------------------------
(* Requests: the first look at the policy.                                 *)

\* Transfer, WrapSOL: no policy sends directly; an unpriced token asks for
\* approval under an API key; a priced amount is deducted first when there is
\* a limit, and then held against the threshold.
LoadTransfer(r) ==
  /\ r \in Transfers
  /\ pc[r] = "idle"
  /\ \E p \in Prices(r), pol \in {EnabledPolicy, None} :
       /\ Look(EnabledPolicy, pol)
       /\ price' = [price EXCEPT ![r] = p]
       /\ seen' = [seen EXCEPT ![r] = TermsOf(pol)]
       /\ Goto(r, CASE pol = None -> "send"
                    [] pol # None /\ p = "none" ->
                         IF r \in Tokens /\ r \in ApiKeys THEN "queued" ELSE "send"
                    [] pol # None /\ p # "none" ->
                         IF pol.limit # 0 THEN "deduct"
                         ELSE IF OverThreshold(r, pol) THEN "queued" ELSE "send")
  /\ UNCHANGED <<rowVars, mu, snap, marked, sent, editVars, histVars>>

\* Approve after signing: only the main price source is asked before the
\* broadcast.  The context of a contract call or a bare signature names no
\* amount; such an approval is one that finds no price.
LoadApprove(r) ==
  /\ r \in Approves
  /\ pc[r] = "idle"
  /\ \E p \in {"main", "none"}, pol \in {EnabledPolicy, None} :
       /\ Look(EnabledPolicy, pol)
       /\ price' = [price EXCEPT ![r] = p]
       /\ seen' = [seen EXCEPT ![r] = TermsOf(pol)]
       /\ Goto(r, IF pol # None /\ pol.limit # 0 /\ p = "main" THEN "deduct" ELSE "send")
  /\ UNCHANGED <<rowVars, mu, snap, marked, sent, editVars, histVars>>

\* contractCallEVM: an API key always asks for approval, a passkey only above
\* the threshold ...
LoadCall(r) ==
  /\ r \in Calls
  /\ pc[r] = "idle"
  /\ \E p \in {"main", "none"}, pol \in {EnabledPolicy, None} :
       /\ Look(EnabledPolicy, pol)
       /\ price' = [price EXCEPT ![r] = p]
       /\ Goto(r, IF r \in ApiKeys \/ (p = "main" /\ OverThreshold(r, pol))
                  THEN "queued" ELSE "limit")
  /\ UNCHANGED <<rowVars, mu, seen, snap, marked, sent, editVars, histVars>>

\* ... and the policy is loaded again for the limit.
LimitCall(r) ==
  /\ pc[r] = "limit"
  /\ \E pol \in {EnabledPolicy, None} :
       /\ Look(EnabledPolicy, pol)
       /\ seen' = [seen EXCEPT ![r] = TermsOf(pol)]
       /\ Goto(r, IF price[r] = "main" /\ pol # None /\ pol.limit # 0
                  THEN "deduct" ELSE "send")
  /\ UNCHANGED <<rowVars, mu, price, snap, marked, sent, editVars, histVars>>

-----------------------------------------------------------------------------
(* The counter, under the wallet's mutex.                                  *)

\* The bug getWalletMutex is there to prevent.
Enter_NoMutex(r) ==
  /\ pc[r] \in {"deduct", "release", "add"}
  /\ mu' = r
  /\ snap' = [snap EXCEPT ![r] = EnabledPolicy]
  /\ Goto(r, CASE pc[r] = "deduct" -> "deducting"
               [] pc[r] = "release" -> "releasing"
               [] pc[r] = "add" -> "adding")
  /\ UNCHANGED <<rowVars, seen, price, marked, sent, editVars, histVars, faults>>

\* The deferred unlock.
Leave(r) == mu' = None /\ snap' = [snap EXCEPT ![r] = None]

\* Lock, then read the enabled row.
Enter(r) ==
  /\ pc[r] \in {"deduct", "release", "add"}
  /\ mu = None
  /\ mu' = r
  /\ \E pol \in {EnabledPolicy, None} : Look(EnabledPolicy, pol)
                                       /\ snap' = [snap EXCEPT ![r] = pol]
  /\ Goto(r, CASE pc[r] = "deduct" -> "deducting"
               [] pc[r] = "release" -> "releasing"
               [] pc[r] = "add" -> "adding")
  /\ UNCHANGED <<rowVars, seen, price, marked, sent, editVars, histVars>>

\* UPDATE of the counter by row id: nothing happens when that row is gone.
RowIsSnap(r) == policy # None /\ snap[r] # None /\ policy.id = snap[r].id
WriteSpent(amount, day) == policy' = [policy EXCEPT !.spent = amount, !.day = day]

\* A Transfer past its check goes to the approval queue when it is above the
\* threshold, rolling the deduction back first.
Proceed(r) ==
  Goto(r, IF r \in Transfers /\ OverThreshold(r, seen[r]) THEN "release" ELSE "send")
Mark(r) == marked' = [marked EXCEPT ![r] = r \notin Calls]

\* checkAndDeductDailyLimitUSD, no row (or a failed read of it), or no limit in
\* it: nothing is deducted, but the caller remembers the amount as deducted.
DeductNothing(r) ==
  /\ pc[r] = "deducting"
  /\ Leave(r)
  /\ snap[r] # None => snap[r].limit = 0
  /\ Mark(r) /\ Proceed(r) /\ Race({"skipped"})
  /\ UNCHANGED <<rowVars, seen, price, sent, editVars, charge, period, owed, faults>>

DeductExceeded(r) ==
  /\ pc[r] = "deducting"
  /\ Leave(r)
  /\ snap[r] # None /\ snap[r].limit # 0
  /\ Effective(snap[r]) + Amount[r] > snap[r].limit
  /\ Goto(r, "refused")
  /\ UNCHANGED <<rowVars, seen, price, marked, sent, editVars, histVars, faults>>

\* The check compares against the limit without the amount at hand.
DeductWrite_OffByOne(r) ==
  /\ pc[r] = "deducting"
  /\ Leave(r)
  /\ snap[r] # None /\ snap[r].limit # 0
  /\ Effective(snap[r]) <= snap[r].limit
  /\ Mark(r) /\ Proceed(r)
  /\ RowIsSnap(r)
  /\ WriteSpent(Effective(snap[r]) + Amount[r], today)
  /\ charge' = [charge EXCEPT ![r] = period]
  /\ owed' = owed + Amount[r]
  /\ UNCHANGED <<rows, today, seen, price, sent, editVars, period, raced, faults>>

\* The mark is set, the counter is not written.
DeductWrite_NotStored(r) ==
  /\ pc[r] = "deducting"
  /\ Leave(r)
  /\ snap[r] # None /\ snap[r].limit # 0
  /\ Effective(snap[r]) + Amount[r] <= snap[r].limit
  /\ Mark(r) /\ Proceed(r)
  /\ UNCHANGED <<rowVars, seen, price, sent, editVars, histVars, faults>>

\* The deduction; lost without an error if the row was deleted meanwhile.
DeductWrite(r) ==
  /\ pc[r] = "deducting"
  /\ Leave(r)
  /\ snap[r] # None /\ snap[r].limit # 0
  /\ Effective(snap[r]) + Amount[r] <= snap[r].limit
  /\ Mark(r) /\ Proceed(r)
  /\ \/ /\ RowIsSnap(r)
        /\ WriteSpent(Effective(snap[r]) + Amount[r], today)
        /\ charge' = [charge EXCEPT ![r] = period]
        /\ owed' = owed + Amount[r]
        /\ UNCHANGED raced
     \/ /\ ~RowIsSnap(r)
        /\ Race({"skipped"})
        /\ UNCHANGED <<policy, charge, owed>>
  /\ UNCHANGED <<rows, today, seen, price, sent, editVars, period, faults>>

\* The write fails: Transfer and contract calls give up, Approve logs it and
\* goes on as if it had deducted.
DeductFault(r) ==
  /\ pc[r] = "deducting"
  /\ Leave(r)
  /\ snap[r] # None /\ snap[r].limit # 0
  /\ Effective(snap[r]) + Amount[r] <= snap[r].limit
  /\ DBFault
  /\ IF r \in Approves
     THEN Mark(r) /\ Proceed(r) /\ Race({"skipped"})
     ELSE Goto(r, "failed") /\ UNCHANGED <<marked, raced>>
  /\ UNCHANGED <<rowVars, seen, price, sent, editVars, charge, period, owed>>

\* The roll-back of a deduction whatever day it was made on and without the
\* floor at 0.
Release_NoFloor(r) ==
  /\ pc[r] = "releasing"
  /\ Leave(r)
  /\ Goto(r, "failed")
  /\ RowIsSnap(r)
  /\ policy' = [policy EXCEPT !.spent = snap[r].spent - Amount[r]]
  /\ owed' = IF charge[r] = period THEN owed - Amount[r] ELSE owed
  /\ charge' = [charge EXCEPT ![r] = 0]
  /\ UNCHANGED <<rows, today, seen, price, marked, sent, editVars, period, raced, faults>>

\* releaseDailySpentUSD: nothing to do when the row it reads is disabled, gone
\* or from an earlier day; otherwise the amount is taken off, not below 0.
\* Afterwards a Transfer above the threshold is queued, anything else failed.
\* A request that was charged in this period and is not out is owed no longer.
Release(r) ==
  LET applies == snap[r] # None /\ snap[r].day >= today /\ RowIsSnap(r)
      current == charge[r] = period
      settled == current /\ ~sent[r]
  IN
  /\ pc[r] = "releasing"
  /\ Leave(r)
  /\ Goto(r, IF r \in Transfers /\ OverThreshold(r, seen[r]) THEN "queued" ELSE "failed")
  /\ \/ /\ applies
        /\ policy' = [policy EXCEPT !.spent =
                        IF snap[r].spent > Amount[r] THEN snap[r].spent - Amount[r] ELSE 0]
        /\ Race(   (IF charge[r] = 0 THEN {"unpaired_release"} ELSE {})
              \cup (IF charge[r] # 0 /\ ~current THEN {"midnight_release"} ELSE {})
              \cup (IF current /\ sent[r] THEN {"lost_reply"} ELSE {}))
        /\ UNCHANGED faults
     \/ /\ \/ ~applies /\ UNCHANGED faults
           \/ applies /\ DBFault
        /\ Race(IF settled THEN {"phantom"} ELSE {})
        /\ UNCHANGED policy
  /\ owed' = IF settled THEN owed - Amount[r] ELSE owed
  /\ charge' = [charge EXCEPT ![r] = IF sent[r] THEN @ ELSE 0]
  /\ UNCHANGED <<rows, today, seen, price, marked, sent, editVars, period>>

\* addDailySpentUSD: no check against the limit, and nobody hears of a row that
\* is gone or of a write that is refused.
Add(r) ==
  /\ pc[r] = "adding"
  /\ Leave(r)
  /\ Goto(r, "done")
  /\ \/ /\ RowIsSnap(r)
        /\ WriteSpent(Effective(snap[r]) + Amount[r], today)
        /\ charge' = [charge EXCEPT ![r] = period]
        /\ owed' = owed + Amount[r]
        /\ UNCHANGED <<raced, faults>>
     \/ /\ \/ ~RowIsSnap(r) /\ UNCHANGED faults
           \/ RowIsSnap(r) /\ DBFault
        /\ Race({"skipped"})
        /\ UNCHANGED <<policy, charge, owed>>
  /\ UNCHANGED <<rows, today, seen, price, marked, sent, editVars, period>>

-----------------------------------------------------------------------------
(* Signing and broadcast.                                                  *)

\* Approve counts afterwards what it has not deducted before, limit or not, and
\* asks every price source for it - unless the database refuses the verdict on
\* the approval, which comes first and ends the request.
SendSucceeds(r) ==
  LET countsNow == r \in Approves /\ ~marked[r] IN
  /\ pc[r] = "send"
  /\ sent' = [sent EXCEPT ![r] = TRUE]
  /\ \/ /\ countsNow
        /\ \E p \in Prices(r) : /\ price' = [price EXCEPT ![r] = p]
                                /\ Goto(r, IF p # "none" THEN "add" ELSE "done")
        /\ UNCHANGED <<raced, faults>>
     \/ /\ countsNow
        /\ DBFault
        /\ Goto(r, "done")
        /\ Race({"skipped"})
        /\ UNCHANGED price
     \/ /\ ~countsNow
        /\ Goto(r, "done")
        /\ UNCHANGED <<price, raced, faults>>
  /\ UNCHANGED <<rowVars, mu, seen, snap, marked, editVars, charge, period, owed>>

\* Signing or broadcast returns an error - for the broadcast, possibly after
\* the node took the transaction.  Contract calls keep no mark to release.
SendFails(r) ==
  /\ pc[r] = "send"
  /\ \E out \in BOOLEAN : sent' = [sent EXCEPT ![r] = out]
  /\ Goto(r, IF marked[r] THEN "release" ELSE "failed")
  /\ Race(IF ~marked[r] /\ charge[r] = period THEN {"phantom"} ELSE {})
  /\ UNCHANGED <<rowVars, mu, seen, price, snap, marked, editVars, charge, period,
                 owed, faults>>

-----------------------------------------------------------------------------
(* Edits and the clock.                                                    *)

\* SetPolicy and policy_change, first statement.  SetPolicy (not policy_change)
\* stops here when nothing would change; its passkey verification follows, a
\* network call.
EditRead(e) ==
  /\ epc[e] = "idle"
  /\ \E row \in {policy, None} :
       /\ Look(policy, row)
       /\ eread' = [eread EXCEPT ![e] = row]
       /\ \/ epc' = [epc EXCEPT ![e] = "read"]
          \/ /\ row # None
             /\ row.enabled = eset[e].enabled
             /\ row.limit = eset[e].limit
             /\ row.threshold = eset[e].threshold
             /\ epc' = [epc EXCEPT ![e] = "done"]
  /\ UNCHANGED <<rowVars, mu, reqVars, eset, histVars>>

Edited(e) == [eread[e] EXCEPT !.enabled = policy = None \/ eset[e].enabled,
                              !.limit = eset[e].limit, !.threshold = eset[e].threshold]

\* db.Save of the whole row that was read, counter included.  An UPDATE by id;
\* when it matches nothing, an INSERT, which re-creates a row deleted meanwhile
\* and fails on the unique wallet_id if another exists.  The write may be refused.
EditSave(e) ==
  /\ epc[e] = "read"
  /\ epc' = [epc EXCEPT ![e] = "done"]
  /\ eread' = [eread EXCEPT ![e] = None]
  /\ \/ /\ eread[e] # None
        /\ policy # None => policy.id = eread[e].id
        /\ policy' = Edited(e)
        /\ Race(IF policy = None \/ Effective(Edited(e)) # Effective(policy)
                THEN {"stale_save"} ELSE {})
        /\ UNCHANGED <<rows, faults>>
     \/ /\ eread[e] = None
        /\ policy = None
        /\ policy' = NewRow(rows + 1, eset[e])
        /\ rows' = rows + 1
        /\ UNCHANGED <<raced, faults>>
     \/ /\ policy # None
        /\ eread[e] # None => policy.id # eread[e].id
        /\ UNCHANGED <<policy, rows, raced, faults>>
     \/ /\ DBFault
        /\ UNCHANGED <<policy, rows, raced>>
  /\ UNCHANGED <<today, mu, reqVars, eset, charge, period, owed>>

\* The counter goes with the row, and with it the period's account.
DeletePolicy ==
  /\ policy # None
  /\ rows < MaxRows
  /\ policy' = None
  /\ period' = period + 1
  /\ owed' = 0
  /\ UNCHANGED <<rows, today, mu, reqVars, editVars, charge, raced, faults>>

Midnight ==
  /\ today < MaxDay
  /\ today' = today + 1
  /\ period' = period + 1
  /\ owed' = 0
  /\ UNCHANGED <<policy, rows, mu, reqVars, editVars, charge, raced, faults>>

\* The process dies and comes back: requests and edits in flight are gone, the
\* one at its broadcast may be out, and what was deducted stays deducted.
Crash ==
  /\ \E r \in Requests : pc[r] \notin Ended \cup {"idle"}
  /\ mu' = None
  /\ pc' = [r \in Requests |-> IF pc[r] \in Ended \cup {"idle"} THEN pc[r] ELSE "failed"]
  /\ snap' = [r \in Requests |-> None]
  /\ \E S \in SUBSET {r \in Requests : pc[r] = "send"} :
       sent' = [r \in Requests |-> r \in S \/ sent[r]]
  /\ epc' = [e \in Editors |-> IF epc[e] = "read" THEN "done" ELSE epc[e]]
  /\ eread' = [e \in Editors |-> None]
  /\ Race(IF \E r \in Requests : pc[r] \in {"add", "adding"} THEN {"skipped"} ELSE {})
  /\ UNCHANGED <<rowVars, seen, price, marked, eset, charge, period, owed, faults>>

-----------------------------------------------------------------------------
(* Specification.                                                          *)

RequestStep(r) ==
  \/ LoadTransfer(r) \/ LoadApprove(r) \/ LoadCall(r) \/ LimitCall(r) \/ Enter(r)
  \/ DeductNothing(r) \/ DeductExceeded(r) \/ DeductWrite(r) \/ DeductFault(r)
  \/ Release(r) \/ Add(r) \/ SendSucceeds(r) \/ SendFails(r)

Next ==
  \/ \E r \in Requests : RequestStep(r)
  \/ \E e \in Editors : EditRead(e) \/ EditSave(e)
  \/ DeletePolicy
  \/ Midnight
  \/ Crash

Spec == Init /\ [][Next]_vars

-----------------------------------------------------------------------------
(* Properties.  raced lists what can make the counter wrong; the passing   *)
(* properties say that nothing else can.                                   *)

Undercounting == {"stale_save", "midnight_release", "unpaired_release", "lost_reply"}

\* The counter covers what was charged today and is out, in flight or cut off,
\* however requests, edits, midnight and crashes interleave, unless one of the
\* four undercounting races happened: a stale SetPolicy save, a release of
\* another day's deduction, a release of a deduction never made, and a broadcast
\* that failed after the node took it.
SpendCovered == raced \cap Undercounting = {} => owed <= Effective(policy)

\* Without a race or a lost roll-back the counter is exactly what was charged;
\* spending that was never charged (skipped) does not disturb it.
SpendExact == raced \subseteq {"skipped"} => owed = Effective(policy)

\* Every deduction checkAndDeductDailyLimitUSD admits keeps the day's charges
\* within the limit it read, under concurrent requests.
CapRespected ==
  [][\A r \in Requests :
       pc[r] = "deducting" /\ charge'[r] # charge[r] /\ raced' \cap Undercounting = {}
       => owed' <= snap[r].limit]_vars

\* A request that saw a limit, could be priced and went out has been counted,
\* whatever raced, unless some request's counting was skipped: the row was gone,
\* without its limit or unreadable, or the database refused the counter or the
\* verdict, or the process died first.  (A failed first look sees no limit.)
SentIsCharged ==
  \A r \in Requests :
    /\ pc[r] = "done" /\ sent[r]
    /\ seen[r] # None
    /\ price[r] = "main" \/ (price[r] = "fallback" /\ r \notin Calls)
    /\ "skipped" \notin raced
    => seen[r].limit = 0 \/ charge[r] # 0

-----------------------------------------------------------------------------
(* The inductive invariant behind SpendCovered and CapRespected.           *)

\* The wallet's mutex has one holder, and only a holder has a row in hand.
MutexInv ==
  \A r \in Requests : /\ pc[r] \in Locked => mu = r
                      /\ snap[r] # None => pc[r] \in Locked

\* No row comes from the future, and ids are not reused.
RowInv ==
  /\ policy # None => policy.id <= rows /\ policy.day <= today
  /\ \A r \in Requests : snap[r] # None => snap[r].id <= rows /\ snap[r].day <= today
  /\ \A e \in Editors : eread[e] # None => eread[e].id <= rows /\ eread[e].day <= today

\* What the mutex is for: the counter read is still the counter when it is
\* written, as long as the row is the same and no stale save came between.
SnapInv ==
  raced \cap Undercounting = {} =>
    \A r \in Requests : RowIsSnap(r) => Effective(snap[r]) = Effective(policy)

IndInv == TypeOK /\ MutexInv /\ RowInv /\ SnapInv /\ SpendCovered

-----------------------------------------------------------------------------
(* Claims of docs and comments that the code does not meet.                *)

\* "The limit is enforced even under concurrent requests": no deduction takes
\* the day's charges over the limit, when a broadcast that reports failure did
\* fail.
CapAlways ==
  [][\A r \in Requests :
       pc[r] = "deducting" /\ charge'[r] # charge[r] /\ "lost_reply" \notin raced'
       => owed' <= snap[r].limit]_vars
=============================================================================
