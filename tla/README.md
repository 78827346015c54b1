# A TLA+ development for teenet-wallet

teenet-wallet is a wallet server: keys live in a TEE, agents ask for transfers and
contract calls with an API key, and their owner confirms with a passkey what a
policy does not let through. The server is one Go process over one SQLite database
(GORM); every HTTP request is a goroutine, and a few background loops share the
database and some process-wide mutexes with them.

This directory models the parts of the server where goroutines, database
statements, the clock, failures and crashes interact, checks them with TLC and
proves their main invariants with TLAPS.

## 1. Inventory

| Component | State | Operations | Where it is hard |
|---|---|---|---|
| Approvals (`handler/approval.go`) | `approval_requests.status`, `approvalMu` (a `sync.Map` of mutexes), the pending audit entry | create, Approve, Reject, GetApproval, `expireLoop`, `cleanupApprovalMu`, wallet deletion | load before lock, mutexes dropped under their holders, unlocked expiry, broadcast before status write, crash |
| USD policy and daily counter (`handler/wallet.go`) | one `approval_policies` row per wallet, `walletShards` | check-and-deduct, release, add, SetPolicy, `policy_change`, DeletePolicy | read-check-write, midnight between two steps, whole-row saves, roll-backs that fail |
| Idempotency (`handler/idempotency.go`) | `idempotency_records` with a unique index and a TTL | look-up, insert, hourly cleanup | nothing reserved between look-up and insert; expired records that still occupy the index |
| Transfer, WrapSOL, UnwrapSOL (`handler/wallet.go`) | none of their own | build, decide, sign, broadcast, answer | a broadcast that fails after delivery |
| Contract calls (`handler/contract_call.go`) | none of their own | decide, deduct, sign, broadcast | the deduction is never released |
| EVM nonces (`chain/addr_lock.go`, `chain/nonce.go`, `signAndBroadcast`) | `addrLocks`; the node's mempool | lock, fetch, sign, broadcast, bump, refresh | replacement of one's own transaction |
| SSE hub (`handler/sse_hub.go`, `handler/sse.go`) | subscriber channels | Subscribe, Unsubscribe, Stop, Broadcast | channel closed twice, full buffers |
| Registration and login (`handler/auth.go`, `handler/email_verification.go`) | verification rows, sessions | send, verify, consume, login | one code used twice, attempts counted concurrently |
| Sessions, API keys, limiters (`handler/middleware.go`, `handler/ratelimit.go`) | in-memory maps, key rows | validate, sweep, count-and-insert | limits checked before the insert |
| Wallet lifecycle (`handler/wallet.go`) | `wallets.status` | create, reap, rename, delete, delete account | reaper against late key generation |
| Whitelist, address book (`handler/contract.go`, `handler/addressbook.go`) | rows | direct edits by passkey, approvals by API key | entry gone when the approval comes |
| Prices (`handler/price.go`) | cached prices | look-ups, refresh | stale or missing prices |
| Audit log (`handler/audit.go`) | entries | write, resolve, list | entry not there yet when it is resolved |
| Faucet, balances, RPC, builders, ABI, plugin | little or none | | mostly encodings and network calls |

How they interact: Transfer, WrapSOL and UnwrapSOL look their key up
(Idempotency), load the policy and deduct (DailySpend), and either sign and
broadcast or create an approval (ApprovalLifecycle). Approve locks the approval,
then for EVM the address, deducts under the wallet's mutex, broadcasts, writes its
verdict, resolves the audit entry and sends the SSE event. SetPolicy and
`policy_change` approvals edit the row the counter lives in. Transfers, contract
calls and approvals of one EVM address queue for its lane and read their nonce
from the chain (NonceLane). Registration ends in a user row and a session;
sessions and API keys let requests in; DeleteAccount takes all of it away again
(Registration, Accounts).

`PROJECT.json` lists the components with their status and the hazards at their
lines.

## 2. Modules

| Module | What it is | Proofs |
|---|---|---|
| `ApprovalLifecycle` | one approval row under all goroutines that touch it | `ApprovalLifecycle_proofs` |
| `OneShotPermit` | what an approval promises: a permit for one use | |
| `ApprovalRefinement` | the mapping under which the first implements the second | `ApprovalRefinement_proofs` |
| `DailySpend` | the policy row and its counter | `DailySpend_proofs` |
| `Idempotency` | the response cache | `Idempotency_proofs` |
| `NonceLane` | EVM transactions of one address, from reading the nonce to the answer | `NonceLane_proofs` |
| `SSEHub` | the event hub, the streams and the shutdown | `SSEHub_proofs` |
| `Mailboxes` | what the hub promises: limited mailboxes, filled and read in order | |
| `HubRefinement` | the mapping under which the hub implements it | `SSEHub_proofs` |
| `RateLimiter` | the sliding-window limiters | `Registration_proofs` |
| `Registration` | mailed codes, passkey registration and login; extends `RateLimiter` | `Registration_proofs` |
| `Accounts` | sessions, CSRF, API keys, wallets with their TEE keys, account deletion | `Accounts_proofs` |
| `MC...` | instances for TLC: `MCApproval`, `MCDailySpend`, `MCIdempotency`, `MCNonce`, `MCSSEHub`, `MCRegistration`, `MCAccounts` | |

Common conventions. A database statement is one atomic step (SQLite serialises
them); whatever a handler does between two statements can interleave with others,
so a handler is a sequence of actions driven by `pc`. An operator whose name
contains an underscore, as `Recheck_NotReloaded`, is a variant with a plausible
bug; it stands next to the definition it spoils and is used only to show that the
properties notice. Variables marked *(history)* record what happened and guard
nothing.

### ApprovalLifecycle

`kind`, `status`, `due` and `creating` are the row; `audit`, `auditMissed` and
`notified` what the log and the subscribers were told; `mutexOf` is `approvalMu`,
`holder` who holds a mutex object. A mutex object is named after the request whose
`LoadOrStore` allocated it.

A request goes `Start` (passkey verified, row loaded), `LoadOrStore`, `Lock`,
`Recheck` (reload under the lock), then either `RejectWrite` or `ApproveExpiry`,
the work (`ApproveApply` for the types that edit a table; `ApproveBuild`,
`ApproveSign`, `ApproveBudget`, `ApproveBroadcast` for those that sign), the
status write (`ApproveCommit` or `ApproveFail`) and `Settle`, which resolves the
audit entry, sends the event and unlocks. GetApproval is `StartGet` and
`GetExpire`, without lock. `ExpireTick`, `CleanupVisit` and `CleanupDelete` are
the background loop; `DeleteWallet` removes the rows of a wallet; `Crash` ends all
requests and forgets all mutexes. `CleanupVisit` counts the pending rows of a key
and does not look at the query's error: a failed count leaves 0, and the mutex of
a pending approval is dropped. `dropped` *(history)* keeps these mutexes.

What is abstracted: the contents of an approval except its type. `kind` is the
type, as far as the code treats types differently: whether it signs or edits a
table, whether it goes with its wallet, and whether it is `Lenient`, that is,
takes an entry that exists already (`contract_add`, `addressbook_add`) or an
UPDATE that matches no row (`contract_update`) for success. Then, the passkey
check (a request that fails it has no effect), and the daily limit in the middle
of Approve, which is a choice here and the subject of DailySpend. The update of
the audit entry, which may be refused, and the event are one step, `Settle`: both
happen under the lock and nothing else reads them to decide. An approval without
transaction parameters, which is signed and not broadcast, takes the same path;
its effect is the stored signature.

`OneShotPermit` states the promise without any of that: a permit is issued,
claimed by one at a time and only while pending, used, and let go of settled;
deadlines and deletions settle it from outside. There are two ways to a second
use: a lost record (a refused write, a crash), and a copy of the permit, made
while it is pending. `ApprovalRefinement` maps a row that has left `pending` to a
settled permit, a request past its re-check to a claim, and a mutex dropped from a
pending approval to a copy.

### DailySpend

`policy` is the enabled-or-not row, or `None`; `day = 0` stands for a zero
`daily_reset_at` and `limit = 0` for an empty limit. `Enter` locks the wallet's
mutex and reads the row into `snap`; `DeductNothing`, `DeductExceeded`,
`DeductWrite`, `DeductFault`, `Release` and `Add` are the second halves of
`checkAndDeductDailyLimitUSD`, `releaseDailySpentUSD` and `addDailySpentUSD`. What
precedes `Enter` differs per caller (`LoadTransfer` for Transfer and WrapSOL,
`LoadApprove` for Approve, `LoadCall` and `LimitCall` for contract calls), as does
what follows. The callers take a failed look-up of the policy for "no policy"
(`Look`). An edit is `EditRead` and `EditSave`; between them SetPolicy waits for a
passkey verification. GORM's `default:true` on `enabled` makes every inserted row
enabled, whatever was asked for, and so does the model.

`owed` is the account the counter should keep: the amounts charged in the current
period that were not given back. `Crash` ends whatever is in flight: a request
that was sending may have its transaction out, and its charge stays. `raced`
collects what the counter is known not to survive:

* `stale_save`: an edit wrote back a counter that had changed since it was read;
* `midnight_release`: a deduction of an earlier day or row was released from the
  current counter;
* `unpaired_release`: a release for a deduction that was never written (the limit
  or the policy was gone when the counter was entered, or Approve went on after a
  refused write);
* `lost_reply`: a deduction released because the broadcast reported an error,
  although the node had taken the transaction;
* `phantom`: a deduction that nobody releases (failed contract calls, refused
  roll-backs), which only overcounts;
* `skipped`: a request that went on without a deduction: the row was gone, without
  its limit or unreadable, the database refused the counter (`wallet.go:1612`) or
  the approval's verdict, after which nothing is counted (`approval.go:599`), or a
  crash cut the counting off.

The passing properties say that nothing else can make the counter wrong.
`SpendExact` lets `skipped` happen: what was not charged does not disturb what
was.

Amounts are whole numbers; the code uses `big.Float` and stores six decimals. One
request is priced at the same amount whenever it is priced. The shards of
`walletShards` may be shared by several wallets, which can only add waiting.
Reading the clock and writing the row are one step.

### Idempotency

`rec` maps the unique index (key, user, wallet) to the request whose response is
stored; the record expires `TTL` after `at`. `Check`, then `Execute`, `Queue` or
`Fail`, then `Respond`. The code takes any error of the look-up for a miss;
`blind` *(history)* are the requests this happened to. `KeyOf[r] = None` stands
for a request without header and for `/contract-call`, which never looks at it
although `docs/en/transfers.md:117` lists it. A 202 (`Queue`) is not cached, so a
retry creates a second approval. `Cleanup` may run at any time, and stops partway
when a batch is refused.

### NonceLane

`lane` is the address lock, `approvalMu` and `spendMu` the two other lock
families; they are taken in the order approval, address, wallet. An operation goes
`Arrive`, `LockAddr`, `BuildETHTx` or `BuildETHContractCallTx` (nonce and fees
read from the chain), `Policy`, the deduction (`EnterSpend`, `LeaveDeduct`), then
`Sign` and `Send`, or `Queue` into an approval, which an approver later takes
through `ArriveApprove`, `LockApproval`, `Recheck`, `LockAddr` and `RebuildETHTx`.
Only a transfer retries: `BumpGas` when the node calls it underpriced,
`RefreshNonce` when the nonce is too low, at most `MaxAttempts` signatures.
"already known" is for the code a nonce that is too low (`tx_eth.go:415`), so that
the transaction is sent again under the next nonce; `echoes` *(history)* counts
the transactions that the node took and answered so. `Return` releases whatever
the request holds.

The node is external. Its pool has one slot per nonce; it accepts, refuses by its
two fee rules or by the nonce, is not reached, or takes the transaction and
answers "already known" (the POST was delivered twice) or not at all; it mines and
evicts. Reads fall back to a second node, which may not know what is in the first
one's pool (`FallbackSees`); the broadcast goes to the first only, and a lost
answer is not retried. `blind` marks a nonce that is not the pool's next one for
these reasons. Fees are small integers, and a bump is the code's percentage on
them. The amounts of the daily counter (DailySpend) and crashes
(ApprovalLifecycle) are left to the other modules.

### SSEHub

A channel is named by its connection; `buf` is its contents, `closes` how often it
was closed, `Buffer` its capacity (16 in the code, for all; the model allows a
different one for each, so that one instance has full and queueing channels).
Unsubscribe takes the channel's contents with it, and the model's record of what
was offered. `Subscribe` and `Unsubscribe` run under the write lock,
`BroadcastBegin`, `BroadcastSend` (one channel a step) and `BroadcastEnd` share
the read lock. A stream handler goes `Subscribe`, `Greet`, `Receive` in a loop,
`Disconnect`, `Unsubscribe`. `ClientGone` stands for a closed connection and for a
write that runs into its deadline. After `Signal` the server drains:
`ShutdownDone` when no request is left, which runs the deferred `Stop`, or
`ShutdownTimeout` after 30 seconds, which exits at once and runs no defers. A send
on a closed channel sets `panicked`.

`Mailboxes` states the promise without locks, channels and goroutines: the number
of mailboxes taken is limited per user and in all; a letter is due, once, at the
mailboxes of its user that are taken when it is posted; it is left out only where
the queue is full; letters are read in the order they were put, up to a point
where the reader is gone; and no mailbox closes while a letter is due at it.
`HubRefinement` maps the label of a stream handler to the state of its mailbox and
the channel's buffer to the queue.

### Registration and RateLimiter

`row` holds the rows of `email_verifications`, `pk` the passkeys as UMS knows
them. Each statement of SendCode (cooldown, sweep, insert) and of VerifyCode (read
and compare, then one of three updates) is a step. A verification id is looked up
by `RegistrationBegin`, and consumed in the transaction of `RegistrationCreate`,
after UMS has made the passkey (`RegistrationVerify`). `PasskeyVerify` and
`LoginCreate` are the login, which creates a local user for a passkey that has
none. UMS is external. Mail that cannot be sent rolls the insert back. Every
endpoint passes the IP limiter first, which is the module `RateLimiter`: a call of
`Allow` or `Exceeded` is one step under its mutex. Hashing of codes is the
comparison's outcome (`right`). Any query may fail. Nobody looks at the errors of
the two updates after a wrong code; `guesses` *(history)* leaves out the guesses
whose count was refused.

### Accounts

One user. A request authenticates by session (`AuthSession`, then `CSRFCheck` with
a second look at the store) or by API key (`AuthKey`), and goes on in one of the
handlers, a step per statement or SDK call. GET, HEAD and OPTIONS need no token;
such a request ends at a label of its own, `read`. The passkey check is
`LoadUser`, the user's row, then `FreshPasskey`, the call to UMS. A failed count
of wallets is 0 for the code; `uncounted` *(history)* counts the wallets let
through so. `named` are the wallets whose row has the real key name instead of the
temporary one, `tee` what became of the keys. `Reap` is the reaper, for a wallet
that has been "creating" long enough; `Crash` loses requests and sessions.
DeleteAccount deletes the TEE keys first (`PurgeKey`), then everything else in one
transaction that may fail (`DeleteRows`), then this session. Labels and audit
entries are left out.

## 3. Runs

| Run | Instance | Distinct states | Shows |
|---|---|---|---|
| `approval_safety` | 1 approval of any of 3 types (signing, lenient, strict edit), 3 requests, 1 failed statement or crash; requests symmetric | 1.86 M | `AtMostOnce`, `EffectExclusion`, `RejectedMeansUnsent`, `ReportsTruthful`, `SettledConsistently`, `VerdictStands`, and the refinement `ImplementsPermit` |
| `approval_liveness` | 1 approval of either of 2 types (signing, lenient), 2 requests, 1 failed statement or crash; no symmetry | 298 k | `DuePendingResolved`, `EveryRequestReturns`, and the inductive invariant |
| `approval_verdict_expires` | 2 requests, no faults | violation | GetApproval turns a verdict into `expired` |
| `daily_requests` | a transfer, an approval and a contract call, 2 days, 2 refused reads or writes or crashes | 757 k | `SpendCovered`, `SpendExact`, `SentIsCharged`, `CapRespected` |
| `daily_edits` | a transfer, an approval and an editor, 2 days, 2 rows, 1 refused read or write or crash | 1.65 M | `SpendExact` and `CapRespected` against edits and deletion, and the inductive invariant |
| `daily_stale_save` | the same, 1 day | violation | SetPolicy wipes a deduction |
| `idem_safety` | 3 requests with one key, 1 without, TTL 2, clock to 6, 1 refused statement, 1 crash | 1.51 M | `RetryReplays`, `StoredApart`, `ReplaysReal` |
| `idem_reuse` | 3 requests with one key, no faults | violation | a reused key executes twice |
| `nonce_lane` | a transfer, a contract call, 2 approvers, 3 nonces, 3 attempts, 2 tips, 1 eviction | 479 k | `PaidOnce`, `NonceFresh`, `NeverReplacesSibling`, `EveryRequestReturns` |
| `sse_hub` | 3 streams of one user with 2 places for a user and 3 in all, 2 events for that user and 1 for another, channels of 1, 2 and 2 | 853 k | `PanicFree`, `SlotsHeldByHandlers`, `Accounted`, `GoneIsReleased`, `BufferDrains`, and the refinement `ImplementsMailboxes` |
| `registration` | 2 requests at a time, 1 address, 2 codes, 2 passkeys, room for 1 user, 2 attempts, limit 4 per 2 ticks, clock to 2 | 3.5 M | `GuessesBounded`, `VidStable`, `CodeServesOnce`, `EmaillessExplained`, `WindowBound`, `CountExact` |
| `accounts` | 2 requests at a time, 1 session, 2 key rows and 2 wallet rows with a limit of 1 each, 1 failed count, 1 crash | 6.2 M | `LimitsHold`, `ReadyHasKey`, `NoGhostKeys`, `CSRFSound` |

Why the bounds suffice. Approvals do not interact except through the sweep, which
treats keys one by one; three requests allow a holder, a waiter and a newcomer
after the sweep, or two holders and a newcomer after a failed count; the types are
one of each way to be treated (signing, lenient, strict). Two days and three
requests allow a deduction before midnight, a reset by a second request and a
check by a third. A TTL of 2 with the clock at 6 allows three generations of
records. In a nonce lane, a direct sender, a queued one and two approvers of it
are the roles there are; the tips make the node refuse the first offer, and three
attempts allow a bump followed by a refresh. Of two events a channel of one drops
the second and a channel of two queues both, in an order that the refinement
checks. Two places for three streams of one user make the per-user limit refuse
the third; the limit in all is left to the theorem. The two liveness properties of
the run are stated for one stream of each capacity, since the streams are alike
otherwise. Two codes of one address let the second replace the first; two passkeys
compete for one code and one place; five requests in a window of four are one too
many. A limit of one with two rows is passed by the second insert. A fault and a
crash each meet every step where the code can meet them; the theorems cover any
number.

Deadlock is checked in the approval and idempotency runs. In the others requests,
days, nonces, rows or connections are finite, or the server shuts down, and the
system stops when they are used up.

Fairness. It is always weak, and only for steps of a running handler or loop.

* ApprovalLifecycle: `ExpireTick` and `Sweep`, because the loop runs on a ticker
  until shutdown, and every request's next step: its database, TEE and RPC calls
  have time-outs, and Go's mutexes hand over to waiters. None for `Start`,
  `Elapse`, `DeleteWallet`, faults or crashes.
* NonceLane: every request's next step, for the same reasons. Lock acquisition is
  fair because a Go mutex goes into starvation mode and serves its queue in order.
  None for arrivals or for anything the node does.
* SSEHub: a stream's and a broadcast's next step (a stream wakes up at least for
  its heartbeat) and the end of the shutdown, which has a deadline. None for
  clients: nothing makes one leave, so an open stream may make the shutdown run
  into its deadline.

## 4. What the runs found

* `approval_verdict_expires` (`approval.go:160`): GetApproval writes `expired`
  over a verdict. `VerdictStands` shows that the only other way to lose one is
  another verdict, after the approval's mutex was dropped on a failed count.
* `daily_stale_save` (`wallet.go:416`): a way past the daily limit. `CapRespected`
  and `SpendCovered` show what is left once it, midnight releases, unpaired
  releases and lost replies are set aside.
* `idem_reuse` (`idempotency.go:90`): between expiry and the hourly cleanup a
  reused key is not cached.

Met while modelling, without a run of their own; where a passing property makes an
exception for it, the exception is named.

* `cleanupApprovalMu` does not look at the error of its count (`approval.go:64`):
  when it fails on a pending approval, the mutex is dropped and a second Approve
  or Reject gets a new one, passes the re-check and acts beside the first
  (`dropped`).
* An approved `contract_add` or `addressbook_add` of an entry that exists already,
  or a `contract_update` of one that is gone, is reported as a success with
  nothing written (`approval.go:229`, `:260`, `:288`; `Lenient`).
* A refused update of an audit entry is only logged (`audit.go:135`), and the
  entry of a resolved approval stays pending (`auditMissed`).
* Any error of the idempotency look-up is a miss (`idempotency.go:65`): the
  request executes again although its answer is stored (`blind`).
* "already known" counts as "nonce too low" (`tx_eth.go:415`), so that a transfer
  the node took is sent again under the next nonce (`echoes`).
* A transaction that is out stays uncharged when the counter's write is refused
  (`wallet.go:1612`) or the verdict's (`approval.go:599`); both are `skipped`.
* `releaseDailySpentUSD` (`wallet.go:1570`) recognises a deduction of an earlier
  day only while nobody has reset the counter (`midnight_release`).
* Without a price only tokens fail closed (`wallet.go:943`); a native coin is sent
  directly under an API key, although `docs/en/howto-add-chain.md:15` says that
  all amounts then require approval.
* A failed contract call keeps its deduction (`contract_call.go:342`) although
  `docs/en/approvals.md:62` promises a roll-back (`phantom`).
* `SetPolicy` with `enabled: false` on a wallet without a policy creates an
  enabled one. An expired approval leaves its audit entry pending for good.
* A transfer answered with 202 is not cached (`wallet.go:949`): its retry queues a
  second approval.
* When the nonce is read from the fallback node, or a waiting transaction was
  evicted after the count, a transaction can take the nonce of another one and
  outbid it (`blind`). `addr_lock.go:20` says "two goroutines cannot pick the same
  nonce".
* Overlapping wrong guesses are counted once (`email_verification.go:227`), and
  overlapping right ones replace the id the first client was given (`:239`,
  against the comment at 195-199); both are `raced`. A guess is not counted either
  when its update is refused (`:227`), and the row goes on when the update that
  should end it is (`:222`); `guesses` leaves the former out. The comment at 221
  promises ErrNoPendingCode after too many attempts; the row stays and the next
  answer is ErrCodeExpired, and the cooldown no longer applies to it.
* A passkey that UMS registered while the local transaction failed can log in and
  gets a user without an address (`auth.go:223`; `orphans`).
* The limits on API keys (`auth.go:416`) and wallets are a count and a later
  insert (`overlap`); a failed count of wallets counts as none (`wallet.go:115`;
  `uncounted`); a wallet given up by the reaper no longer counts and may become
  ready later (`revived`).
* DeleteAccount deletes TEE keys before its transaction, which may fail
  (`auth.go:551`; `purged`); other sessions of the user survive it, and a key
  generation that has found the user's row (`approval.go:788`) goes on to UMS and
  inserts a key for the deleted user (`crossing`). A key whose address cannot be
  derived, or whose wallet was deleted during its creation, stays in the TEE.
* RevokeAPIKey reads its prefix from a body that the passkey check has consumed
  when it is not in the query.

## 5. Proofs

The theorems hold for all values of the constants that satisfy the assumption
named in each module (`ApprovalAssumption`, `DailySpendAssumption`,
`IdempotencyAssumption`, `NonceAssumption`, `HubAssumption`, `AccountsAssumption`,
`RegistrationAssumption`, `LimiterAssumption`), which TLC evaluates in every run.
They say that sets are what they look like: the kinds of approvals are known ones,
amounts and thresholds are positive, `TTL` and the buffers are positive, bounds
are naturals, different kinds of requests are different, and `None` is none of the
other values.

**ApprovalLifecycle.** `AtMostOnce` is not inductive: one must know who may still
act. `IndInv` adds `LockInv` (a request past `Lock` owns its mutex, and while the
approval is pending that mutex is the one in the map or a dropped one), `SweepInv`
(what the sweep is about to drop belongs to an approval that is no longer pending,
and none becomes pending again, or is put in `dropped`), `EffectInv` and
`VerdictInv` (a request that may still act finds the operation not carried out, up
to lost writes, and no verdict), and `ReportInv`. The heart is `Recheck`: two
requests can own different mutexes of one approval, but, as long as every count
succeeds, only once it has left `pending`, and then neither passes the re-check. A
mutex that was dropped on a failed count is the exception all of them make: who
holds it may act on a pending approval too, so that the bounds grow by one for
each mutex in `dropped`, and verdicts exclude work only where there is none.
`SettledConsistently` needs to know besides what a request is about to report, who
creates the audit entry, and what was reported (`ReporterInv`, `CreatorInv`,
`ReportedInv`). Theorems: `Invariance`, `TypeCorrect`, `EffectsAtMostOnce`,
`CriticalSection`, `RejectionWins`, `ReportsAreTruthful`, `VerdictsStand`,
`ReportsSettle`.

**ApprovalRefinement.** `ImplementsOneShotPermit`: under `IndInv` every step of
ApprovalLifecycle is a step of `OneShotPermit` or leaves it alone. `Recheck` is
`Claim`, the effect is `Use`, the verdict's write `Finish`, or `Forget` if it is
refused, a failed count `Copy`, the expiry loop and wallet deletion are `Settle`,
a crash is `Restart`.

**DailySpend.** `SpendCovered` needs `MutexInv` (who has a row in hand holds the
mutex), `RowInv` (no row is from the future, ids are not reused) and `SnapInv`
(the counter read is still the counter, while the row is the same and no stale
save came between). Midnight is harmless to `SnapInv` because both sides then
count as 0. `SentIsCharged` follows a request's charge from the deduction to its
answer (`ChargeInv`). `SpendExact` needs one thing more: `releaseDailySpentUSD`
stops at 0, so that a release takes its whole amount off only if the counter holds
it, which is a statement about the sum of all charges that stand. `ReceiptInv`
says it without a sum: the charges of the period can be laid side by side, like
receipts on a ruler of length `owed`, no two overlapping. A new charge goes to the
end; when one is taken up, those behind it move up. Theorems: `Invariance`,
`CounterCovers`, `LimitIsRespected`, `OutIsCounted`, `CounterIsExact`.

**Idempotency.** `StoredInv`: a stored answer is in the table until after it
expired; `StageInv`: a request answers once, at its end. Theorems: `Invariance`,
`RetriesReplay`, `StoredAnswersApart`, `SuccessIsReal`.

**NonceLane.** `LaneInv` (one request at a time between reading a nonce and its
return), `RoleInv`, `ApprovalInv` (an approver past the re-check has a pending
approval that only it settles) and `PaidInv` (while somebody may still send an
operation, the node took it only with "already known" for an answer). Freshness of
a nonce follows because only the holder of the lane adds to the pool, and mining
moves a transaction from the pool to a block without changing the count. Theorems:
`Invariance`, `NothingPaidTwice`, `NonceStaysFresh`, `SiblingsAreSafe`.

**SSEHub.** `HubInv`: registered channels and running handlers are the same
(`SlotInv`), only a finished handler has closed its channel (`CloseInv`), and a
broadcast holds the read lock while it has channels left, all of them registered
(`ReaderInv`). Stop then finds nothing to close. `FlowInv` follows the events:
what a stream has received and what waits in its buffer make one sequence without
repetition, and what a broadcast still has to offer is not in it yet; a broadcast
appends to it or drops, the handler moves the boundary. `HubIsMailboxes` is the
refinement: under `HubInv` every step is a step of `Mailboxes` or leaves it alone.
Subscribe is `Open`, because what the limits count are the taken mailboxes
(`TakenAreConnected`), finitely many (`FiniteInv`); BroadcastBegin is `Post`, a
send `Put`, Unsubscribe `Close`, which ends the queue and its history and which
the write lock keeps apart from sends. Theorems: `HubInvariance`,
`HubNeverPanics`, `SlotsNeverLeak`, `EventsAccountedFor`, `HubIsMailboxes`.

**Accounts.** `AccountInv`: a creation works on a row of its own whose key name
nobody can have read (`MakerInv`), a deletion of a key knows the name and its row
is gone (`DeleterInv`), nothing is left or on its way for a deleted account
(`GhostInv`), unless `crossing` says that some request had got as far as the
user's row before. `LimitInv`: between a count and its insert there is room for
one more, or for one more than that for each count that failed, and nobody else.
Theorems: `AccountInvariance`, `ReadyWalletsCanSign`, `HandlersSeeTheirToken`,
`NoKeyOutlivesTheAccount`, `LimitsAreKept`.

**Registration.** A row of which no two requests hold a copy at the same time
(`HoldInv` puts every other row in `raced`) behaves as if a verification were
atomic: its counter is exact, give or take the guess being counted and those whose
count was refused (`GuessInv`), and its id is made once (`VidInv`). A consumed row
stays deleted, which is why a code serves once (`MadeInv`). A passkey that can log
in has its user, is being registered, or is on record as an orphan (`SafeInv`), so
that a login creates users without an address for orphans only. The limiter's
steps leave all of this alone. Theorems: `RegInvariance`, `CodesResistGuessing`,
`VerificationIdsStay`, `CodesServeOnce`, `EmaillessUsersExplained`.

**RateLimiter** (in Registration_proofs). `LimiterInv`: the timestamps let through
are in order, the list kept for a key is an end of them, and what it no longer
holds is out of the window. A request let through therefore finds that the one
`Limit` requests before it is at least a window old. `SlideKeepsEnd` is what the
loop of `Allow` computes on ordered timestamps; the loop is a recursive function,
and instead of an induction the proof looks at the least place where it would
differ from the end of the list (`Least`, from the well-foundedness of `<`). What
it counts is thus exactly what it let through in the last window, so that it
refuses nobody it could let through. Theorems: `LimiterInvariance`,
`LimiterHolds`, `LimiterIsExact`.

Only model-checked: the liveness properties (the prover does not do fairness and
`ENABLED`). No module uses RECURSIVE operators, which the prover's SMT backend
does not get along with; the one loop over a list is a recursive function.

## 6. Not modelled

* Transaction, RLP and ABI encodings, Solana messages, addresses
  (`chain/tx_sol.go`, `chain/abi.go`, parts of `chain/tx_eth.go`): pure functions
  on bytes. Solana transfers have no nonce and no retry; their decisions are in
  DailySpend and Idempotency.
* The tables of whitelist and address book, wallet and key labels: one statement
  per operation, nothing depends on their order.
* The price cache: DailySpend lets every look-up find any kind of answer, so that
  a cache cannot add a behaviour.
* The faucet (test networks only), read-only endpoints, configuration and routes,
  the text of mails.
* The OpenClaw plugin: a client in another process. The models allow every order
  of requests and reconnects it could make. What it may rely on is `Accounted`: an
  event it was not sent was dropped at a full buffer, or was broadcast while it
  was not connected.

What could come next: the composition of Idempotency with approvals, if a 202 is
ever cached.
