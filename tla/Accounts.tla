------------------------------- MODULE Accounts -------------------------------
(***************************************************************************)
(* One user's account: the in-memory sessions and the authentication       *)
(* middlewares (handler/middleware.go), API keys, logout and account       *)
(* deletion (handler/auth.go), creation and deletion of wallets and their  *)
(* keys in the TEE, and the reaper (handler/wallet.go).  Every database    *)
(* statement outside a transaction and every call of the SDK is a step of  *)
(* its own; a crash loses the requests and the sessions, not the tables.   *)
(* The TEE key generated for a wallet is named by the wallet.  Labels and  *)
(* audit entries are left out.                                             *)
(***************************************************************************)
EXTENDS Naturals, FiniteSets

CONSTANTS
  Requests,    \* requests in progress at the same time
  Sessions,    \* session tokens; a session's CSRF token is named by it
  None,
  MaxWallets, MaxKeys,
  KeyRows,     \* bound: API keys ever inserted
  WalletRows,  \* bound: wallets ever inserted
  MaxFaults,   \* bound: counts of wallets that fail
  MaxCrashes   \* bound: restarts of the server

\* Rows are numbered in the order of their insertion.
Keys    == 1 .. KeyRows
Wallets == 1 .. WalletRows

ASSUME AccountsAssumption ==
  /\ {MaxWallets, MaxKeys, KeyRows, WalletRows, MaxFaults, MaxCrashes} \subseteq Nat
  /\ None \notin Sessions \cup Keys \cup Wallets
  /\ Sessions \cap Keys = {}

VARIABLES
  user,      \* the users row: "active" or "deleted"
  session,   \* sessions of the store
  apiKey,    \* api_keys rows
  wallet,    \* wallets rows
  named,     \* wallets whose row has the real key name
  tee,       \* what became of the key generated for a wallet
  pc,        \* where a request stands
  cred,      \* the session or API key it was authenticated with
  header,    \* the CSRF header it was let through with
  about,     \* the wallet it works on
  toPurge,   \* keys an account deletion still has to delete
  overlap,   \* a count and its insert ran across another's (history)
  uncounted, \* wallets let through because the count failed (history)
  revived,   \* a wallet given up became ready after all (history)
  purged,    \* wallets whose key an account deletion deleted (history)
  crossing,  \* a request had found the user's row, or was generating a key, when
             \* the account went (history)
  crashes

rowVars  == <<user, apiKey, wallet, named>>
reqVars  == <<pc, cred, header, about, toPurge>>
history  == <<overlap, uncounted, revived, purged, crossing>>
vars == <<rowVars, session, tee, reqVars, history, crashes>>

Exists(w) == wallet[w] \in {"creating", "ready", "error"}

TypeOK ==
  /\ user \in {"active", "deleted"}
  /\ session \in [Sessions -> {"none", "live", "ended"}]
  /\ apiKey \in [Keys -> {"none", "live", "deleted"}]
  /\ wallet \in [Wallets -> {"none", "creating", "ready", "error", "deleted"}]
  /\ named \subseteq Wallets /\ toPurge \in [Requests -> SUBSET Wallets]
  /\ tee \in [Wallets -> {"none", "live", "deleted"}]
  /\ pc \in [Requests -> {"idle", "csrf", "read", "handler", "passkey", "insert", "generate",
                          "final", "fail", "deleteRow", "deleteKey", "keyCount", "keyInsert",
                          "purge", "deleteUser", "endSession"}]
  /\ cred \in [Requests -> Sessions \cup Keys \cup {None}]
  /\ header \in [Requests -> Sessions \cup {None}]
  /\ about \in [Requests -> Wallets \cup {None}]
  /\ purged \subseteq Wallets
  /\ overlap \in BOOLEAN /\ revived \in BOOLEAN /\ crossing \in BOOLEAN
  /\ uncounted \in 0 .. MaxFaults /\ crashes \in 0 .. MaxCrashes

Init ==
  /\ user = "active"
  /\ session = [s \in Sessions |-> "none"]
  /\ apiKey = [k \in Keys |-> "none"]
  /\ wallet = [w \in Wallets |-> "none"]
  /\ tee = [w \in Wallets |-> "none"]
  /\ named = {} /\ purged = {}
  /\ pc = [r \in Requests |-> "idle"]
  /\ cred = [r \in Requests |-> None]
  /\ header = [r \in Requests |-> None]
  /\ about = [r \in Requests |-> None]
  /\ toPurge = [r \in Requests |-> {}]
  /\ overlap = FALSE /\ revived = FALSE /\ crossing = FALSE
  /\ uncounted = 0 /\ crashes = 0

Goto(r, label) == pc' = [pc EXCEPT ![r] = label]

\* The response is sent; the request's local variables are gone.
Answer(r) ==
  /\ Goto(r, "idle")
  /\ cred' = [cred EXCEPT ![r] = None]
  /\ header' = [header EXCEPT ![r] = None]
  /\ about' = [about EXCEPT ![r] = None]
  /\ toPurge' = [toPurge EXCEPT ![r] = {}]

-----------------------------------------------------------------------------
(* Sessions and authentication.                                            *)

\* A login puts a new token into the store (module Registration).
SetSession(s) ==
  /\ user = "active" /\ session[s] = "none"
  /\ session' = [session EXCEPT ![s] = "live"]
  /\ UNCHANGED <<rowVars, tee, reqVars, history, crashes>>

\* 24 hours pass: Get and GetCSRF no longer return it, cleanup removes it.
Expire(s) ==
  /\ session[s] = "live"
  /\ session' = [session EXCEPT ![s] = "ended"]
  /\ UNCHANGED <<rowVars, tee, reqVars, history, crashes>>

\* AuthMiddleware, session branch: SessionStore.Get.
AuthSession(r, s) ==
  /\ pc[r] = "idle" /\ session[s] = "live"
  /\ cred' = [cred EXCEPT ![r] = s]
  /\ Goto(r, "csrf")
  /\ UNCHANGED <<header, about, toPurge, rowVars, session, tee, history, crashes>>

\* SessionStore.GetCSRF: empty once the session has ended.
GetCSRF(s) == IF session[s] = "live" THEN s ELSE None

\* Two empty strings compare equal.
Matches_EmptyToo(h, s) == h = GetCSRF(s)

\* CSRFMiddleware: the header is there and equals the token.
Matches(h, s) == h # None /\ h = GetCSRF(s)

\* The methods that are not checked; their routes lead to other handlers.
Exempt(method) == method \in {"GET", "HEAD", "OPTIONS"}

\* The token is read in a second look at the store; the header is the right
\* token, another one, or missing.
CSRFCheck(r, method, h) ==
  /\ pc[r] = "csrf"
  /\ \/ /\ Exempt(method)
        /\ Goto(r, "read") /\ UNCHANGED <<cred, header, about, toPurge>>
     \/ /\ ~Exempt(method) /\ Matches(h, cred[r])
        /\ Goto(r, "handler") /\ header' = [header EXCEPT ![r] = h]
        /\ UNCHANGED <<cred, about, toPurge>>
     \/ ~Exempt(method) /\ ~Matches(h, cred[r]) /\ Answer(r)
  /\ UNCHANGED <<rowVars, session, tee, history, crashes>>

\* AuthMiddleware, API key branch; no CSRF check, no look at the users table.
AuthKey(r, k) ==
  /\ pc[r] = "idle" /\ apiKey[k] = "live"
  /\ cred' = [cred EXCEPT ![r] = k]
  /\ Goto(r, "handler")
  /\ UNCHANGED <<header, about, toPurge, rowVars, session, tee, history, crashes>>

\* PasskeyOnlyMiddleware.
PasskeyOnly(r) == pc[r] = "handler" /\ cred[r] \in Sessions

\* The session is believed.
LoadUser_Session(r) ==
  /\ PasskeyOnly(r)
  /\ Goto(r, "passkey")
  /\ UNCHANGED <<cred, header, about, toPurge, rowVars, session, tee, history, crashes>>

\* verifyFreshPasskey: the user's row is read for its passkey.
LoadUser(r) ==
  /\ PasskeyOnly(r) /\ user = "active"
  /\ Goto(r, "passkey")
  /\ UNCHANGED <<cred, header, about, toPurge, rowVars, session, tee, history, crashes>>

\* Then UMS verifies that passkey.  It may still know the passkey of an account
\* that is gone: it is told last, and the call may fail.
FreshPasskey(r) == pc[r] = "passkey"

Logout(r) ==
  /\ PasskeyOnly(r)
  /\ session' = [session EXCEPT ![cred[r]] = "ended"]
  /\ Answer(r)
  /\ UNCHANGED <<rowVars, tee, history, crashes>>

\* A GET is answered; or a handler or UMS refuses the request, or the next query
\* or insert fails: nothing is written.
Refused(r) ==
  /\ pc[r] \in {"read", "handler", "passkey", "keyCount", "keyInsert", "insert"}
  /\ Answer(r)
  /\ UNCHANGED <<rowVars, session, tee, history, crashes>>

-----------------------------------------------------------------------------
(* API keys.                                                               *)

KeyCount == Cardinality({k \in Keys : apiKey[k] = "live"})

GenerateAPIKey(r) ==
  /\ FreshPasskey(r)
  /\ Goto(r, "keyCount")
  /\ UNCHANGED <<cred, header, about, toPurge, rowVars, session, tee, history, crashes>>

CountAPIKeys(r) ==
  /\ pc[r] = "keyCount"
  /\ IF KeyCount >= MaxKeys
     THEN Answer(r) /\ UNCHANGED overlap
     ELSE /\ Goto(r, "keyInsert")
          /\ overlap' = (overlap \/ \E q \in Requests : pc[q] = "keyInsert")
          /\ UNCHANGED <<cred, header, about, toPurge>>
  /\ UNCHANGED <<rowVars, session, tee, uncounted, revived, purged, crossing, crashes>>

InsertAPIKey(r, k) ==
  /\ pc[r] = "keyInsert"
  /\ apiKey[k] = "none" /\ \A j \in Keys : j < k => apiKey[j] # "none"
  /\ apiKey' = [apiKey EXCEPT ![k] = "live"]
  /\ Answer(r)
  /\ UNCHANGED <<user, wallet, named, session, tee, history, crashes>>

RevokeAPIKey(r, k) ==
  /\ FreshPasskey(r) /\ apiKey[k] = "live"
  /\ apiKey' = [apiKey EXCEPT ![k] = "deleted"]
  /\ Answer(r)
  /\ UNCHANGED <<user, wallet, named, session, tee, history, crashes>>

-----------------------------------------------------------------------------
(* Wallets.                                                                *)

\* Wallets in "error" do not count.
WalletCount == Cardinality({w \in Wallets : wallet[w] \in {"creating", "ready"}})

\* The limit that counts finished wallets only.
WalletRoom_ReadyOnly == Cardinality({w \in Wallets : wallet[w] = "ready"}) < MaxWallets

WalletRoom == WalletCount < MaxWallets

\* Nobody looks whether the count succeeded: one that fails stays 0.
CountWallets(r) ==
  /\ pc[r] = "handler"
  /\ \/ WalletRoom /\ UNCHANGED uncounted
     \/ 0 < MaxWallets /\ uncounted < MaxFaults /\ uncounted' = uncounted + 1
  /\ Goto(r, "insert")
  /\ overlap' = (overlap \/ \E q \in Requests : pc[q] = "insert")
  /\ UNCHANGED <<cred, header, about, toPurge, rowVars, session, tee, revived, purged, crossing,
                 crashes>>

\* The row is inserted as "creating", under a temporary key name.
InsertWallet(r, w) ==
  /\ pc[r] = "insert"
  /\ wallet[w] = "none" /\ \A v \in Wallets : v < w => wallet[v] # "none"
  /\ wallet' = [wallet EXCEPT ![w] = "creating"]
  /\ about' = [about EXCEPT ![r] = w]
  /\ Goto(r, "generate")
  /\ UNCHANGED <<cred, header, toPurge, user, apiKey, named, session, tee, history, crashes>>

\* GenerateKey and DeriveAddress: no key; a key; a key without an address.
GenerateKey(r) ==
  /\ pc[r] = "generate"
  /\ \/ Goto(r, "fail") /\ UNCHANGED tee
     \/ /\ tee' = [tee EXCEPT ![about[r]] = "live"]
        /\ \E label \in {"final", "fail"} : Goto(r, label)
  /\ UNCHANGED <<cred, header, about, toPurge, rowVars, session, history, crashes>>

\* The final update finds the row whatever its status is by now, or not at all,
\* which is no error either; or the database fails.
FinishWallet(r) ==
  /\ pc[r] = "final"
  /\ \/ /\ Exists(about[r])
        /\ wallet' = [wallet EXCEPT ![about[r]] = "ready"]
        /\ named' = named \cup {about[r]}
        /\ revived' = (revived \/ wallet[about[r]] = "error")
     \/ UNCHANGED <<wallet, named, revived>>
  /\ Answer(r)
  /\ UNCHANGED <<user, apiKey, session, tee, overlap, uncounted, purged, crossing, crashes>>

\* The wallet is given up, if it is still there and the update is written.
FailWallet(r) ==
  /\ pc[r] = "fail"
  /\ \/ Exists(about[r]) /\ wallet' = [wallet EXCEPT ![about[r]] = "error"]
     \/ UNCHANGED wallet
  /\ Answer(r)
  /\ UNCHANGED <<user, apiKey, named, session, tee, history, crashes>>

\* StartReaper's ticker, for a wallet that has been "creating" for long.
Reap(w) ==
  /\ wallet[w] = "creating"
  /\ wallet' = [wallet EXCEPT ![w] = "error"]
  /\ UNCHANGED <<user, apiKey, named, session, tee, reqVars, history, crashes>>

\* DeletePublicKey, best effort; a temporary name is nobody's key.
DeleteTEEKey(w, known) ==
  \E done \in BOOLEAN :
    tee' = IF done /\ known /\ tee[w] = "live" THEN [tee EXCEPT ![w] = "deleted"] ELSE tee

\* The key goes first.
DeleteWallet_KeyFirst(r, w) ==
  /\ FreshPasskey(r) /\ Exists(w)
  /\ about' = [about EXCEPT ![r] = w]
  /\ toPurge' = [toPurge EXCEPT ![r] = {w} \cap named]
  /\ DeleteTEEKey(w, w \in named)
  /\ Goto(r, "deleteRow")
  /\ UNCHANGED <<cred, header, rowVars, session, history, crashes>>

\* DeleteWallet loads the row, with the key name it has now.
DeleteWallet(r, w) ==
  /\ FreshPasskey(r) /\ Exists(w)
  /\ about' = [about EXCEPT ![r] = w]
  /\ toPurge' = [toPurge EXCEPT ![r] = {w} \cap named]
  /\ Goto(r, "deleteRow")
  /\ UNCHANGED <<cred, header, rowVars, session, tee, history, crashes>>

DeleteWalletRow(r) ==
  /\ pc[r] = "deleteRow"
  /\ \/ /\ wallet' = [wallet EXCEPT ![about[r]] = "deleted"]
        /\ Goto(r, "deleteKey")
        /\ UNCHANGED <<cred, header, about, toPurge>>
     \/ Answer(r) /\ UNCHANGED wallet
  /\ UNCHANGED <<user, apiKey, named, session, tee, history, crashes>>

DeleteWalletKey(r) ==
  /\ pc[r] = "deleteKey"
  /\ DeleteTEEKey(about[r], about[r] \in toPurge[r])
  /\ Answer(r)
  /\ UNCHANGED <<rowVars, session, history, crashes>>

-----------------------------------------------------------------------------
(* Account deletion.                                                       *)

DeleteAccount(r) ==
  /\ FreshPasskey(r)
  /\ toPurge' = [toPurge EXCEPT ![r] = {w \in Wallets : Exists(w) /\ w \in named}]
  /\ Goto(r, "purge")
  /\ UNCHANGED <<cred, header, about, rowVars, session, tee, history, crashes>>

PurgeKey(r, w) ==
  /\ pc[r] = "purge" /\ w \in toPurge[r]
  /\ toPurge' = [toPurge EXCEPT ![r] = @ \ {w}]
  /\ DeleteTEEKey(w, TRUE)
  /\ purged' = purged \cup {w}
  /\ UNCHANGED <<pc, cred, header, about, rowVars, session, overlap, uncounted, revived,
                 crossing, crashes>>

\* The keys are gone; the user is loaded again, or cannot be.
PurgeDone(r) ==
  /\ pc[r] = "purge" /\ toPurge[r] = {}
  /\ \/ /\ user = "active"
        /\ Goto(r, "deleteUser") /\ UNCHANGED <<cred, header, about, toPurge>>
     \/ Answer(r)
  /\ UNCHANGED <<rowVars, session, tee, history, crashes>>

\* The transaction deletes everything of the user, or nothing.
DeleteRows(r) ==
  /\ pc[r] = "deleteUser"
  /\ \/ /\ user' = "deleted"
        /\ wallet' = [w \in Wallets |-> IF Exists(w) THEN "deleted" ELSE wallet[w]]
        /\ apiKey' = [k \in Keys |-> IF apiKey[k] = "live" THEN "deleted" ELSE apiKey[k]]
        /\ crossing' = (crossing \/ \E q \in Requests :
                                      pc[q] \in {"passkey", "keyCount", "keyInsert"})
        /\ Goto(r, "endSession")
        /\ UNCHANGED <<cred, header, about, toPurge>>
     \/ Answer(r) /\ UNCHANGED <<user, wallet, apiKey, crossing>>
  /\ UNCHANGED <<named, session, tee, overlap, uncounted, revived, purged, crashes>>

\* The passkey of UMS (module Registration), then this session only.
EndSession(r) ==
  /\ pc[r] = "endSession"
  /\ session' = [session EXCEPT ![cred[r]] = "ended"]
  /\ Answer(r)
  /\ UNCHANGED <<rowVars, tee, history, crashes>>

\* Requests and sessions are in memory only.
Crash ==
  /\ crashes < MaxCrashes
  /\ crashes' = crashes + 1
  /\ pc' = [r \in Requests |-> "idle"]
  /\ cred' = [r \in Requests |-> None]
  /\ header' = [r \in Requests |-> None]
  /\ about' = [r \in Requests |-> None]
  /\ toPurge' = [r \in Requests |-> {}]
  /\ session' = [s \in Sessions |-> IF session[s] = "live" THEN "ended" ELSE session[s]]
  /\ UNCHANGED <<rowVars, tee, history>>

-----------------------------------------------------------------------------
\* Of the exempt methods and the others, one each.
Methods == {"GET", "POST"}

Handler(r) ==
  \/ Refused(r) \/ Logout(r) \/ LoadUser(r) \/ GenerateAPIKey(r) \/ CountAPIKeys(r)
  \/ CountWallets(r) \/ GenerateKey(r) \/ FinishWallet(r) \/ FailWallet(r)
  \/ DeleteWalletRow(r) \/ DeleteWalletKey(r)
  \/ DeleteAccount(r) \/ PurgeDone(r) \/ DeleteRows(r) \/ EndSession(r)
  \/ \E k \in Keys : InsertAPIKey(r, k) \/ RevokeAPIKey(r, k)
  \/ \E w \in Wallets : InsertWallet(r, w) \/ DeleteWallet(r, w) \/ PurgeKey(r, w)

Next ==
  \/ \E s \in Sessions : SetSession(s) \/ Expire(s)
  \/ \E r \in Requests :
       \/ \E s \in Sessions : AuthSession(r, s)
       \/ \E method \in Methods, h \in Sessions \cup {None} : CSRFCheck(r, method, h)
       \/ \E k \in Keys : AuthKey(r, k)
       \/ Handler(r)
  \/ \E w \in Wallets : Reap(w)
  \/ Crash

Spec == Init /\ [][Next]_vars

-----------------------------------------------------------------------------
(* Properties.                                                             *)

\* A user has no more wallets and API keys than allowed, and one wallet more for
\* every count of wallets that failed (the handler does not look), unless a
\* count and its insert ran across another request's, or a wallet that had been
\* given up as failed, and no longer counted, became ready after all.
LimitsHold ==
  \/ overlap
  \/ KeyCount <= MaxKeys /\ (revived \/ WalletCount <= MaxWallets + uncounted)

\* A wallet that is offered for use has its key in the TEE, through creations,
\* reaping, crashes and failed deletions; only a deletion of the whole account
\* takes keys first.
ReadyHasKey == \A w \in Wallets : wallet[w] = "ready" => tee[w] = "live" \/ w \in purged

\* No API key works for an account that is gone, unless a request had found the
\* user's row, or had passed the passkey check, when the account was deleted:
\* neither UMS nor the insert looks at the users table again.
NoGhostKeys == user = "deleted" /\ KeyCount > 0 => crossing

\* A request of a session gets to a handler that writes only with that session's
\* CSRF token, even when the session ends between the two looks at the store.
\* (GET, HEAD and OPTIONS need none; their routes read, but for the approval that
\* GetApproval may find expired, see ApprovalLifecycle.)
CSRFSound ==
  \A r \in Requests :
    cred[r] \in Sessions /\ pc[r] \notin {"idle", "csrf", "read"} => header[r] = cred[r]
=============================================================================
