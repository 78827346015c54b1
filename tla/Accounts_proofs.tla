---------------------------- MODULE Accounts_proofs ----------------------------
(***************************************************************************)
(* TEE keys, API keys and CSRF tokens of one account, for any number of    *)
(* requests, sessions, wallets and keys.                                   *)
(*                                                                         *)
(* That a ready wallet has its key rests on who can delete a key: only a   *)
(* deletion that read the real key name, and the name is not in the row    *)
(* before the wallet is ready (MakerInv); a deletion of the wallet has     *)
(* deleted the row by then, and rows do not come back (DeleterInv).        *)
(***************************************************************************)
EXTENDS Accounts, FiniteSetTheorems, TLAPS

USE DEF rowVars, reqVars, history, Goto

\* A request creating a wallet works on a row of its own, whose key name nobody
\* has read.
Making == {"generate", "final", "fail"}

MakerInv ==
  /\ \A r \in Requests : pc[r] \in Making =>
       about[r] \in Wallets /\ about[r] \notin named /\ wallet[about[r]] # "none"
  /\ \A r \in Requests : pc[r] = "final" => tee[about[r]] = "live"
  /\ \A r, q \in Requests :
       pc[r] \in Making /\ pc[q] \in Making /\ about[r] = about[q] => r = q

\* A request deleting a key knows its real name, and the row is gone.
DeleterInv ==
  /\ \A r \in Requests : pc[r] = "deleteRow" => about[r] \in Wallets
  /\ \A r \in Requests : pc[r] = "deleteKey" =>
       about[r] \in Wallets /\ wallet[about[r]] = "deleted"
  /\ \A r \in Requests : toPurge[r] \subseteq named
  /\ \A w \in named : wallet[w] # "none"

\* No key is left, and none is on its way, for an account that is gone.
GhostInv ==
  user = "deleted" /\ ~crossing =>
    /\ \A k \in Keys : apiKey[k] # "live"
    /\ \A r \in Requests : pc[r] \notin {"passkey", "keyCount", "keyInsert"}

AccountInv ==
  TypeOK /\ CSRFSound /\ GhostInv /\ MakerInv /\ DeleterInv /\ ReadyHasKey

-----------------------------------------------------------------------------
(* One lemma per action.                                                   *)

\* A new session.
LEMMA SetSessionPreserves ==
  ASSUME AccountInv, NEW s \in Sessions, SetSession(s)
  PROVE  AccountInv'
<1>1. TypeOK'
  BY AccountsAssumption DEF AccountInv, TypeOK, SetSession
<1>2. CSRFSound'
  BY AccountsAssumption DEF AccountInv, TypeOK, CSRFSound, SetSession
<1>3. GhostInv'
  BY AccountsAssumption DEF AccountInv, TypeOK, GhostInv, SetSession
<1>4. MakerInv'
  BY AccountsAssumption DEF AccountInv, TypeOK, Making, MakerInv, DeleterInv, SetSession
<1>5. DeleterInv'
  BY AccountsAssumption DEF AccountInv, TypeOK, Making, MakerInv, DeleterInv, SetSession
<1>6. ReadyHasKey'
  BY AccountsAssumption
  DEF AccountInv, TypeOK, Making, MakerInv, DeleterInv, ReadyHasKey, SetSession
<1> QED
  BY <1>1, <1>2, <1>3, <1>4, <1>5, <1>6 DEF AccountInv

\* A session ends under the requests it let in.
LEMMA ExpirePreserves ==
  ASSUME AccountInv, NEW s \in Sessions, Expire(s)
  PROVE  AccountInv'
<1>1. TypeOK'
  BY AccountsAssumption DEF AccountInv, TypeOK, Expire
<1>2. CSRFSound'
  BY AccountsAssumption DEF AccountInv, TypeOK, CSRFSound, Expire
<1>3. GhostInv'
  BY AccountsAssumption DEF AccountInv, TypeOK, GhostInv, Expire
<1>4. MakerInv'
  BY AccountsAssumption DEF AccountInv, TypeOK, Making, MakerInv, DeleterInv, Expire
<1>5. DeleterInv'
  BY AccountsAssumption DEF AccountInv, TypeOK, Making, MakerInv, DeleterInv, Expire
<1>6. ReadyHasKey'
  BY AccountsAssumption DEF AccountInv, TypeOK, Making, MakerInv, DeleterInv, ReadyHasKey, Expire
<1> QED
  BY <1>1, <1>2, <1>3, <1>4, <1>5, <1>6 DEF AccountInv

\* A request with a session is not past the CSRF check.
LEMMA AuthSessionPreserves ==
  ASSUME AccountInv, NEW r \in Requests, NEW s \in Sessions, AuthSession(r, s)
  PROVE  AccountInv'
<1>1. TypeOK'
  BY AccountsAssumption DEF AccountInv, TypeOK, AuthSession
<1>2. CSRFSound'
  BY AccountsAssumption DEF AccountInv, TypeOK, CSRFSound, AuthSession
<1>3. GhostInv'
  BY AccountsAssumption DEF AccountInv, TypeOK, GhostInv, AuthSession
<1>4. MakerInv'
  BY AccountsAssumption DEF AccountInv, TypeOK, Making, MakerInv, DeleterInv, AuthSession
<1>5. DeleterInv'
  BY AccountsAssumption DEF AccountInv, TypeOK, Making, MakerInv, DeleterInv, AuthSession
<1>6. ReadyHasKey'
  BY AccountsAssumption
  DEF AccountInv, TypeOK, Making, MakerInv, DeleterInv, ReadyHasKey, AuthSession
<1> QED
  BY <1>1, <1>2, <1>3, <1>4, <1>5, <1>6 DEF AccountInv

\* The header equals the token, which is the session's own or nothing.
LEMMA CSRFCheckPreserves ==
  ASSUME AccountInv, NEW r \in Requests, NEW method \in Methods,
         NEW h \in Sessions \cup {None}, CSRFCheck(r, method, h)
  PROVE  AccountInv'
<1>1. TypeOK'
  BY AccountsAssumption DEF AccountInv, TypeOK, CSRFCheck, Matches, GetCSRF, Answer
<1>2. CSRFSound'
  BY AccountsAssumption DEF AccountInv, TypeOK, CSRFSound, CSRFCheck, Matches, GetCSRF, Answer
<1>3. GhostInv'
  BY AccountsAssumption DEF AccountInv, TypeOK, GhostInv, CSRFCheck, Matches, GetCSRF, Answer
<1>4. MakerInv'
  BY AccountsAssumption
  DEF AccountInv, TypeOK, Making, MakerInv, DeleterInv, CSRFCheck, Matches, GetCSRF, Answer
<1>5. DeleterInv'
  BY AccountsAssumption
  DEF AccountInv, TypeOK, Making, MakerInv, DeleterInv, CSRFCheck, Matches, GetCSRF, Answer
<1>6. ReadyHasKey'
  BY AccountsAssumption
  DEF AccountInv, TypeOK, Making, MakerInv, DeleterInv, ReadyHasKey, CSRFCheck, Matches,
      GetCSRF, Answer
<1> QED
  BY <1>1, <1>2, <1>3, <1>4, <1>5, <1>6 DEF AccountInv

\* An API key is no session.
LEMMA AuthKeyPreserves ==
  ASSUME AccountInv, NEW r \in Requests, NEW k \in Keys, AuthKey(r, k)
  PROVE  AccountInv'
<1>1. TypeOK'
  BY AccountsAssumption DEF AccountInv, TypeOK, AuthKey
<1>2. CSRFSound'
  BY AccountsAssumption DEF AccountInv, TypeOK, CSRFSound, AuthKey
<1>3. GhostInv'
  BY AccountsAssumption DEF AccountInv, TypeOK, GhostInv, AuthKey
<1>4. MakerInv'
  BY AccountsAssumption DEF AccountInv, TypeOK, Making, MakerInv, DeleterInv, AuthKey
<1>5. DeleterInv'
  BY AccountsAssumption DEF AccountInv, TypeOK, Making, MakerInv, DeleterInv, AuthKey
<1>6. ReadyHasKey'
  BY AccountsAssumption DEF AccountInv, TypeOK, Making, MakerInv, DeleterInv, ReadyHasKey, AuthKey
<1> QED
  BY <1>1, <1>2, <1>3, <1>4, <1>5, <1>6 DEF AccountInv

\* One session ends.
LEMMA LogoutPreserves ==
  ASSUME AccountInv, NEW r \in Requests, Logout(r)
  PROVE  AccountInv'
<1>1. TypeOK'
  BY AccountsAssumption DEF AccountInv, TypeOK, Logout, PasskeyOnly, Answer
<1>2. CSRFSound'
  BY AccountsAssumption DEF AccountInv, TypeOK, CSRFSound, Logout, PasskeyOnly, Answer
<1>3. GhostInv'
  BY AccountsAssumption DEF AccountInv, TypeOK, GhostInv, Logout, PasskeyOnly, Answer
<1>4. MakerInv'
  BY AccountsAssumption
  DEF AccountInv, TypeOK, Making, MakerInv, DeleterInv, Logout, PasskeyOnly, Answer
<1>5. DeleterInv'
  BY AccountsAssumption
  DEF AccountInv, TypeOK, Making, MakerInv, DeleterInv, Logout, PasskeyOnly, Answer
<1>6. ReadyHasKey'
  BY AccountsAssumption
  DEF AccountInv, TypeOK, Making, MakerInv, DeleterInv, ReadyHasKey, Logout, PasskeyOnly, Answer
<1> QED
  BY <1>1, <1>2, <1>3, <1>4, <1>5, <1>6 DEF AccountInv

\* Nothing is written.
LEMMA RefusedPreserves ==
  ASSUME AccountInv, NEW r \in Requests, Refused(r)
  PROVE  AccountInv'
<1>1. TypeOK'
  BY AccountsAssumption DEF AccountInv, TypeOK, Refused, Answer
<1>2. CSRFSound'
  BY AccountsAssumption DEF AccountInv, TypeOK, CSRFSound, Refused, Answer
<1>3. GhostInv'
  BY AccountsAssumption DEF AccountInv, TypeOK, GhostInv, Refused, Answer
<1>4. MakerInv'
  BY AccountsAssumption DEF AccountInv, TypeOK, Making, MakerInv, DeleterInv, Refused, Answer
<1>5. DeleterInv'
  BY AccountsAssumption DEF AccountInv, TypeOK, Making, MakerInv, DeleterInv, Refused, Answer
<1>6. ReadyHasKey'
  BY AccountsAssumption
  DEF AccountInv, TypeOK, Making, MakerInv, DeleterInv, ReadyHasKey, Refused, Answer
<1> QED
  BY <1>1, <1>2, <1>3, <1>4, <1>5, <1>6 DEF AccountInv

\* The account is there.
LEMMA LoadUserPreserves ==
  ASSUME AccountInv, NEW r \in Requests, LoadUser(r)
  PROVE  AccountInv'
<1>1. TypeOK'
  BY AccountsAssumption DEF AccountInv, TypeOK, LoadUser, PasskeyOnly
<1>2. CSRFSound'
  BY AccountsAssumption
  DEF AccountInv, TypeOK, CSRFSound, LoadUser, PasskeyOnly
<1>3. GhostInv'
  BY AccountsAssumption
  DEF AccountInv, TypeOK, GhostInv, LoadUser, PasskeyOnly
<1>4. MakerInv'
  BY AccountsAssumption
  DEF AccountInv, TypeOK, Making, MakerInv, DeleterInv, LoadUser, PasskeyOnly
<1>5. DeleterInv'
  BY AccountsAssumption
  DEF AccountInv, TypeOK, Making, MakerInv, DeleterInv, LoadUser, PasskeyOnly
<1>6. ReadyHasKey'
  BY AccountsAssumption
  DEF AccountInv, TypeOK, Making, MakerInv, DeleterInv, ReadyHasKey, LoadUser,
      PasskeyOnly
<1> QED
  BY <1>1, <1>2, <1>3, <1>4, <1>5, <1>6 DEF AccountInv

\* Whoever may generate a key had found the account.
LEMMA GenerateAPIKeyPreserves ==
  ASSUME AccountInv, NEW r \in Requests, GenerateAPIKey(r)
  PROVE  AccountInv'
<1>1. TypeOK'
  BY AccountsAssumption DEF AccountInv, TypeOK, GenerateAPIKey, FreshPasskey
<1>2. CSRFSound'
  BY AccountsAssumption
  DEF AccountInv, TypeOK, CSRFSound, GenerateAPIKey, FreshPasskey
<1>3. GhostInv'
  BY AccountsAssumption
  DEF AccountInv, TypeOK, GhostInv, GenerateAPIKey, FreshPasskey
<1>4. MakerInv'
  BY AccountsAssumption
  DEF AccountInv, TypeOK, Making, MakerInv, DeleterInv, GenerateAPIKey, FreshPasskey
<1>5. DeleterInv'
  BY AccountsAssumption
  DEF AccountInv, TypeOK, Making, MakerInv, DeleterInv, GenerateAPIKey, FreshPasskey
<1>6. ReadyHasKey'
  BY AccountsAssumption
  DEF AccountInv, TypeOK, Making, MakerInv, DeleterInv, ReadyHasKey, GenerateAPIKey,
      FreshPasskey
<1> QED
  BY <1>1, <1>2, <1>3, <1>4, <1>5, <1>6 DEF AccountInv

\* A generation goes on only if it was under way.
LEMMA CountAPIKeysPreserves ==
  ASSUME AccountInv, NEW r \in Requests, CountAPIKeys(r)
  PROVE  AccountInv'
<1>1. TypeOK'
  BY AccountsAssumption DEF AccountInv, TypeOK, CountAPIKeys, Answer
<1>2. CSRFSound'
  BY AccountsAssumption DEF AccountInv, TypeOK, CSRFSound, CountAPIKeys, Answer
<1>3. GhostInv'
  BY AccountsAssumption DEF AccountInv, TypeOK, GhostInv, CountAPIKeys, Answer
<1>4. MakerInv'
  BY AccountsAssumption DEF AccountInv, TypeOK, Making, MakerInv, DeleterInv, CountAPIKeys, Answer
<1>5. DeleterInv'
  BY AccountsAssumption DEF AccountInv, TypeOK, Making, MakerInv, DeleterInv, CountAPIKeys, Answer
<1>6. ReadyHasKey'
  BY AccountsAssumption
  DEF AccountInv, TypeOK, Making, MakerInv, DeleterInv, ReadyHasKey, CountAPIKeys, Answer
<1> QED
  BY <1>1, <1>2, <1>3, <1>4, <1>5, <1>6 DEF AccountInv

\* The insert of a generation that was under way.
LEMMA InsertAPIKeyPreserves ==
  ASSUME AccountInv, NEW r \in Requests, NEW k \in Keys, InsertAPIKey(r, k)
  PROVE  AccountInv'
<1>1. TypeOK'
  BY AccountsAssumption DEF AccountInv, TypeOK, InsertAPIKey, Answer
<1>2. CSRFSound'
  BY AccountsAssumption DEF AccountInv, TypeOK, CSRFSound, InsertAPIKey, Answer
<1>3. GhostInv'
  BY AccountsAssumption DEF AccountInv, TypeOK, GhostInv, InsertAPIKey, Answer
<1>4. MakerInv'
  BY AccountsAssumption DEF AccountInv, TypeOK, Making, MakerInv, DeleterInv, InsertAPIKey, Answer
<1>5. DeleterInv'
  BY AccountsAssumption DEF AccountInv, TypeOK, Making, MakerInv, DeleterInv, InsertAPIKey, Answer
<1>6. ReadyHasKey'
  BY AccountsAssumption
  DEF AccountInv, TypeOK, Making, MakerInv, DeleterInv, ReadyHasKey, InsertAPIKey, Answer
<1> QED
  BY <1>1, <1>2, <1>3, <1>4, <1>5, <1>6 DEF AccountInv

\* One key less.
LEMMA RevokeAPIKeyPreserves ==
  ASSUME AccountInv, NEW r \in Requests, NEW k \in Keys, RevokeAPIKey(r, k)
  PROVE  AccountInv'
<1>1. TypeOK'
  BY AccountsAssumption DEF AccountInv, TypeOK, RevokeAPIKey, FreshPasskey, Answer
<1>2. CSRFSound'
  BY AccountsAssumption
  DEF AccountInv, TypeOK, CSRFSound, RevokeAPIKey, FreshPasskey, Answer
<1>3. GhostInv'
  BY AccountsAssumption
  DEF AccountInv, TypeOK, GhostInv, RevokeAPIKey, FreshPasskey, Answer
<1>4. MakerInv'
  BY AccountsAssumption
  DEF AccountInv, TypeOK, Making, MakerInv, DeleterInv, RevokeAPIKey, FreshPasskey,
      Answer
<1>5. DeleterInv'
  BY AccountsAssumption
  DEF AccountInv, TypeOK, Making, MakerInv, DeleterInv, RevokeAPIKey, FreshPasskey,
      Answer
<1>6. ReadyHasKey'
  BY AccountsAssumption
  DEF AccountInv, TypeOK, Making, MakerInv, DeleterInv, ReadyHasKey, RevokeAPIKey, FreshPasskey, Answer
<1> QED
  BY <1>1, <1>2, <1>3, <1>4, <1>5, <1>6 DEF AccountInv

\* A creation begins.
LEMMA CountWalletsPreserves ==
  ASSUME AccountInv, NEW r \in Requests, CountWallets(r)
  PROVE  AccountInv'
<1>1. TypeOK'
  BY AccountsAssumption DEF AccountInv, TypeOK, CountWallets
<1>2. CSRFSound'
  BY AccountsAssumption DEF AccountInv, TypeOK, CSRFSound, CountWallets
<1>3. GhostInv'
  BY AccountsAssumption DEF AccountInv, TypeOK, GhostInv, CountWallets
<1>4. MakerInv'
  BY AccountsAssumption DEF AccountInv, TypeOK, Making, MakerInv, DeleterInv, CountWallets
<1>5. DeleterInv'
  BY AccountsAssumption DEF AccountInv, TypeOK, Making, MakerInv, DeleterInv, CountWallets
<1>6. ReadyHasKey'
  BY AccountsAssumption
  DEF AccountInv, TypeOK, Making, MakerInv, DeleterInv, ReadyHasKey, CountWallets
<1> QED
  BY <1>1, <1>2, <1>3, <1>4, <1>5, <1>6 DEF AccountInv

\* The row is new, hence nobody's.
LEMMA InsertWalletPreserves ==
  ASSUME AccountInv, NEW r \in Requests, NEW w \in Wallets, InsertWallet(r, w)
  PROVE  AccountInv'
<1>1. TypeOK'
  BY AccountsAssumption DEF AccountInv, TypeOK, InsertWallet
<1>2. CSRFSound'
  BY AccountsAssumption DEF AccountInv, TypeOK, CSRFSound, InsertWallet
<1>3. GhostInv'
  BY AccountsAssumption DEF AccountInv, TypeOK, GhostInv, InsertWallet
<1>4. MakerInv'
  BY AccountsAssumption DEF AccountInv, TypeOK, Making, MakerInv, DeleterInv, InsertWallet
<1>5. DeleterInv'
  BY AccountsAssumption DEF AccountInv, TypeOK, Making, MakerInv, DeleterInv, InsertWallet
<1>6. ReadyHasKey'
  BY AccountsAssumption
  DEF AccountInv, TypeOK, Making, MakerInv, DeleterInv, ReadyHasKey, InsertWallet
<1> QED
  BY <1>1, <1>2, <1>3, <1>4, <1>5, <1>6 DEF AccountInv

\* A key appears.
LEMMA GenerateKeyPreserves ==
  ASSUME AccountInv, NEW r \in Requests, GenerateKey(r)
  PROVE  AccountInv'
<1>1. TypeOK'
  BY AccountsAssumption DEF AccountInv, TypeOK, GenerateKey
<1>2. CSRFSound'
  BY AccountsAssumption DEF AccountInv, TypeOK, CSRFSound, GenerateKey
<1>3. GhostInv'
  BY AccountsAssumption DEF AccountInv, TypeOK, GhostInv, GenerateKey
<1>4. MakerInv'
  BY AccountsAssumption DEF AccountInv, TypeOK, Making, MakerInv, DeleterInv, GenerateKey
<1>5. DeleterInv'
  BY AccountsAssumption DEF AccountInv, TypeOK, Making, MakerInv, DeleterInv, GenerateKey
<1>6. ReadyHasKey'
  BY AccountsAssumption
  DEF AccountInv, TypeOK, Making, MakerInv, DeleterInv, ReadyHasKey, GenerateKey
<1> QED
  BY <1>1, <1>2, <1>3, <1>4, <1>5, <1>6 DEF AccountInv

\* The key is there, and its name was not known before.
LEMMA FinishWalletPreserves ==
  ASSUME AccountInv, NEW r \in Requests, FinishWallet(r)
  PROVE  AccountInv'
<1>1. TypeOK'
  <2>1. revived' \in BOOLEAN
    BY DEF AccountInv, TypeOK, FinishWallet
  <2>2. /\ wallet' \in [Wallets -> {"none", "creating", "ready", "error", "deleted"}]
        /\ named' \subseteq Wallets
    BY DEF AccountInv, TypeOK, Making, MakerInv, FinishWallet
  <2>3. pc' = [pc EXCEPT ![r] = "idle"] /\ Answer(r)
    BY DEF FinishWallet, Answer
  <2> QED
    BY <2>1, <2>2, <2>3 DEF AccountInv, TypeOK, FinishWallet, Answer
<1>2. CSRFSound'
  BY AccountsAssumption DEF AccountInv, TypeOK, CSRFSound, FinishWallet, Exists, Answer
<1>3. GhostInv'
  BY AccountsAssumption DEF AccountInv, TypeOK, GhostInv, FinishWallet, Exists, Answer
<1>4. MakerInv'
  BY AccountsAssumption
  DEF AccountInv, TypeOK, Making, MakerInv, DeleterInv, FinishWallet, Exists, Answer
<1>5. DeleterInv'
  BY AccountsAssumption
  DEF AccountInv, TypeOK, Making, MakerInv, DeleterInv, FinishWallet, Exists, Answer
<1>6. ReadyHasKey'
  BY AccountsAssumption
  DEF AccountInv, TypeOK, Making, MakerInv, DeleterInv, ReadyHasKey, FinishWallet, Exists, Answer
<1> QED
  BY <1>1, <1>2, <1>3, <1>4, <1>5, <1>6 DEF AccountInv

\* A wallet is given up.
LEMMA FailWalletPreserves ==
  ASSUME AccountInv, NEW r \in Requests, FailWallet(r)
  PROVE  AccountInv'
<1>1. TypeOK'
  BY AccountsAssumption DEF AccountInv, TypeOK, FailWallet, Exists, Answer
<1>2. CSRFSound'
  BY AccountsAssumption DEF AccountInv, TypeOK, CSRFSound, FailWallet, Exists, Answer
<1>3. GhostInv'
  BY AccountsAssumption DEF AccountInv, TypeOK, GhostInv, FailWallet, Exists, Answer
<1>4. MakerInv'
  BY AccountsAssumption
  DEF AccountInv, TypeOK, Making, MakerInv, DeleterInv, FailWallet, Exists, Answer
<1>5. DeleterInv'
  BY AccountsAssumption
  DEF AccountInv, TypeOK, Making, MakerInv, DeleterInv, FailWallet, Exists, Answer
<1>6. ReadyHasKey'
  BY AccountsAssumption
  DEF AccountInv, TypeOK, Making, MakerInv, DeleterInv, ReadyHasKey, FailWallet, Exists, Answer
<1> QED
  BY <1>1, <1>2, <1>3, <1>4, <1>5, <1>6 DEF AccountInv

\* A wallet is given up under its creation.
LEMMA ReapPreserves ==
  ASSUME AccountInv, NEW w \in Wallets, Reap(w)
  PROVE  AccountInv'
<1>1. TypeOK'
  BY AccountsAssumption DEF AccountInv, TypeOK, Reap
<1>2. CSRFSound'
  BY AccountsAssumption DEF AccountInv, TypeOK, CSRFSound, Reap
<1>3. GhostInv'
  BY AccountsAssumption DEF AccountInv, TypeOK, GhostInv, Reap
<1>4. MakerInv'
  BY AccountsAssumption DEF AccountInv, TypeOK, Making, MakerInv, DeleterInv, Reap
<1>5. DeleterInv'
  BY AccountsAssumption DEF AccountInv, TypeOK, Making, MakerInv, DeleterInv, Reap
<1>6. ReadyHasKey'
  BY AccountsAssumption DEF AccountInv, TypeOK, Making, MakerInv, DeleterInv, ReadyHasKey, Reap
<1> QED
  BY <1>1, <1>2, <1>3, <1>4, <1>5, <1>6 DEF AccountInv

\* The row and its key name are read.
LEMMA DeleteWalletPreserves ==
  ASSUME AccountInv, NEW r \in Requests, NEW w \in Wallets, DeleteWallet(r, w)
  PROVE  AccountInv'
<1>1. TypeOK'
  BY AccountsAssumption DEF AccountInv, TypeOK, DeleteWallet, FreshPasskey, Exists
<1>2. CSRFSound'
  BY AccountsAssumption
  DEF AccountInv, TypeOK, CSRFSound, DeleteWallet, FreshPasskey, Exists
<1>3. GhostInv'
  BY AccountsAssumption
  DEF AccountInv, TypeOK, GhostInv, DeleteWallet, FreshPasskey, Exists
<1>4. MakerInv'
  BY AccountsAssumption
  DEF AccountInv, TypeOK, Making, MakerInv, DeleterInv, DeleteWallet, FreshPasskey,
      Exists
<1>5. DeleterInv'
  BY AccountsAssumption
  DEF AccountInv, TypeOK, Making, MakerInv, DeleterInv, DeleteWallet, FreshPasskey,
      Exists
<1>6. ReadyHasKey'
  BY AccountsAssumption
  DEF AccountInv, TypeOK, Making, MakerInv, DeleterInv, ReadyHasKey, DeleteWallet, FreshPasskey, Exists
<1> QED
  BY <1>1, <1>2, <1>3, <1>4, <1>5, <1>6 DEF AccountInv

\* The row goes.
LEMMA DeleteWalletRowPreserves ==
  ASSUME AccountInv, NEW r \in Requests, DeleteWalletRow(r)
  PROVE  AccountInv'
<1>1. TypeOK'
  BY AccountsAssumption DEF AccountInv, TypeOK, DeleteWalletRow, Answer
<1>2. CSRFSound'
  BY AccountsAssumption DEF AccountInv, TypeOK, CSRFSound, DeleteWalletRow, Answer
<1>3. GhostInv'
  BY AccountsAssumption DEF AccountInv, TypeOK, GhostInv, DeleteWalletRow, Answer
<1>4. MakerInv'
  BY AccountsAssumption
  DEF AccountInv, TypeOK, Making, MakerInv, DeleterInv, DeleteWalletRow, Answer
<1>5. DeleterInv'
  BY AccountsAssumption
  DEF AccountInv, TypeOK, Making, MakerInv, DeleterInv, DeleteWalletRow, Answer
<1>6. ReadyHasKey'
  BY AccountsAssumption
  DEF AccountInv, TypeOK, Making, MakerInv, DeleterInv, ReadyHasKey, DeleteWalletRow, Answer
<1> QED
  BY <1>1, <1>2, <1>3, <1>4, <1>5, <1>6 DEF AccountInv

\* The key of a deleted row goes.
LEMMA DeleteWalletKeyPreserves ==
  ASSUME AccountInv, NEW r \in Requests, DeleteWalletKey(r)
  PROVE  AccountInv'
<1>1. TypeOK'
  BY AccountsAssumption DEF AccountInv, TypeOK, DeleteWalletKey, DeleteTEEKey, Answer
<1>2. CSRFSound'
  BY AccountsAssumption DEF AccountInv, TypeOK, CSRFSound, DeleteWalletKey, DeleteTEEKey, Answer
<1>3. GhostInv'
  BY AccountsAssumption DEF AccountInv, TypeOK, GhostInv, DeleteWalletKey, DeleteTEEKey, Answer
<1>4. MakerInv'
  BY AccountsAssumption
  DEF AccountInv, TypeOK, Making, MakerInv, DeleterInv, DeleteWalletKey, DeleteTEEKey, Answer
<1>5. DeleterInv'
  BY AccountsAssumption
  DEF AccountInv, TypeOK, Making, MakerInv, DeleterInv, DeleteWalletKey, DeleteTEEKey, Answer
<1>6. ReadyHasKey'
  BY AccountsAssumption
  DEF AccountInv, TypeOK, Making, MakerInv, DeleterInv, ReadyHasKey, DeleteWalletKey,
      DeleteTEEKey, Answer
<1> QED
  BY <1>1, <1>2, <1>3, <1>4, <1>5, <1>6 DEF AccountInv

\* The key names are read.
LEMMA DeleteAccountPreserves ==
  ASSUME AccountInv, NEW r \in Requests, DeleteAccount(r)
  PROVE  AccountInv'
<1>1. TypeOK'
  BY AccountsAssumption DEF AccountInv, TypeOK, DeleteAccount, FreshPasskey, Exists
<1>2. CSRFSound'
  BY AccountsAssumption
  DEF AccountInv, TypeOK, CSRFSound, DeleteAccount, FreshPasskey, Exists
<1>3. GhostInv'
  BY AccountsAssumption
  DEF AccountInv, TypeOK, GhostInv, DeleteAccount, FreshPasskey, Exists
<1>4. MakerInv'
  BY AccountsAssumption
  DEF AccountInv, TypeOK, Making, MakerInv, DeleterInv, DeleteAccount, FreshPasskey, Exists
<1>5. DeleterInv'
  BY AccountsAssumption
  DEF AccountInv, TypeOK, Making, MakerInv, DeleterInv, DeleteAccount, FreshPasskey, Exists
<1>6. ReadyHasKey'
  BY AccountsAssumption
  DEF AccountInv, TypeOK, Making, MakerInv, DeleterInv, ReadyHasKey, DeleteAccount,
      FreshPasskey, Exists
<1> QED
  BY <1>1, <1>2, <1>3, <1>4, <1>5, <1>6 DEF AccountInv

\* A key goes, and is on record as purged.
LEMMA PurgeKeyPreserves ==
  ASSUME AccountInv, NEW r \in Requests, NEW w \in Wallets, PurgeKey(r, w)
  PROVE  AccountInv'
<1>1. TypeOK'
  BY AccountsAssumption DEF AccountInv, TypeOK, PurgeKey, DeleteTEEKey
<1>2. CSRFSound'
  BY AccountsAssumption DEF AccountInv, TypeOK, CSRFSound, PurgeKey, DeleteTEEKey
<1>3. GhostInv'
  BY AccountsAssumption DEF AccountInv, TypeOK, GhostInv, PurgeKey, DeleteTEEKey
<1>4. MakerInv'
  BY AccountsAssumption
  DEF AccountInv, TypeOK, Making, MakerInv, DeleterInv, PurgeKey, DeleteTEEKey
<1>5. DeleterInv'
  BY AccountsAssumption
  DEF AccountInv, TypeOK, Making, MakerInv, DeleterInv, PurgeKey, DeleteTEEKey
<1>6. ReadyHasKey'
  BY AccountsAssumption
  DEF AccountInv, TypeOK, Making, MakerInv, DeleterInv, ReadyHasKey, PurgeKey, DeleteTEEKey
<1> QED
  BY <1>1, <1>2, <1>3, <1>4, <1>5, <1>6 DEF AccountInv

\* The user is loaded.
LEMMA PurgeDonePreserves ==
  ASSUME AccountInv, NEW r \in Requests, PurgeDone(r)
  PROVE  AccountInv'
<1>1. TypeOK'
  BY AccountsAssumption DEF AccountInv, TypeOK, PurgeDone, Answer
<1>2. CSRFSound'
  BY AccountsAssumption DEF AccountInv, TypeOK, CSRFSound, PurgeDone, Answer
<1>3. GhostInv'
  BY AccountsAssumption DEF AccountInv, TypeOK, GhostInv, PurgeDone, Answer
<1>4. MakerInv'
  BY AccountsAssumption DEF AccountInv, TypeOK, Making, MakerInv, DeleterInv, PurgeDone, Answer
<1>5. DeleterInv'
  BY AccountsAssumption DEF AccountInv, TypeOK, Making, MakerInv, DeleterInv, PurgeDone, Answer
<1>6. ReadyHasKey'
  BY AccountsAssumption
  DEF AccountInv, TypeOK, Making, MakerInv, DeleterInv, ReadyHasKey, PurgeDone, Answer
<1> QED
  BY <1>1, <1>2, <1>3, <1>4, <1>5, <1>6 DEF AccountInv

\* Everything goes, or nothing.
LEMMA DeleteRowsPreserves ==
  ASSUME AccountInv, NEW r \in Requests, DeleteRows(r)
  PROVE  AccountInv'
<1>1. TypeOK'
  <2>1. crossing' \in BOOLEAN
    BY DEF AccountInv, TypeOK, DeleteRows
  <2>2. wallet' \in [Wallets -> {"none", "creating", "ready", "error", "deleted"}]
    BY DEF AccountInv, TypeOK, DeleteRows
  <2>3. apiKey' \in [Keys -> {"none", "live", "deleted"}]
    BY DEF AccountInv, TypeOK, DeleteRows
  <2>4. pc' \in [Requests -> {"idle", "csrf", "read", "handler", "passkey", "insert", "generate",
                             "final", "fail", "deleteRow", "deleteKey", "keyCount", "keyInsert",
                             "purge", "deleteUser", "endSession"}]
    BY DEF AccountInv, TypeOK, DeleteRows, Answer, Goto
  <2>5. /\ cred' \in [Requests -> Sessions \cup Keys \cup {None}]
        /\ header' \in [Requests -> Sessions \cup {None}]
        /\ about' \in [Requests -> Wallets \cup {None}]
    BY DEF AccountInv, TypeOK, DeleteRows, Answer
  <2>6. toPurge' \in [Requests -> SUBSET Wallets]
    BY DEF AccountInv, TypeOK, DeleteRows, Answer
  <2>7. user' \in {"active", "deleted"}
    BY DEF AccountInv, TypeOK, DeleteRows
  <2> QED
    BY <2>1, <2>2, <2>3, <2>4, <2>5, <2>6, <2>7 DEF AccountInv, TypeOK, DeleteRows
<1>2. CSRFSound'
  BY AccountsAssumption DEF AccountInv, TypeOK, CSRFSound, DeleteRows, Exists, Answer
<1>3. GhostInv'
  <2>0. \A q \in Requests :
          q # r /\ pc'[q] \in {"passkey", "keyCount", "keyInsert"}
            => pc[q] \in {"passkey", "keyCount", "keyInsert"}
    BY DEF AccountInv, TypeOK, DeleteRows, Answer
  <2>1. CASE user' = "deleted" /\ pc'[r] = "endSession"
    <3>1. \A k \in Keys : apiKey'[k] # "live"
      BY <2>1 DEF AccountInv, TypeOK, DeleteRows, Answer
    <3>2. ~crossing' => \A q \in Requests : pc[q] \notin {"passkey", "keyCount", "keyInsert"}
      BY <2>1 DEF AccountInv, TypeOK, DeleteRows, Answer
    <3> QED
      BY <2>0, <2>1, <3>1, <3>2 DEF GhostInv
  <2>2. CASE UNCHANGED <<user, apiKey, crossing>> /\ pc'[r] = "idle"
    BY <2>0, <2>2 DEF AccountInv, GhostInv
  <2> QED
    BY <2>1, <2>2 DEF AccountInv, TypeOK, DeleteRows, Answer
<1>4. MakerInv'
  BY AccountsAssumption
  DEF AccountInv, TypeOK, Making, MakerInv, DeleterInv, DeleteRows, Exists, Answer
<1>5. DeleterInv'
  BY AccountsAssumption
  DEF AccountInv, TypeOK, Making, MakerInv, DeleterInv, DeleteRows, Exists, Answer
<1>6. ReadyHasKey'
  BY AccountsAssumption
  DEF AccountInv, TypeOK, Making, MakerInv, DeleterInv, ReadyHasKey, DeleteRows, Exists, Answer
<1> QED
  BY <1>1, <1>2, <1>3, <1>4, <1>5, <1>6 DEF AccountInv

\* One session ends.
LEMMA EndSessionPreserves ==
  ASSUME AccountInv, NEW r \in Requests, EndSession(r)
  PROVE  AccountInv'
<1>1. TypeOK'
  BY AccountsAssumption DEF AccountInv, TypeOK, EndSession, Answer
<1>2. CSRFSound'
  BY AccountsAssumption DEF AccountInv, TypeOK, CSRFSound, EndSession, Answer
<1>3. GhostInv'
  BY AccountsAssumption DEF AccountInv, TypeOK, GhostInv, EndSession, Answer
<1>4. MakerInv'
  BY AccountsAssumption DEF AccountInv, TypeOK, Making, MakerInv, DeleterInv, EndSession, Answer
<1>5. DeleterInv'
  BY AccountsAssumption DEF AccountInv, TypeOK, Making, MakerInv, DeleterInv, EndSession, Answer
<1>6. ReadyHasKey'
  BY AccountsAssumption
  DEF AccountInv, TypeOK, Making, MakerInv, DeleterInv, ReadyHasKey, EndSession, Answer
<1> QED
  BY <1>1, <1>2, <1>3, <1>4, <1>5, <1>6 DEF AccountInv

\* Requests and sessions are gone; rows and keys stay.
LEMMA CrashPreserves ==
  ASSUME AccountInv, Crash
  PROVE  AccountInv'
<1>1. TypeOK'
  BY AccountsAssumption DEF AccountInv, TypeOK, Crash
<1>2. CSRFSound' /\ GhostInv'
  BY AccountsAssumption DEF AccountInv, TypeOK, CSRFSound, GhostInv, Crash
<1>3. MakerInv' /\ DeleterInv' /\ ReadyHasKey'
  BY AccountsAssumption DEF AccountInv, TypeOK, Making, MakerInv, DeleterInv, ReadyHasKey, Crash
<1> QED
  BY <1>1, <1>2, <1>3 DEF AccountInv

-----------------------------------------------------------------------------
(* The theorems.                                                           *)

\* The account starts without sessions, keys and wallets.
LEMMA InitEstablishes ==
  ASSUME Init
  PROVE  AccountInv
<1>1. TypeOK
  <2>1. toPurge \in [Requests -> SUBSET Wallets] /\ named \subseteq Wallets /\ purged \subseteq Wallets
    BY DEF Init
  <2>2. overlap \in BOOLEAN /\ revived \in BOOLEAN /\ crossing \in BOOLEAN
    BY DEF Init
  <2>3. crashes \in 0 .. MaxCrashes /\ uncounted \in 0 .. MaxFaults
    BY AccountsAssumption DEF Init
  <2> QED
    BY <2>1, <2>2, <2>3 DEF Init, TypeOK
<1>2. CSRFSound /\ GhostInv
  BY DEF Init, CSRFSound, GhostInv
<1>3. MakerInv /\ DeleterInv /\ ReadyHasKey
  BY DEF Init, Making, MakerInv, DeleterInv, ReadyHasKey
<1> QED
  BY <1>1, <1>2, <1>3 DEF AccountInv

\* Every step of a handler preserves the invariant.
LEMMA HandlerPreserves ==
  ASSUME AccountInv, NEW r \in Requests, Handler(r)
  PROVE  AccountInv'
<1>1. CASE Refused(r) \/ Logout(r) \/ LoadUser(r) \/ GenerateAPIKey(r) \/ CountAPIKeys(r)
  BY <1>1, RefusedPreserves, LogoutPreserves, LoadUserPreserves, GenerateAPIKeyPreserves,
     CountAPIKeysPreserves
<1>2. CASE CountWallets(r) \/ GenerateKey(r) \/ FinishWallet(r) \/ FailWallet(r)
  BY <1>2, CountWalletsPreserves, GenerateKeyPreserves, FinishWalletPreserves, FailWalletPreserves
<1>3. CASE DeleteWalletRow(r) \/ DeleteWalletKey(r) \/ DeleteAccount(r)
  BY <1>3, DeleteWalletRowPreserves, DeleteWalletKeyPreserves, DeleteAccountPreserves
<1>4. CASE PurgeDone(r) \/ DeleteRows(r) \/ EndSession(r)
  BY <1>4, PurgeDonePreserves, DeleteRowsPreserves, EndSessionPreserves
<1>5. CASE \E k \in Keys : InsertAPIKey(r, k) \/ RevokeAPIKey(r, k)
  BY <1>5, InsertAPIKeyPreserves, RevokeAPIKeyPreserves
<1>6. CASE \E w \in Wallets : InsertWallet(r, w) \/ DeleteWallet(r, w) \/ PurgeKey(r, w)
  BY <1>6, InsertWalletPreserves, DeleteWalletPreserves, PurgeKeyPreserves
<1> QED
  BY <1>1, <1>2, <1>3, <1>4, <1>5, <1>6 DEF Handler

\* Every step preserves the invariant.
LEMMA NextPreserves ==
  ASSUME AccountInv, [Next]_vars
  PROVE  AccountInv'
<1>1. ASSUME NEW s \in Sessions, SetSession(s) \/ Expire(s)
      PROVE  AccountInv'
  BY <1>1, SetSessionPreserves, ExpirePreserves
<1>2. ASSUME NEW r \in Requests, NEW s \in Sessions, AuthSession(r, s)
      PROVE  AccountInv'
  BY <1>2, AuthSessionPreserves
<1>3. ASSUME NEW r \in Requests, NEW method \in Methods,
             NEW h \in Sessions \cup {None}, CSRFCheck(r, method, h)
      PROVE  AccountInv'
  BY <1>3, CSRFCheckPreserves
<1>4. ASSUME NEW r \in Requests, NEW k \in Keys, AuthKey(r, k)
      PROVE  AccountInv'
  BY <1>4, AuthKeyPreserves
<1>5. ASSUME NEW w \in Wallets, Reap(w)
      PROVE  AccountInv'
  BY <1>5, ReapPreserves
<1>6. CASE UNCHANGED vars
  <2>1. TypeOK'
    BY <1>6 DEF AccountInv, TypeOK, vars
  <2>2. CSRFSound' /\ GhostInv' /\ MakerInv' /\ DeleterInv' /\ ReadyHasKey'
    BY <1>6 DEF AccountInv, CSRFSound, GhostInv, MakerInv, DeleterInv, ReadyHasKey, vars
  <2> QED
    BY <2>1, <2>2 DEF AccountInv
<1> QED
  BY <1>1, <1>2, <1>3, <1>4, <1>5, <1>6, HandlerPreserves, CrashPreserves DEF Next

\* The inductive invariant of the account.
THEOREM AccountInvariance == Spec => []AccountInv
BY InitEstablishes, NextPreserves, PTL DEF Spec

\* A wallet that is offered for use has its key in the TEE, unless a deletion of
\* the whole account took it: creation, reaper, failed deletions and crashes do not.
THEOREM ReadyWalletsCanSign == Spec => []ReadyHasKey
<1>1. AccountInv => ReadyHasKey
  BY DEF AccountInv
<1> QED
  BY <1>1, AccountInvariance, PTL

\* A session's request reaches a handler only with that session's CSRF token.
THEOREM HandlersSeeTheirToken == Spec => []CSRFSound
<1>1. AccountInv => CSRFSound
  BY DEF AccountInv
<1> QED
  BY <1>1, AccountInvariance, PTL

\* No API key works for a deleted account, unless its generation was under way.
THEOREM NoKeyOutlivesTheAccount == Spec => []NoGhostKeys
<1>1. AccountInv => NoGhostKeys
  <2> SUFFICES ASSUME AccountInv, user = "deleted", ~crossing
               PROVE  ~(KeyCount > 0)
    BY DEF NoGhostKeys
  <2>1. {k \in Keys : apiKey[k] = "live"} = {}
    BY DEF AccountInv, GhostInv
  <2> QED
    BY <2>1, FS_EmptySet DEF KeyCount
<1> QED
  BY <1>1, AccountInvariance, PTL

-----------------------------------------------------------------------------
(* The limits.  A request between its count and its insert has room for    *)
(* one more row, as long as it is the only one there.                      *)

LiveKeys    == {k \in Keys : apiKey[k] = "live"}
LiveWallets == {w \in Wallets : wallet[w] \in {"creating", "ready"}}

LimitInv ==
  ~overlap =>
    /\ KeyCount <= MaxKeys
    /\ \A r \in Requests : pc[r] = "keyInsert" => KeyCount < MaxKeys
    /\ \A r, q \in Requests : pc[r] = "keyInsert" /\ pc[q] = "keyInsert" => r = q
    /\ \A r, q \in Requests : pc[r] = "insert" /\ pc[q] = "insert" => r = q
    /\ ~revived =>
         /\ WalletCount <= MaxWallets + uncounted
         /\ \A r \in Requests : pc[r] = "insert" => WalletCount < MaxWallets + uncounted

\* A step that adds no row and takes no request to an insert.
Calm ==
  /\ LiveKeys' \subseteq LiveKeys
  /\ revived' \/ LiveWallets' \subseteq LiveWallets
  /\ overlap' = overlap /\ (revived => revived') /\ uncounted' = uncounted
  /\ \A r \in Requests : pc'[r] \in {"keyInsert", "insert"} => pc[r] = pc'[r]

\* The tables are finite.
LEMMA CountsAreNaturals ==
  /\ IsFiniteSet(LiveKeys) /\ IsFiniteSet(LiveKeys')
  /\ IsFiniteSet(LiveWallets) /\ IsFiniteSet(LiveWallets')
  /\ KeyCount = Cardinality(LiveKeys) /\ KeyCount' = Cardinality(LiveKeys')
  /\ WalletCount = Cardinality(LiveWallets) /\ WalletCount' = Cardinality(LiveWallets')
  /\ KeyCount \in Nat /\ KeyCount' \in Nat /\ WalletCount \in Nat /\ WalletCount' \in Nat
<1>1. IsFiniteSet(Keys) /\ IsFiniteSet(Wallets)
  BY AccountsAssumption, FS_Interval DEF Keys, Wallets
<1>2. LiveKeys \subseteq Keys /\ LiveKeys' \subseteq Keys
  BY DEF LiveKeys
<1>3. LiveWallets \subseteq Wallets /\ LiveWallets' \subseteq Wallets
  BY DEF LiveWallets
<1>4. /\ IsFiniteSet(LiveKeys) /\ IsFiniteSet(LiveKeys')
      /\ IsFiniteSet(LiveWallets) /\ IsFiniteSet(LiveWallets')
  BY <1>1, <1>2, <1>3, FS_Subset
<1>5. /\ KeyCount = Cardinality(LiveKeys) /\ KeyCount' = Cardinality(LiveKeys')
      /\ WalletCount = Cardinality(LiveWallets) /\ WalletCount' = Cardinality(LiveWallets')
  BY DEF KeyCount, WalletCount, LiveKeys, LiveWallets
<1> QED
  BY <1>4, <1>5, FS_CardinalityType

\* Fewer rows, and nobody new with room for one more.
LEMMA CalmKeepsLimits ==
  ASSUME AccountInv, LimitInv, Calm
  PROVE  LimitInv'
<1> SUFFICES ASSUME ~overlap' PROVE LimitInv'
  BY DEF LimitInv
<1>1. KeyCount' <= KeyCount
  BY CountsAreNaturals, FS_Subset DEF Calm
<1>2. revived' \/ WalletCount' <= WalletCount
  BY CountsAreNaturals, FS_Subset DEF Calm
<1>3. ~overlap /\ (revived => revived')
  BY DEF Calm
<1>4. \A r \in Requests : pc'[r] \in {"keyInsert", "insert"} => pc[r] = pc'[r]
  BY DEF Calm
<1>5. /\ KeyCount' <= MaxKeys
      /\ \A r \in Requests : pc'[r] = "keyInsert" => KeyCount' < MaxKeys
  BY <1>1, <1>3, <1>4, CountsAreNaturals, AccountsAssumption DEF LimitInv
<1>6. /\ \A r, q \in Requests : pc'[r] = "keyInsert" /\ pc'[q] = "keyInsert" => r = q
      /\ \A r, q \in Requests : pc'[r] = "insert" /\ pc'[q] = "insert" => r = q
  BY <1>3, <1>4 DEF LimitInv
<1>7. ~revived' =>
        /\ WalletCount' <= MaxWallets + uncounted'
        /\ \A r \in Requests : pc'[r] = "insert" => WalletCount' < MaxWallets + uncounted'
  <2>1. uncounted' = uncounted /\ uncounted \in Nat /\ MaxWallets \in Nat
    BY AccountsAssumption DEF Calm, AccountInv, TypeOK
  <2> QED
    BY <1>2, <1>3, <1>4, <2>1, CountsAreNaturals DEF LimitInv
<1> QED
  BY <1>5, <1>6, <1>7 DEF LimitInv

\* Most steps are calm.
LEMMA HandlerCalm ==
  ASSUME AccountInv, NEW r \in Requests,
         \/ Logout(r) \/ Refused(r) \/ LoadUser(r) \/ GenerateAPIKey(r) \/ GenerateKey(r) \/ FinishWallet(r)
         \/ FailWallet(r) \/ DeleteWalletRow(r) \/ DeleteWalletKey(r) \/ DeleteAccount(r)
         \/ PurgeDone(r) \/ DeleteRows(r) \/ EndSession(r)
  PROVE  Calm
<1>1. CASE Logout(r)
  BY <1>1 DEF AccountInv, TypeOK, Calm, LiveKeys, LiveWallets, Logout, Answer
<1>2. CASE Refused(r)
  BY <1>2 DEF AccountInv, TypeOK, Calm, LiveKeys, LiveWallets, Refused, Answer
<1>3. CASE GenerateAPIKey(r)
  BY <1>3 DEF AccountInv, TypeOK, Calm, LiveKeys, LiveWallets, GenerateAPIKey
<1>4. CASE GenerateKey(r)
  BY <1>4 DEF AccountInv, TypeOK, Calm, LiveKeys, LiveWallets, GenerateKey
<1>5. CASE FinishWallet(r)
  BY <1>5
  DEF AccountInv, TypeOK, Making, MakerInv, Calm, LiveKeys, LiveWallets, FinishWallet, Exists,
      Answer
<1>6. CASE FailWallet(r)
  BY <1>6 DEF AccountInv, TypeOK, Calm, LiveKeys, LiveWallets, FailWallet, Exists, Answer
<1>7. CASE DeleteWalletRow(r)
  BY <1>7 DEF AccountInv, TypeOK, Calm, LiveKeys, LiveWallets, DeleteWalletRow, Answer
<1>8. CASE DeleteWalletKey(r)
  BY <1>8 DEF AccountInv, TypeOK, Calm, LiveKeys, LiveWallets, DeleteWalletKey, Answer
<1>9. CASE DeleteAccount(r)
  BY <1>9 DEF AccountInv, TypeOK, Calm, LiveKeys, LiveWallets, DeleteAccount
<1>10. CASE PurgeDone(r)
  BY <1>10 DEF AccountInv, TypeOK, Calm, LiveKeys, LiveWallets, PurgeDone, Answer
<1>11. CASE DeleteRows(r)
  BY <1>11 DEF AccountInv, TypeOK, Calm, LiveKeys, LiveWallets, DeleteRows, Exists, Answer
<1>12. CASE EndSession(r)
  BY <1>12 DEF AccountInv, TypeOK, Calm, LiveKeys, LiveWallets, EndSession, Answer
<1>13. CASE LoadUser(r)
  BY <1>13 DEF AccountInv, TypeOK, Calm, LiveKeys, LiveWallets, LoadUser
<1> QED
  BY <1>1, <1>2, <1>3, <1>4, <1>5, <1>6, <1>7, <1>8, <1>9, <1>10, <1>11, <1>12, <1>13

\* So are authentication, the clock, the reaper and a crash.
LEMMA OthersCalm ==
  ASSUME AccountInv,
         \/ \E r \in Requests, s \in Sessions : AuthSession(r, s)
         \/ \E r \in Requests, method \in Methods, h \in Sessions \cup {None} :
              CSRFCheck(r, method, h)
         \/ \E r \in Requests, k \in Keys : AuthKey(r, k) \/ RevokeAPIKey(r, k)
         \/ \E r \in Requests, w \in Wallets : DeleteWallet(r, w) \/ PurgeKey(r, w)
         \/ \E s \in Sessions : SetSession(s) \/ Expire(s)
         \/ \E w \in Wallets : Reap(w)
         \/ Crash
         \/ UNCHANGED vars
  PROVE  Calm
<1>1. ASSUME NEW r \in Requests, NEW s \in Sessions, AuthSession(r, s)
      PROVE  Calm
  BY <1>1 DEF AccountInv, TypeOK, Calm, LiveKeys, LiveWallets, AuthSession
<1>2. ASSUME NEW r \in Requests, NEW method \in Methods,
             NEW h \in Sessions \cup {None}, CSRFCheck(r, method, h)
      PROVE  Calm
  BY <1>2 DEF AccountInv, TypeOK, Calm, LiveKeys, LiveWallets, CSRFCheck, Answer
<1>3. ASSUME NEW r \in Requests, NEW k \in Keys, AuthKey(r, k)
      PROVE  Calm
  BY <1>3 DEF AccountInv, TypeOK, Calm, LiveKeys, LiveWallets, AuthKey
<1>4. ASSUME NEW r \in Requests, NEW k \in Keys, RevokeAPIKey(r, k)
      PROVE  Calm
  BY <1>4 DEF AccountInv, TypeOK, Calm, LiveKeys, LiveWallets, RevokeAPIKey, Answer
<1>5. ASSUME NEW r \in Requests, NEW w \in Wallets, DeleteWallet(r, w)
      PROVE  Calm
  BY <1>5 DEF AccountInv, TypeOK, Calm, LiveKeys, LiveWallets, DeleteWallet
<1>6. ASSUME NEW r \in Requests, NEW w \in Wallets, PurgeKey(r, w)
      PROVE  Calm
  BY <1>6 DEF AccountInv, TypeOK, Calm, LiveKeys, LiveWallets, PurgeKey
<1>7. ASSUME NEW s \in Sessions, SetSession(s)
      PROVE  Calm
  BY <1>7 DEF AccountInv, TypeOK, Calm, LiveKeys, LiveWallets, SetSession
<1>8. ASSUME NEW s \in Sessions, Expire(s)
      PROVE  Calm
  BY <1>8 DEF AccountInv, TypeOK, Calm, LiveKeys, LiveWallets, Expire
<1>9. ASSUME NEW w \in Wallets, Reap(w)
      PROVE  Calm
  BY <1>9 DEF AccountInv, TypeOK, Calm, LiveKeys, LiveWallets, Reap
<1>10. CASE Crash
  BY <1>10 DEF AccountInv, TypeOK, Calm, LiveKeys, LiveWallets, Crash
<1>11. CASE UNCHANGED vars
  BY <1>11 DEF Calm, LiveKeys, LiveWallets, vars
<1> QED
  BY <1>1, <1>2, <1>3, <1>4, <1>5, <1>6, <1>7, <1>8, <1>9, <1>10, <1>11

\* Whoever counts finds room and nobody else between count and insert.
LEMMA CountKeepsLimits ==
  ASSUME AccountInv, LimitInv, NEW r \in Requests, CountAPIKeys(r) \/ CountWallets(r)
  PROVE  LimitInv'
<1>1. KeyCount' = KeyCount /\ WalletCount' = WalletCount /\ revived' = revived
  BY DEF KeyCount, WalletCount, CountAPIKeys, CountWallets
<1>2. \A q \in Requests : q # r => pc'[q] = pc[q]
  BY DEF AccountInv, TypeOK, CountAPIKeys, CountWallets, Answer
<1>3. CASE CountAPIKeys(r) /\ ~(KeyCount >= MaxKeys)
  <2>1. pc'[r] = "keyInsert"
    BY <1>3 DEF AccountInv, TypeOK, CountAPIKeys
  <2>2. ~overlap' => ~overlap /\ \A q \in Requests : pc[q] # "keyInsert"
    BY <1>3 DEF AccountInv, TypeOK, CountAPIKeys
  <2>3. KeyCount < MaxKeys
    BY <1>3, CountsAreNaturals, AccountsAssumption
  <2>4. uncounted' = uncounted
    BY <1>3 DEF CountAPIKeys
  <2> QED
    BY <1>1, <1>2, <2>1, <2>2, <2>3, <2>4 DEF LimitInv
<1>4. CASE CountAPIKeys(r) /\ KeyCount >= MaxKeys
  <2>1. pc'[r] = "idle" /\ overlap' = overlap /\ uncounted' = uncounted
    BY <1>4 DEF AccountInv, TypeOK, CountAPIKeys, Answer
  <2> QED
    BY <1>1, <1>2, <2>1 DEF LimitInv
<1>5. CASE CountWallets(r)
  <2>1. pc'[r] = "insert"
    BY <1>5 DEF AccountInv, TypeOK, CountWallets
  <2>2. ~overlap' => ~overlap /\ \A q \in Requests : pc[q] # "insert"
    BY <1>5 DEF AccountInv, TypeOK, CountWallets
  <2>3. /\ uncounted \in Nat /\ MaxWallets \in Nat /\ WalletCount \in Nat
        /\ (uncounted' = uncounted /\ WalletCount < MaxWallets) \/ uncounted' = uncounted + 1
    BY <1>5, CountsAreNaturals, AccountsAssumption
    DEF AccountInv, TypeOK, CountWallets, WalletRoom
  <2>4. ~overlap /\ ~revived => WalletCount < MaxWallets + uncounted'
    BY <2>3 DEF LimitInv
  <2>5. ~overlap /\ ~revived => WalletCount <= MaxWallets + uncounted'
    BY <2>3, <2>4
  <2> QED
    BY <1>1, <1>2, <2>1, <2>2, <2>4, <2>5 DEF LimitInv
<1> QED
  BY <1>3, <1>4, <1>5

\* The one row there was room for.
LEMMA InsertKeepsLimits ==
  ASSUME AccountInv, LimitInv, NEW r \in Requests,
         \/ \E k \in Keys : InsertAPIKey(r, k)
         \/ \E w \in Wallets : InsertWallet(r, w)
  PROVE  LimitInv'
<1>1. \A q \in Requests : q # r => pc'[q] = pc[q]
  BY DEF AccountInv, TypeOK, InsertAPIKey, InsertWallet, Answer
<1>2. ASSUME NEW k \in Keys, InsertAPIKey(r, k)
      PROVE  LimitInv'
  <2>1. LiveKeys' = LiveKeys \cup {k} /\ k \notin LiveKeys
    BY <1>2 DEF AccountInv, TypeOK, LiveKeys, InsertAPIKey
  <2>2. KeyCount' = KeyCount + 1
    BY <2>1, CountsAreNaturals, FS_AddElement
  <2>3. /\ WalletCount' = WalletCount /\ overlap' = overlap /\ revived' = revived
        /\ uncounted' = uncounted
    BY <1>2 DEF WalletCount, InsertAPIKey
  <2>4. pc[r] = "keyInsert" /\ pc'[r] = "idle"
    BY <1>2 DEF AccountInv, TypeOK, InsertAPIKey, Answer
  <2>5. ~overlap => KeyCount < MaxKeys /\ \A q \in Requests : q # r => pc[q] # "keyInsert"
    BY <2>4 DEF LimitInv
  <2>6. ~overlap => KeyCount' <= MaxKeys
    BY <2>2, <2>5, CountsAreNaturals, AccountsAssumption
  <2> QED
    BY <1>1, <2>3, <2>4, <2>5, <2>6 DEF LimitInv
<1>3. ASSUME NEW w \in Wallets, InsertWallet(r, w)
      PROVE  LimitInv'
  <2>1. LiveWallets' = LiveWallets \cup {w} /\ w \notin LiveWallets
    BY <1>3 DEF AccountInv, TypeOK, LiveWallets, InsertWallet
  <2>2. WalletCount' = WalletCount + 1
    BY <2>1, CountsAreNaturals, FS_AddElement
  <2>3. /\ KeyCount' = KeyCount /\ overlap' = overlap /\ revived' = revived
        /\ uncounted' = uncounted
    BY <1>3 DEF KeyCount, InsertWallet
  <2>4. pc[r] = "insert" /\ pc'[r] = "generate"
    BY <1>3 DEF AccountInv, TypeOK, InsertWallet
  <2>5. ~overlap => \A q \in Requests : q # r => pc[q] # "insert"
    BY <2>4 DEF LimitInv
  <2>6. ~overlap /\ ~revived => WalletCount' <= MaxWallets + uncounted'
    <3>1. uncounted \in Nat /\ MaxWallets \in Nat
      BY AccountsAssumption DEF AccountInv, TypeOK
    <3> QED
      BY <2>2, <2>3, <2>4, <3>1, CountsAreNaturals DEF LimitInv
  <2> QED
    BY <1>1, <2>3, <2>4, <2>5, <2>6 DEF LimitInv
<1> QED
  BY <1>2, <1>3

\* Unless counts and inserts overlapped, or a wallet given up came back, the
\* per-user limits on API keys and wallets hold.
THEOREM LimitsAreKept == Spec => []LimitsHold
<1>1. Init => LimitInv
  <2> SUFFICES ASSUME Init PROVE LimitInv
    OBVIOUS
  <2>1. LiveKeys = {} /\ LiveWallets = {}
    BY DEF Init, LiveKeys, LiveWallets
  <2>2. KeyCount = 0 /\ WalletCount = 0
    BY <2>1, FS_EmptySet DEF KeyCount, WalletCount, LiveKeys, LiveWallets
  <2> QED
    BY <2>2, AccountsAssumption DEF Init, LimitInv
<1>2. AccountInv /\ LimitInv /\ [Next]_vars => LimitInv'
  <2> SUFFICES ASSUME AccountInv, LimitInv, [Next]_vars PROVE LimitInv'
    OBVIOUS
  <2>1. ASSUME NEW r \in Requests, Handler(r)
        PROVE  LimitInv'
    BY <2>1, HandlerCalm, OthersCalm, CalmKeepsLimits, CountKeepsLimits, InsertKeepsLimits
    DEF Handler
  <2> QED
    BY <2>1, OthersCalm, CalmKeepsLimits DEF Next
<1>3. LimitInv => LimitsHold
  BY DEF LimitInv, LimitsHold
<1> QED
  BY <1>1, <1>2, <1>3, AccountInvariance, PTL DEF Spec
================================================================================
