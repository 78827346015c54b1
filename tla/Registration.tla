----------------------------- MODULE Registration -----------------------------
(***************************************************************************)
(* Registration by e-mail code and passkey, and login: the code lifecycle  *)
(* of handler/email_verification.go, the registration and login handlers   *)
(* of handler/auth.go, and the IP rate limiter in front of them (main.go). *)
(* Every database statement outside a transaction is a step of its own; a  *)
(* transaction is one step (SQLite refuses to commit one that read what    *)
(* another has changed since).  UMS, which holds the passkeys, is          *)
(* external.  A code is named by the row it was mailed for.                *)
(***************************************************************************)
EXTENDS RateLimiter, FiniteSets

CONSTANTS
  Workers,      \* requests in progress at the same time
  Emails,
  Passkeys,     \* passkey user ids of UMS
  None,
  CodeTTL, ResendCooldown, MaxAttempts,
  MaxUsers,     \* 0: no limit
  MaxRows       \* bound: codes sent

Rows == 1 .. MaxRows
Vids == 1 .. (2 * MaxRows)

ASSUME RegistrationAssumption ==
  /\ {CodeTTL, ResendCooldown, MaxAttempts} \subseteq Nat \ {0}
  /\ {MaxUsers, MaxRows} \subseteq Nat
  /\ None \notin Emails

VARIABLES
  row,      \* table email_verifications
  users,    \* table users
  pk,       \* UMS: what became of a passkey user id
  pc, req,  \* where a worker stands, and its local variables
  vids,     \* verification ids generated so far
  told,     \* <<vid, row>>: ids returned to a client
  guesses,  \* wrong codes compared with a row, but for those whose count the
            \* database refused to write (history)
  raced,    \* rows read by a verification while another held a copy (history)
  made,     \* <<row, passkey>>: users created from a code (history)
  orphans   \* passkeys whose registration the wallet refused or a login
            \* overtook, or whose deletion left them usable (history)

dbVars  == <<row, users>>
umsVars == <<pk, orphans>>
history == <<guesses, raced, made>>
regVars == <<dbVars, umsVars, pc, req, vids, told, history>>
vars    == <<now, limiterVars, regVars>>

NoRow == [state |-> "none", email |-> None, sent |-> 0, exp |-> 0, attempts |-> 0, vid |-> 0]
NoReq == [email |-> None, at |-> 0, row |-> 0, attempts |-> 0, vid |-> 0, pk |-> None]

Live(k) == row[k].state = "live"

TypeOK ==
  /\ LimiterTypeOK
  /\ \A k \in Rows :
       /\ row[k].state \in {"none", "live", "deleted"}
       /\ row[k].attempts \in 0 .. MaxAttempts
       /\ row[k].vid \in Vids \cup {0}
  /\ users \subseteq [email : Emails \cup {None}, passkey : Passkeys]
  /\ pk \in [Passkeys -> {"free", "invited", "registered", "deleted"}]
  /\ pc \in [Workers -> {"idle", "cooldown", "sweep", "insert", "exhaust", "count", "confirm",
                         "create", "login"}]
  /\ told \subseteq Vids \X Rows
  /\ made \subseteq Rows \X Passkeys

Init ==
  /\ LimiterInit
  /\ row = [k \in Rows |-> NoRow]
  /\ users = {} /\ told = {} /\ raced = {} /\ made = {} /\ orphans = {}
  /\ pk = [p \in Passkeys |-> "free"]
  /\ pc = [w \in Workers |-> "idle"]
  /\ req = [w \in Workers |-> NoReq]
  /\ vids = 0
  /\ guesses = [k \in Rows |-> 0]

\* Continue at a label with these local variables; or answer.
Goto(w, label, locals) ==
  /\ pc' = [pc EXCEPT ![w] = label]
  /\ req' = [req EXCEPT ![w] = locals]

Answer(w) == Goto(w, "idle", NoReq)

-----------------------------------------------------------------------------
(* SendCode.                                                               *)

Taken(e) == \E u \in users : u.email = e

SendCode(w, e) ==
  /\ pc[w] = "idle"
  /\ IF Taken(e) THEN Answer(w) ELSE Goto(w, "cooldown", [NoReq EXCEPT !.email = e])
  /\ UNCHANGED <<now, dbVars, umsVars, vids, told, history>>

\* Only rows that have not expired hold a resend back.
InCooldown(e) ==
  \E k \in Rows :
    /\ Live(k) /\ row[k].email = e /\ row[k].exp > now
    /\ now - row[k].sent < ResendCooldown

\* In cooldown, or the query fails; or on.
SendCooldown(w) ==
  /\ pc[w] = "cooldown"
  /\ \/ Answer(w)
     \/ ~InCooldown(req[w].email) /\ Goto(w, "sweep", [req[w] EXCEPT !.at = now])
  /\ UNCHANGED <<now, limiterVars, dbVars, umsVars, vids, told, history>>

\* The expired rows of the address go; a delete that fails ends the request.
SendSweep(w) ==
  /\ pc[w] = "sweep"
  /\ \/ /\ row' = [k \in Rows |->
             IF Live(k) /\ row[k].email = req[w].email /\ row[k].exp <= req[w].at
             THEN [row[k] EXCEPT !.state = "deleted"] ELSE row[k]]
        /\ Goto(w, "insert", req[w])
     \/ Answer(w) /\ UNCHANGED row
  /\ UNCHANGED <<now, limiterVars, users, umsVars, vids, told, history>>

\* The insert commits once the mail is out; a mail that fails rolls it back.
SendInsert(w) ==
  /\ pc[w] = "insert"
  /\ \/ \E k \in Rows :
          /\ row[k] = NoRow /\ \A j \in Rows : j < k => row[j] # NoRow
          /\ row' = [row EXCEPT ![k] =
               [NoRow EXCEPT !.state = "live", !.email = req[w].email,
                             !.sent = req[w].at, !.exp = req[w].at + CodeTTL]]
     \/ UNCHANGED row
  /\ Answer(w)
  /\ UNCHANGED <<now, limiterVars, users, umsVars, vids, told, history>>

-----------------------------------------------------------------------------
(* VerifyCode.                                                             *)

\* The most recent row of an address, the lower id on equal timestamps.
Latest(k, e) ==
  /\ Live(k) /\ row[k].email = e
  /\ \A j \in Rows : Live(j) /\ row[j].email = e =>
       row[j].sent < row[k].sent \/ (row[j].sent = row[k].sent /\ k <= j)

\* Another verification has read the row and not written it back yet.
Held(w, k) == \E v \in Workers \ {w} : pc[v] \in {"exhaust", "count", "confirm"} /\ req[v].row = k

\* An off-by-one on the number of attempts.
Exhausted_OneMore(k) == row[k].attempts > MaxAttempts

Exhausted(k) == row[k].attempts >= MaxAttempts

\* Every verification makes a new id.
HasVid_Never(k) == row[k].vid # row[k].vid

\* The row is verified and still usable: its id is returned again.
HasVid(k) == row[k].vid # 0

\* The row is read and the code compared; what is to be written is decided.
VerifyCode(w, e, k, right) ==
  /\ pc[w] = "idle"
  /\ Latest(k, e)
  /\ LET mine == [NoReq EXCEPT !.row = k]
         open == now <= row[k].exp /\ ~Exhausted(k)
     IN  \/ now > row[k].exp /\ Answer(w) /\ UNCHANGED <<told, guesses>>
         \/ /\ now <= row[k].exp /\ Exhausted(k)
            /\ Goto(w, "exhaust", [mine EXCEPT !.at = now]) /\ UNCHANGED <<told, guesses>>
         \/ /\ open /\ ~right
            /\ guesses' = [guesses EXCEPT ![k] = @ + 1]
            /\ Goto(w, "count", [mine EXCEPT !.attempts = row[k].attempts]) /\ UNCHANGED told
         \/ /\ open /\ right /\ HasVid(k)
            /\ told' = told \cup {<<row[k].vid, k>>}
            /\ Answer(w) /\ UNCHANGED guesses
         \/ /\ open /\ right /\ ~HasVid(k)
            /\ Goto(w, "confirm", mine) /\ UNCHANGED <<told, guesses>>
  /\ raced' = IF Held(w, k) THEN raced \cup {k} ELSE raced
  /\ UNCHANGED <<now, dbVars, umsVars, vids, made>>

\* Updates of a row that is gone change nothing and report no error.
Update(k, new) == row' = IF Live(k) THEN [row EXCEPT ![k] = new] ELSE row

\* Too many attempts: the row is made to expire.  Nobody looks whether the
\* update was written.
VerifyExhaust(w) ==
  /\ pc[w] = "exhaust"
  /\ \/ Update(req[w].row, [row[req[w].row] EXCEPT !.exp = req[w].at - 1])
     \/ UNCHANGED row
  /\ Answer(w)
  /\ UNCHANGED <<now, limiterVars, users, umsVars, vids, told, history>>

\* Wrong code: one more than the number of attempts read before.  Nor here: a
\* refused update leaves the guess uncounted.
VerifyCount(w) ==
  /\ pc[w] = "count"
  /\ LET k == req[w].row IN
     \/ Update(k, [row[k] EXCEPT !.attempts = req[w].attempts + 1]) /\ UNCHANGED guesses
     \/ guesses' = [guesses EXCEPT ![k] = @ - 1] /\ UNCHANGED row
  /\ Answer(w)
  /\ UNCHANGED <<now, limiterVars, users, umsVars, vids, told, raced, made>>

\* Right code, first time: a new id is stored and returned, or an error.
VerifyConfirm(w) ==
  /\ pc[w] = "confirm"
  /\ \/ /\ vids < 2 * MaxRows
        /\ vids' = vids + 1
        /\ Update(req[w].row, [row[req[w].row] EXCEPT !.vid = vids + 1])
        /\ told' = told \cup {<<vids + 1, req[w].row>>}
     \/ UNCHANGED <<row, told, vids>>
  /\ Answer(w)
  /\ UNCHANGED <<now, limiterVars, users, umsVars, history>>

-----------------------------------------------------------------------------
(* Passkey registration and login.                                         *)

\* LookupVerification's and ConsumeVerification's condition.
Usable(v, k) == v # 0 /\ Live(k) /\ row[k].vid = v /\ row[k].exp > now

\* The user of a session invites a passkey user.
InviteUser(p) ==
  /\ pk[p] = "free"
  /\ pk' = [pk EXCEPT ![p] = "invited"]
  /\ UNCHANGED <<now, limiterVars, dbVars, orphans, pc, req, vids, told, history>>

\* The id is looked up, not consumed; UMS gives an invitation and its options.
RegistrationBegin(w, v, p) ==
  /\ pc[w] = "idle" /\ pk[p] = "free"
  /\ IF \E k \in Rows : Usable(v, k)
     THEN pk' = [pk EXCEPT ![p] = "invited"] ELSE UNCHANGED pk
  /\ UNCHANGED <<now, dbVars, orphans, pc, req, vids, told, history>>

\* UMS verifies the credential first: the passkey exists from here on.
RegistrationVerify(w, v, p) ==
  /\ pc[w] = "idle" /\ pk[p] = "invited"
  /\ pk' = [pk EXCEPT ![p] = "registered"]
  /\ Goto(w, "create", [NoReq EXCEPT !.vid = v, !.pk = p])
  /\ UNCHANGED <<now, dbVars, orphans, vids, told, history>>

Full == MaxUsers > 0 /\ Cardinality(users) >= MaxUsers

KnownPasskey(p) == \E u \in users : u.passkey = p

\* The id looked up again but the row left in place.
Consume_Keeps(v, k) == Usable(v, k) /\ UNCHANGED row

\* Read and delete in the caller's transaction.
Consume(v, k) == Usable(v, k) /\ row' = [row EXCEPT ![k].state = "deleted"]

\* The bug of a registration that goes on without the address when the id is
\* no longer good.
RegistrationCreate_Lenient(w) ==
  /\ pc[w] = "create"
  /\ ~Full /\ ~KnownPasskey(req[w].pk)
  /\ IF \E k \in Rows : Usable(req[w].vid, k)
     THEN \E k \in Rows :
            /\ Consume(req[w].vid, k)
            /\ ~Taken(row[k].email)
            /\ users' = users \cup {[email |-> row[k].email, passkey |-> req[w].pk]}
            /\ made' = made \cup {<<k, req[w].pk>>}
     ELSE users' = users \cup {[email |-> None, passkey |-> req[w].pk]} /\ UNCHANGED <<row, made>>
  /\ Answer(w)
  /\ UNCHANGED <<now, limiterVars, umsVars, vids, told, guesses, raced>>

\* The transaction: room for a user, the id consumed, both unique indexes.
RegistrationCreate(w) ==
  /\ pc[w] = "create"
  /\ LET p == req[w].pk IN
     \/ /\ ~Full /\ ~KnownPasskey(p)
        /\ \E k \in Rows :
             /\ Consume(req[w].vid, k)
             /\ ~Taken(row[k].email)
             /\ users' = users \cup {[email |-> row[k].email, passkey |-> p]}
             /\ made' = made \cup {<<k, p>>}
        /\ UNCHANGED orphans
     \/ orphans' = orphans \cup {p} /\ UNCHANGED <<row, users, made>>
  /\ Answer(w)
  /\ UNCHANGED <<now, limiterVars, pk, vids, told, guesses, raced>>

\* Login: UMS vouches for the passkey; without a local user one is created.
PasskeyVerify(w, p) ==
  /\ pc[w] = "idle"
  /\ pk[p] = "registered" /\ ~KnownPasskey(p)
  /\ Goto(w, "login", [NoReq EXCEPT !.pk = p])
  /\ UNCHANGED <<now, limiterVars, dbVars, umsVars, vids, told, history>>

\* A registration of the passkey is past UMS and before its transaction.
Registering(p) == \E v \in Workers : pc[v] = "create" /\ req[v].pk = p

\* The transaction: room for a user, the unique index on the passkey.
LoginCreate(w) ==
  /\ pc[w] = "login"
  /\ LET p == req[w].pk IN
     \/ /\ ~Full /\ ~KnownPasskey(p)
        /\ users' = users \cup {[email |-> None, passkey |-> p]}
        /\ orphans' = IF Registering(p) THEN orphans \cup {p} ELSE orphans
     \/ UNCHANGED <<users, orphans>>
  /\ Answer(w)
  /\ UNCHANGED <<now, limiterVars, row, pk, vids, told, history>>

\* A login has found no user for the passkey and not created one yet.
LoggingIn(p) == \E v \in Workers : pc[v] = "login" /\ req[v].pk = p

\* DeleteAccount (module Accounts) removes the user, then the passkey of UMS
\* if that succeeds.
DeleteUser(u) ==
  /\ u \in users
  /\ users' = users \ {u}
  /\ \E left \in BOOLEAN :
       /\ pk' = IF left THEN pk ELSE [pk EXCEPT ![u.passkey] = "deleted"]
       /\ orphans' = IF left \/ LoggingIn(u.passkey) THEN orphans \cup {u.passkey} ELSE orphans
  /\ UNCHANGED <<now, limiterVars, row, pc, req, vids, told, history>>

\* A request past the limiter that ends before it writes anything: malformed,
\* no pending code, UMS refuses, the database or the mail server fails.
Rejected == UNCHANGED <<now, regVars>>

-----------------------------------------------------------------------------
ClientVids == {t[1] : t \in told} \cup {0}

Endpoint(w) ==
  \/ \E e \in Emails : SendCode(w, e)
  \/ \E e \in Emails, k \in Rows, right \in BOOLEAN : VerifyCode(w, e, k, right)
  \/ \E v \in ClientVids, p \in Passkeys :
       RegistrationBegin(w, v, p) \/ RegistrationVerify(w, v, p)

Next ==
  \/ Tick /\ UNCHANGED regVars
  \/ Cleanup /\ UNCHANGED <<now, regVars>>
  \/ \E ip \in Keys : Refuse(ip) /\ UNCHANGED <<now, regVars>>
  \/ \E ip \in Keys : Admit(ip) /\ (Rejected \/ \E w \in Workers : Endpoint(w))
  \/ \E w \in Workers :
       \/ SendCooldown(w) \/ SendSweep(w) \/ SendInsert(w)
       \/ VerifyExhaust(w) \/ VerifyCount(w) \/ VerifyConfirm(w)
       \/ RegistrationCreate(w) \/ LoginCreate(w)
       \/ \E p \in Passkeys : PasskeyVerify(w, p)
  \/ \E p \in Passkeys : InviteUser(p)
  \/ \E u \in users : DeleteUser(u)

Spec == Init /\ [][Next]_vars

-----------------------------------------------------------------------------
(* Properties.                                                             *)

\* A code is compared with at most MaxAttempts wrong guesses, besides those
\* whose count the database refused to write (the handler does not look), unless
\* two verifications of the same row overlapped: the counter is read and
\* written in two statements, so that overlapping guesses are not all counted.
GuessesBounded == \A k \in Rows : guesses[k] > MaxAttempts => k \in raced

\* A verification id that a client was given stays the row's id for as long as
\* the row lives, so that the passkey ceremony can be repeated, unless two
\* verifications of the row overlapped.
VidStable == \A t \in told : Live(t[2]) /\ t[2] \notin raced => row[t[2]].vid = t[1]

\* A mailed code makes at most one user, ever, and every user with an address
\* comes from a code that was mailed to it.
CodeServesOnce ==
  /\ \A s, t \in made : s[1] = t[1] => s = t
  /\ \A u \in users : u.email # None =>
       \E k \in Rows : <<k, u.passkey>> \in made /\ row[k].email = u.email

\* A user without an address is one whose registration UMS completed and the
\* wallet did not, whose login overtook the registration or ran across the
\* deletion of the account, or whose deletion left the passkey behind.
EmaillessExplained == \A u \in users : u.email = None => u.passkey \in orphans
=============================================================================
