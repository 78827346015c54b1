-------------------------- MODULE Registration_proofs --------------------------
(***************************************************************************)
(* What a mailed code can do, and where users without an address come      *)
(* from, for any number of requests, addresses, codes and passkeys.        *)
(*                                                                         *)
(* A row that no two verifications held at the same time is counted and    *)
(* verified as if the verifications were atomic (HoldInv, GuessInv,        *)
(* VidInv); a consumed row stays deleted (MadeInv); and a passkey that can *)
(* log in has its user, is being registered, or is on record as an orphan  *)
(* (SafeInv).  The limiter plays no part in this; that it bounds the       *)
(* requests of a window is proved in the last section.                     *)
(***************************************************************************)
EXTENDS Registration, SequenceTheorems, FiniteSetTheorems, WellFoundedInduction, TLAPS

USE DEF dbVars, umsVars, history, Answer, Live

RowType == [state : {"none", "live", "deleted"}, email : Emails \cup {None},
            sent : Int, exp : Int, attempts : Nat, vid : Nat]
ReqType == [email : Emails \cup {None}, at : Int, row : Nat, attempts : Nat, vid : Nat,
            pk : Passkeys \cup {None}]
Labels  == {"idle", "cooldown", "sweep", "insert", "exhaust", "count", "confirm", "create", "login"}
Writing == {"exhaust", "count", "confirm"}

RegType ==
  /\ now \in Int
  /\ row \in [Rows -> RowType]
  /\ users \subseteq [email : Emails \cup {None}, passkey : Passkeys]
  /\ pk \in [Passkeys -> {"free", "invited", "registered", "deleted"}]
  /\ pc \in [Workers -> Labels]
  /\ req \in [Workers -> ReqType]
  /\ vids \in Nat
  /\ told \subseteq (Nat \ {0}) \X Rows
  /\ guesses \in [Rows -> Int]
  /\ raced \subseteq Rows
  /\ made \subseteq Rows \X Passkeys
  /\ orphans \subseteq Passkeys

\* What a request carries at its label, and what rows carry.
LocalInv ==
  /\ \A w \in Workers : pc[w] \in Writing =>
       req[w].row \in Rows /\ row[req[w].row].state # "none"
  /\ \A w \in Workers : pc[w] \in {"cooldown", "sweep", "insert"} => req[w].email \in Emails
  /\ \A w \in Workers : pc[w] \in {"create", "login"} => req[w].pk \in Passkeys
  /\ \A k \in Rows : row[k].state = "none" => row[k] = NoRow
  /\ \A k \in Rows : Live(k) => row[k].email \in Emails

\* Two verifications that hold a row at the same time have raced; without a
\* race the number of attempts read is still the row's.
HoldInv ==
  /\ \A v, w \in Workers :
       pc[v] \in Writing /\ pc[w] \in Writing /\ req[v].row = req[w].row /\ v # w =>
         req[v].row \in raced
  /\ \A w \in Workers :
       pc[w] = "count" /\ req[w].row \notin raced /\ Live(req[w].row) =>
         row[req[w].row].attempts = req[w].attempts

\* Without a race the counter is exact, give or take the guess being counted.
GuessInv ==
  /\ \A k \in Rows : row[k].state = "none" => guesses[k] = 0
  /\ \A k \in Rows \ raced :
       /\ guesses[k] <= MaxAttempts
       /\ \A w \in Workers :
            pc[w] = "count" /\ req[w].row = k => guesses[k] = req[w].attempts + 1
       /\ Live(k) /\ (\A w \in Workers : pc[w] = "count" => req[w].row # k) =>
            guesses[k] = row[k].attempts

\* Without a race the id is made once.
VidInv ==
  /\ \A t \in told : row[t[2]].state # "none"
  /\ \A w \in Workers : pc[w] = "confirm" /\ req[w].row \notin raced =>
       \A t \in told : t[2] # req[w].row
  /\ VidStable

\* A consumed row stays where it is, deleted.
MadeInv == CodeServesOnce /\ \A t \in made : row[t[1]].state = "deleted"

Safe(p) == KnownPasskey(p) \/ p \in orphans \/ Registering(p)

\* A passkey that can log in, or is about to, is accounted for.
SafeInv ==
  /\ \A p \in Passkeys : pk[p] = "registered" => Safe(p)
  /\ \A w \in Workers : pc[w] = "login" => Safe(req[w].pk)
  /\ EmaillessExplained

RegInv == RegType /\ LocalInv /\ HoldInv /\ GuessInv /\ VidInv /\ MadeInv /\ SafeInv

-----------------------------------------------------------------------------
(* Frames: what the parts of the invariant depend on.                      *)

\* One request moves on.
LEMMA Move ==
  ASSUME RegType, NEW w \in Workers, NEW label \in Labels, NEW l \in ReqType, Goto(w, label, l)
  PROVE  /\ pc' \in [Workers -> Labels] /\ req' \in [Workers -> ReqType]
         /\ pc'[w] = label /\ req'[w] = l
         /\ \A v \in Workers : v # w => pc'[v] = pc[v] /\ req'[v] = req[v]
<1>1. pc' = [pc EXCEPT ![w] = label] /\ req' = [req EXCEPT ![w] = l]
  BY DEF Goto
<1> QED
  BY <1>1 DEF RegType

\* The local variables a request starts with.
LEMMA Locals ==
  /\ NoReq \in ReqType
  /\ NoRow \in RowType
  /\ NoRow.state = "none" /\ NoRow.attempts = 0 /\ NoRow.vid = 0
  BY DEF NoReq, NoRow, ReqType, RowType

\* Rows may go and may expire; nothing else happens to them.
RowsKept ==
  \A k \in Rows :
    /\ row'[k].state = "none" <=> row[k].state = "none"
    /\ row[k].state = "none" => row'[k] = row[k]
    /\ row'[k].state = "live" => row[k].state = "live"
    /\ row'[k].attempts = row[k].attempts /\ row'[k].vid = row[k].vid
    /\ row'[k].email = row[k].email

\* No request comes to hold a row, and none stops counting.
HoldersKept ==
  \A v \in Workers :
    /\ pc'[v] \in Writing => pc'[v] = pc[v] /\ req'[v] = req[v]
    /\ pc[v] = "count" => pc'[v] = "count"

\* Rows that are as they were satisfy RowsKept.
LEMMA SameRows == row' = row => RowsKept
  BY DEF RowsKept

\* The verifications are not concerned.
LEMMA VerifyFrame ==
  ASSUME RegInv, RowsKept, HoldersKept, UNCHANGED <<guesses, raced, told>>
  PROVE  HoldInv' /\ GuessInv' /\ VidInv'
<1> USE DEF RegInv
<1>1. HoldInv'
  <2>1. \A v \in Workers : pc'[v] = "count" =>
          pc[v] = "count" /\ req'[v] = req[v] /\ req[v].row \in Rows
    BY DEF HoldersKept, LocalInv, Writing
  <2> QED
    BY <2>1 DEF HoldInv, HoldersKept, RowsKept
<1>2. GuessInv'
  <2>1. \A k \in Rows : row'[k].state = "none" => guesses'[k] = 0
    BY DEF GuessInv, RowsKept
  <2> SUFFICES ASSUME NEW k \in Rows \ raced
               PROVE  /\ guesses[k] <= MaxAttempts
                      /\ \A v \in Workers :
                           pc'[v] = "count" /\ req'[v].row = k => guesses[k] = req'[v].attempts + 1
                      /\ row'[k].state = "live"
                         /\ (\A v \in Workers : pc'[v] = "count" => req'[v].row # k) =>
                           guesses[k] = row'[k].attempts
    BY <2>1 DEF GuessInv
  <2>2. \A v \in Workers : (pc'[v] = "count" <=> pc[v] = "count")
                           /\ (pc'[v] = "count" => req'[v] = req[v])
    BY DEF HoldersKept, Writing
  <2> QED
    BY <2>2 DEF GuessInv, RowsKept
<1>3. VidInv'
  <2>1. \A t \in told : t[2] \in Rows
    BY DEF RegType
  <2>2. \A t \in told : row'[t[2]].state # "none"
    BY <2>1 DEF VidInv, RowsKept
  <2>3. \A v \in Workers : pc'[v] = "confirm" => pc[v] = "confirm" /\ req'[v] = req[v]
    BY DEF HoldersKept, Writing
  <2>4. VidStable'
    BY <2>1 DEF VidInv, VidStable, RowsKept
  <2> QED
    BY <2>2, <2>3, <2>4 DEF VidInv
<1> QED
  BY <1>1, <1>2, <1>3

\* Requests that do not come to hold a row, and rows that are kept.
LEMMA LocalFrame ==
  ASSUME RegInv, RowsKept, HoldersKept,
         \A v \in Workers : pc'[v] \in {"cooldown", "sweep", "insert"} => req'[v].email \in Emails,
         \A v \in Workers : pc'[v] \in {"create", "login"} => req'[v].pk \in Passkeys
  PROVE  LocalInv'
<1>1. \A v \in Workers : pc'[v] \in Writing =>
        req'[v].row \in Rows /\ row'[req'[v].row].state # "none"
  BY DEF RegInv, LocalInv, RowsKept, HoldersKept
<1>2. /\ \A k \in Rows : row'[k].state = "none" => row'[k] = NoRow
      /\ \A k \in Rows : row'[k].state = "live" => row'[k].email \in Emails
  BY DEF RegInv, LocalInv, RowsKept
<1> QED
  BY <1>1, <1>2 DEF LocalInv

\* Users may go.
LEMMA MadeFrame ==
  ASSUME RegInv, RowsKept, row' \in [Rows -> RowType], users' \subseteq users, made' = made
  PROVE  MadeInv'
<1> USE DEF RegInv
<1>1. \A t \in made : t[1] \in Rows /\ row'[t[1]].state = "deleted"
  <2> SUFFICES ASSUME NEW t \in made
               PROVE  t[1] \in Rows /\ row'[t[1]].state = "deleted"
    OBVIOUS
  <2>1. t[1] \in Rows /\ row[t[1]].state = "deleted"
    BY DEF RegType, MadeInv
  <2> QED
    BY <2>1 DEF RowsKept, RowType
<1>2. \A s, t \in made : s[1] = t[1] => s = t
  BY DEF MadeInv, CodeServesOnce
<1>3. \A u \in users' : u.email # None =>
        \E k \in Rows : <<k, u.passkey>> \in made /\ row'[k].email = u.email
  BY DEF MadeInv, CodeServesOnce, RowsKept
<1> QED
  BY <1>1, <1>2, <1>3 DEF MadeInv, CodeServesOnce

\* Passkeys stay accounted for.
LEMMA StillSafe ==
  ASSUME users \subseteq users', orphans \subseteq orphans',
         \A v \in Workers : pc[v] = "create" => pc'[v] = "create" /\ req'[v] = req[v],
         NEW p, Safe(p)
  PROVE  Safe(p)'
  BY DEF Safe, KnownPasskey, Registering

\* Neither users nor passkeys are concerned.
LEMMA SafeFrame ==
  ASSUME RegInv, users' = users, orphans' = orphans,
         \A p \in Passkeys : pk'[p] = "registered" => pk[p] = "registered",
         \A v \in Workers : pc[v] = "create" => pc'[v] = "create" /\ req'[v] = req[v],
         \A v \in Workers : pc'[v] = "login" => pc[v] = "login" /\ req'[v] = req[v]
  PROVE  SafeInv'
<1>1. \A p \in Passkeys : pk'[p] = "registered" => Safe(p)'
  BY StillSafe DEF RegInv, SafeInv
<1>2. \A v \in Workers : pc'[v] = "login" => Safe(req[v].pk)'
  BY StillSafe DEF RegInv, SafeInv
<1>3. \A v \in Workers : pc'[v] = "login" => req'[v] = req[v]
  OBVIOUS
<1>4. \A v \in Workers : pc'[v] = "login" => Safe(req[v].pk)' /\ req'[v].pk = req[v].pk
  BY <1>2, <1>3
<1>5. \A v \in Workers : (pc[v] = "login" => Safe(req[v].pk))'
  BY <1>4 DEF Safe, KnownPasskey, Registering
<1>6. EmaillessExplained'
  BY DEF RegInv, SafeInv, EmaillessExplained
<1> QED
  BY <1>1, <1>5, <1>6 DEF SafeInv

-----------------------------------------------------------------------------
(* One lemma per action.                                                   *)

\* A request for a code begins, or ends.
LEMMA SendCodePreserves ==
  ASSUME RegInv, NEW w \in Workers, NEW e \in Emails, SendCode(w, e)
  PROVE  RegInv'
<1> USE DEF RegInv
<1>0. pc[w] \notin Writing \cup {"create", "login"}
  BY DEF SendCode, Writing
<1>1. \E label \in {"idle", "cooldown"}, l \in ReqType :
        /\ Goto(w, label, l)
        /\ label # "idle" => l.email \in Emails
  <2>1. [NoReq EXCEPT !.email = e] \in ReqType /\ [NoReq EXCEPT !.email = e].email = e
    BY DEF NoReq, ReqType
  <2> QED
    BY <2>1, Locals DEF SendCode
<1>2. PICK label \in Labels, l \in ReqType :
        /\ Goto(w, label, l) /\ label \notin Writing \cup {"create", "login"}
        /\ label # "idle" => l.email \in Emails
  BY <1>1 DEF Labels, Writing
<1>3. /\ pc' \in [Workers -> Labels] /\ req' \in [Workers -> ReqType]
      /\ pc'[w] = label /\ req'[w] = l
      /\ \A v \in Workers : v # w => pc'[v] = pc[v] /\ req'[v] = req[v]
  BY <1>2, Move
<1>4. RegType'
  BY <1>3 DEF RegType, SendCode
<1>5. LocalInv'
  BY <1>2, <1>3 DEF RegType, LocalInv, Writing, SendCode
<1>6. HoldersKept
  BY <1>0, <1>2, <1>3 DEF HoldersKept, Writing
<1>7. RowsKept /\ HoldInv' /\ GuessInv' /\ VidInv'
  BY <1>6, SameRows, VerifyFrame DEF SendCode
<1>8. MadeInv'
  BY <1>7, MadeFrame DEF RegType, SendCode
<1>9. SafeInv'
  BY <1>0, <1>2, <1>3, SafeFrame DEF Labels, SendCode
<1> QED
  BY <1>4, <1>5, <1>7, <1>8, <1>9 DEF RegInv

\* The cooldown is only read.
LEMMA SendCooldownPreserves ==
  ASSUME RegInv, NEW w \in Workers, SendCooldown(w)
  PROVE  RegInv'
<1> USE DEF RegInv
<1>0. pc[w] \notin Writing \cup {"create", "login"}
  BY DEF SendCooldown, Writing
<1>1. \E label \in {"idle", "sweep"}, l \in ReqType :
        /\ Goto(w, label, l)
        /\ label # "idle" => l.email \in Emails
  <2>1. req[w] \in ReqType /\ req[w].email \in Emails /\ now \in Int
    BY DEF RegType, LocalInv, SendCooldown
  <2>2. [req[w] EXCEPT !.at = now] \in ReqType /\ [req[w] EXCEPT !.at = now].email = req[w].email
    BY <2>1 DEF ReqType
  <2> QED
    BY <2>1, <2>2, Locals DEF SendCooldown
<1>2. PICK label \in Labels, l \in ReqType :
        /\ Goto(w, label, l) /\ label \notin Writing \cup {"create", "login"}
        /\ label # "idle" => l.email \in Emails
  BY <1>1 DEF Labels, Writing
<1>3. /\ pc' \in [Workers -> Labels] /\ req' \in [Workers -> ReqType]
      /\ pc'[w] = label /\ req'[w] = l
      /\ \A v \in Workers : v # w => pc'[v] = pc[v] /\ req'[v] = req[v]
  BY <1>2, Move
<1>4. RegType'
  BY <1>3 DEF RegType, SendCooldown
<1>5. LocalInv'
  BY <1>2, <1>3 DEF RegType, LocalInv, Writing, SendCooldown
<1>6. HoldersKept
  BY <1>0, <1>2, <1>3 DEF HoldersKept, Writing
<1>7. RowsKept /\ HoldInv' /\ GuessInv' /\ VidInv'
  BY <1>6, SameRows, VerifyFrame DEF SendCooldown
<1>8. MadeInv'
  BY <1>7, MadeFrame DEF RegType, SendCooldown
<1>9. SafeInv'
  BY <1>0, <1>2, <1>3, SafeFrame DEF Labels, SendCooldown
<1> QED
  BY <1>4, <1>5, <1>7, <1>8, <1>9 DEF RegInv

\* Expired rows go.
LEMMA SendSweepPreserves ==
  ASSUME RegInv, NEW w \in Workers, SendSweep(w)
  PROVE  RegInv'
<1> USE DEF RegInv
<1>1. req[w] \in ReqType /\ req[w].email \in Emails /\ pc[w] = "sweep"
  BY DEF RegType, LocalInv, SendSweep
<1>2. /\ pc' \in [Workers -> Labels] /\ req' \in [Workers -> ReqType]
      /\ (pc'[w] = "insert" /\ req'[w] = req[w]) \/ pc'[w] = "idle"
      /\ \A v \in Workers : v # w => pc'[v] = pc[v] /\ req'[v] = req[v]
  <2>1. "insert" \in Labels /\ "idle" \in Labels
    BY DEF Labels
  <2>2. Goto(w, "insert", req[w]) \/ Goto(w, "idle", NoReq)
    BY DEF SendSweep
  <2> QED
    BY <1>1, <2>1, <2>2, Move, Locals
<1>3. row' \in [Rows -> RowType] /\ RowsKept
  <2>1. \A k \in Rows : row[k] \in RowType /\ [row[k] EXCEPT !.state = "deleted"] \in RowType
    BY DEF RegType, RowType
  <2>2. CASE row' = row
    BY <2>2, SameRows DEF RegType
  <2>3. CASE row' = [k \in Rows |->
               IF Live(k) /\ row[k].email = req[w].email /\ row[k].exp <= req[w].at
               THEN [row[k] EXCEPT !.state = "deleted"] ELSE row[k]]
    <3>1. \A k \in Rows : row'[k] = row[k]
            \/ (row[k].state = "live" /\ row'[k] = [row[k] EXCEPT !.state = "deleted"])
      BY <2>3
    <3>2. row' \in [Rows -> RowType]
      BY <2>1, <2>3
    <3> QED
      BY <2>1, <3>1, <3>2 DEF RowsKept, RowType
  <2> QED
    BY <2>2, <2>3 DEF SendSweep
<1>4. RegType'
  BY <1>2, <1>3 DEF RegType, SendSweep
<1>5. HoldersKept
  BY <1>1, <1>2 DEF HoldersKept, Writing
<1>6. LocalInv'
  BY <1>1, <1>2, <1>3, <1>5, LocalFrame DEF LocalInv
<1>7. HoldInv' /\ GuessInv' /\ VidInv'
  BY <1>3, <1>5, VerifyFrame DEF SendSweep
<1>8. MadeInv'
  BY <1>3, MadeFrame DEF SendSweep
<1>9. SafeInv'
  BY <1>1, <1>2, SafeFrame DEF SendSweep
<1> QED
  BY <1>4, <1>6, <1>7, <1>8, <1>9 DEF RegInv

\* A new row, or none.
LEMMA SendInsertPreserves ==
  ASSUME RegInv, NEW w \in Workers, SendInsert(w)
  PROVE  RegInv'
<1> USE DEF RegInv
<1>1. pc[w] = "insert" /\ req[w] \in ReqType /\ req[w].email \in Emails
  BY DEF RegType, LocalInv, SendInsert
<1>2. /\ pc' \in [Workers -> Labels] /\ req' \in [Workers -> ReqType]
      /\ pc'[w] = "idle" /\ req'[w] = NoReq
      /\ \A v \in Workers : v # w => pc'[v] = pc[v] /\ req'[v] = req[v]
  BY Move, Locals DEF SendInsert, Labels
<1>3. HoldersKept
  BY <1>1, <1>2 DEF HoldersKept, Writing
<1>4. SafeInv'
  BY <1>1, <1>2, SafeFrame DEF SendInsert
<1>5. CASE row' = row
  <2>1. RegType'
    BY <1>2, <1>5 DEF RegType, SendInsert
  <2>2. RowsKept
    BY <1>5, SameRows
  <2>3. HoldInv' /\ GuessInv' /\ VidInv'
    BY <2>2, <1>3, VerifyFrame DEF SendInsert
  <2>4. MadeInv'
    BY <2>2, <1>5, MadeFrame DEF RegType, SendInsert
  <2>5. LocalInv'
    BY <2>2, <1>2, <1>3, LocalFrame DEF LocalInv
  <2> QED
    BY <2>1, <2>3, <2>4, <2>5, <1>4
<1>6. ASSUME NEW k \in Rows, row[k] = NoRow,
             row' = [row EXCEPT ![k] =
               [NoRow EXCEPT !.state = "live", !.email = req[w].email,
                             !.sent = req[w].at, !.exp = req[w].at + CodeTTL]]
      PROVE  RegInv'
  <2>1. /\ row' \in [Rows -> RowType]
        /\ row'[k].state = "live" /\ row'[k].email = req[w].email
        /\ row'[k].attempts = 0 /\ row'[k].vid = 0
        /\ \A j \in Rows : j # k => row'[j] = row[j]
    <3> DEFINE new == [NoRow EXCEPT !.state = "live", !.email = req[w].email,
                                    !.sent = req[w].at, !.exp = req[w].at + CodeTTL]
    <3>1. req[w].at \in Int /\ req[w].at + CodeTTL \in Int
      BY <1>1, RegistrationAssumption DEF ReqType
    <3>2. new \in RowType /\ new.state = "live" /\ new.email = req[w].email
          /\ new.attempts = 0 /\ new.vid = 0
      BY <3>1, <1>1 DEF RowType, NoRow
    <3>3. row' = [row EXCEPT ![k] = new]
      BY <1>6
    <3> HIDE DEF new
    <3> QED
      BY <3>2, <3>3 DEF RegType
  <2>2. row[k].state = "none" /\ guesses[k] = 0
    BY <1>6, Locals DEF GuessInv
  <2>3. RegType'
    BY <1>2, <2>1 DEF RegType, SendInsert
  <2>4. \A v \in Workers : pc[v] \in Writing => req[v].row # k
    BY <2>2 DEF LocalInv
  <2>5. LocalInv'
    <3>1. \A v \in Workers : pc'[v] \in Writing =>
            req'[v].row \in Rows /\ row'[req'[v].row].state # "none"
      BY <1>3, <2>1, <2>4 DEF LocalInv, HoldersKept
    <3>2. /\ \A v \in Workers :
               pc'[v] \in {"cooldown", "sweep", "insert"} => req'[v].email \in Emails
          /\ \A v \in Workers : pc'[v] \in {"create", "login"} => req'[v].pk \in Passkeys
      BY <1>2 DEF LocalInv
    <3>3. /\ \A j \in Rows : row'[j].state = "none" => row'[j] = NoRow
          /\ \A j \in Rows : row'[j].state = "live" => row'[j].email \in Emails
      BY <1>1, <2>1 DEF LocalInv
    <3> QED
      BY <3>1, <3>2, <3>3 DEF LocalInv
  <2>6. HoldInv'
    <3>1. \A v \in Workers : pc'[v] = "count" =>
            /\ pc[v] = "count" /\ req'[v] = req[v] /\ req[v].row \in Rows
            /\ row'[req[v].row] = row[req[v].row]
      BY <1>3, <2>1, <2>4 DEF HoldersKept, LocalInv, Writing
    <3> QED
      BY <1>3, <3>1 DEF HoldInv, HoldersKept, SendInsert
  <2>7. GuessInv'
    <3>1. UNCHANGED <<guesses, raced>>
      BY DEF SendInsert
    <3>2. \A v \in Workers : (pc'[v] = "count" <=> pc[v] = "count")
                             /\ (pc'[v] = "count" => req'[v] = req[v])
      BY <1>3 DEF HoldersKept, Writing
    <3>3. \A v \in Workers : pc'[v] = "count" => req'[v].row # k
      BY <3>2, <2>4 DEF Writing
    <3>4. \A j \in Rows : row'[j].state = "none" => guesses'[j] = 0
      BY <2>1, <3>1 DEF GuessInv
    <3> SUFFICES ASSUME NEW j \in Rows \ raced
                 PROVE  /\ guesses[j] <= MaxAttempts
                        /\ \A v \in Workers : pc'[v] = "count" /\ req'[v].row = j =>
                             guesses[j] = req'[v].attempts + 1
                        /\ row'[j].state = "live"
                           /\ (\A v \in Workers : pc'[v] = "count" => req'[v].row # j) =>
                             guesses[j] = row'[j].attempts
      BY <3>1, <3>4 DEF GuessInv
    <3>5. CASE j = k
      BY <3>3, <3>5, <2>1, <2>2, RegistrationAssumption
    <3>6. CASE j # k
      BY <3>2, <3>6, <2>1 DEF GuessInv
    <3> QED
      BY <3>5, <3>6
  <2>8. VidInv'
    <3>1. UNCHANGED <<told, raced>>
      BY DEF SendInsert
    <3>2. \A t \in told : t[2] \in Rows /\ t[2] # k
      BY <2>2 DEF RegType, VidInv
    <3>3. \A v \in Workers : pc'[v] = "confirm" => pc[v] = "confirm" /\ req'[v] = req[v]
      BY <1>3 DEF HoldersKept, Writing
    <3>4. VidStable'
      BY <2>1, <3>1, <3>2 DEF VidInv, VidStable
    <3> QED
      BY <2>1, <3>1, <3>2, <3>3, <3>4 DEF VidInv
  <2>9. MadeInv'
    <3>1. UNCHANGED <<users, made>>
      BY DEF SendInsert
    <3>2. \A t \in made : t[1] \in Rows /\ t[1] # k /\ row'[t[1]] = row[t[1]]
      BY <2>1, <2>2 DEF RegType, MadeInv
    <3>3. \A u \in users : u.email # None =>
            \E j \in Rows : <<j, u.passkey>> \in made /\ row'[j].email = u.email
      <4> SUFFICES ASSUME NEW u \in users, u.email # None
                   PROVE  \E j \in Rows : <<j, u.passkey>> \in made /\ row'[j].email = u.email
        OBVIOUS
      <4>1. PICK j \in Rows : <<j, u.passkey>> \in made /\ row[j].email = u.email
        BY DEF MadeInv, CodeServesOnce
      <4>2. row'[j] = row[j]
        BY <4>1, <3>2
      <4> QED
        BY <4>1, <4>2
    <3> QED
      BY <3>1, <3>2, <3>3 DEF MadeInv, CodeServesOnce
  <2> QED
    BY <1>4, <2>3, <2>5, <2>6, <2>7, <2>8, <2>9
<1> QED
  BY <1>5, <1>6 DEF SendInsert

\* UMS knows one more passkey user.
LEMMA InviteUserPreserves ==
  ASSUME RegInv, NEW p \in Passkeys, InviteUser(p)
  PROVE  RegInv'
<1> USE DEF RegInv
<1>1. /\ pk' \in [Passkeys -> {"free", "invited", "registered", "deleted"}]
      /\ \A q \in Passkeys : pk'[q] = "registered" => pk[q] = "registered"
  BY DEF RegType, InviteUser
<1>2. UNCHANGED <<now, row, users, orphans, pc, req, vids, told, guesses, raced, made>>
  BY DEF InviteUser
<1>3. RegType'
  BY <1>1, <1>2 DEF RegType
<1>4. RowsKept /\ HoldersKept
  BY <1>2, SameRows DEF HoldersKept
<1>5. LocalInv'
  BY <1>2, <1>4, LocalFrame DEF LocalInv
<1>6. HoldInv' /\ GuessInv' /\ VidInv'
  BY <1>2, <1>4, VerifyFrame
<1>7. MadeInv'
  BY <1>2, <1>4, MadeFrame DEF RegType
<1>8. SafeInv'
  BY <1>1, <1>2, SafeFrame
<1> QED
  BY <1>3, <1>5, <1>6, <1>7, <1>8 DEF RegInv

\* The id is looked up; UMS knows one more passkey user.
LEMMA RegistrationBeginPreserves ==
  ASSUME RegInv, NEW w \in Workers, NEW v, NEW p \in Passkeys,
         RegistrationBegin(w, v, p)
  PROVE  RegInv'
<1> USE DEF RegInv
<1>1. /\ pk' \in [Passkeys -> {"free", "invited", "registered", "deleted"}]
      /\ \A q \in Passkeys : pk'[q] = "registered" => pk[q] = "registered"
  BY DEF RegType, RegistrationBegin
<1>2. UNCHANGED <<now, row, users, orphans, pc, req, vids, told, guesses, raced, made>>
  BY DEF RegistrationBegin
<1>3. RegType'
  BY <1>1, <1>2 DEF RegType
<1>4. RowsKept /\ HoldersKept
  BY <1>2, SameRows DEF HoldersKept
<1>5. LocalInv'
  BY <1>2, <1>4, LocalFrame DEF LocalInv
<1>6. HoldInv' /\ GuessInv' /\ VidInv'
  BY <1>2, <1>4, VerifyFrame
<1>7. MadeInv'
  BY <1>2, <1>4, MadeFrame DEF RegType
<1>8. SafeInv'
  BY <1>1, <1>2, SafeFrame
<1> QED
  BY <1>3, <1>5, <1>6, <1>7, <1>8 DEF RegInv

\* The passkey exists and its registration is under way.
LEMMA RegistrationVerifyPreserves ==
  ASSUME RegInv, NEW w \in Workers, NEW v \in Nat, NEW p \in Passkeys,
         RegistrationVerify(w, v, p)
  PROVE  RegInv'
<1> USE DEF RegInv
<1> DEFINE l == [NoReq EXCEPT !.vid = v, !.pk = p]
<1>0. l \in ReqType /\ l.pk = p
  <2> DEFINE m == [NoReq EXCEPT !.vid = v]
  <2>1. m \in ReqType
    BY DEF NoReq, ReqType
  <2>2. l = [m EXCEPT !.pk = p]
    OBVIOUS
  <2> HIDE DEF m, l
  <2> QED
    BY <2>1, <2>2 DEF ReqType
<1>1. pc[w] = "idle" /\ Goto(w, "create", l)
  BY DEF RegistrationVerify
<1> HIDE DEF l
<1>2. /\ pc' \in [Workers -> Labels] /\ req' \in [Workers -> ReqType]
      /\ pc'[w] = "create" /\ req'[w] = l
      /\ \A x \in Workers : x # w => pc'[x] = pc[x] /\ req'[x] = req[x]
  BY <1>0, <1>1, Move DEF Labels
<1>3. /\ pk' \in [Passkeys -> {"free", "invited", "registered", "deleted"}]
      /\ \A q \in Passkeys : q # p /\ pk'[q] = "registered" => pk[q] = "registered"
  BY DEF RegType, RegistrationVerify
<1>4. UNCHANGED <<now, row, users, orphans, vids, told, guesses, raced, made>>
  BY DEF RegistrationVerify
<1>5. RegType'
  BY <1>2, <1>3, <1>4 DEF RegType
<1>6. RowsKept /\ HoldersKept
  BY <1>1, <1>2, <1>4, SameRows DEF HoldersKept, Writing
<1>7. LocalInv'
  BY <1>0, <1>2, <1>6, LocalFrame DEF LocalInv
<1>8. HoldInv' /\ GuessInv' /\ VidInv'
  BY <1>4, <1>6, VerifyFrame
<1>9. MadeInv'
  BY <1>4, <1>6, MadeFrame DEF RegType
<1>10. SafeInv'
  <2>1. \A x \in Workers : pc[x] = "create" => pc'[x] = "create" /\ req'[x] = req[x]
    BY <1>1, <1>2
  <2>2. Registering(p)'
    BY <1>0, <1>2 DEF Registering
  <2>3. \A q \in Passkeys : pk'[q] = "registered" => Safe(q)'
    BY <1>3, <1>4, <2>1, <2>2, StillSafe DEF SafeInv, Safe
  <2>4. \A x \in Workers : pc'[x] = "login" => Safe(req[x].pk)' /\ req'[x] = req[x]
    BY <1>1, <1>2, <1>4, <2>1, StillSafe DEF SafeInv
  <2>5. \A x \in Workers : (pc[x] = "login" => Safe(req[x].pk))'
    BY <2>4 DEF Safe, KnownPasskey, Registering
  <2>6. EmaillessExplained'
    BY <1>4 DEF SafeInv, EmaillessExplained
  <2> QED
    BY <2>3, <2>5, <2>6 DEF SafeInv
<1> QED
  BY <1>5, <1>7, <1>8, <1>9, <1>10 DEF RegInv

\* A login of a passkey that is accounted for.
LEMMA PasskeyVerifyPreserves ==
  ASSUME RegInv, NEW w \in Workers, NEW p \in Passkeys, PasskeyVerify(w, p)
  PROVE  RegInv'
<1> USE DEF RegInv
<1> DEFINE l == [NoReq EXCEPT !.pk = p]
<1>0. l \in ReqType /\ l.pk = p
  BY DEF NoReq, ReqType
<1>1. pc[w] = "idle" /\ Goto(w, "login", l) /\ pk[p] = "registered"
  BY DEF PasskeyVerify
<1> HIDE DEF l
<1>2. /\ pc' \in [Workers -> Labels] /\ req' \in [Workers -> ReqType]
      /\ pc'[w] = "login" /\ req'[w] = l
      /\ \A v \in Workers : v # w => pc'[v] = pc[v] /\ req'[v] = req[v]
  BY <1>0, <1>1, Move DEF Labels
<1>4. UNCHANGED <<now, row, users, pk, orphans, vids, told, guesses, raced, made>>
  BY DEF PasskeyVerify
<1>5. RegType'
  BY <1>2, <1>4 DEF RegType
<1>6. RowsKept /\ HoldersKept
  BY <1>1, <1>2, <1>4, SameRows DEF HoldersKept, Writing
<1>7. LocalInv'
  BY <1>0, <1>2, <1>6, LocalFrame DEF LocalInv
<1>8. HoldInv' /\ GuessInv' /\ VidInv'
  BY <1>4, <1>6, VerifyFrame
<1>9. MadeInv'
  BY <1>4, <1>6, MadeFrame DEF RegType
<1>10. SafeInv'
  <2>1. \A x \in Workers : pc[x] = "create" => pc'[x] = "create" /\ req'[x] = req[x]
    BY <1>1, <1>2
  <2>2. \A q \in Passkeys : pk'[q] = "registered" => Safe(q)'
    BY <1>4, <2>1, StillSafe DEF SafeInv
  <2>3. \A x \in Workers : x # w /\ pc'[x] = "login" => Safe(req[x].pk)' /\ req'[x] = req[x]
    BY <1>1, <1>2, <1>4, <2>1, StillSafe DEF SafeInv
  <2>4. Safe(p)' /\ req'[w].pk = p
    BY <1>0, <1>1, <1>2, <1>4, <2>2
  <2>5. \A x \in Workers : (pc[x] = "login" => Safe(req[x].pk))'
    BY <2>3, <2>4 DEF Safe, KnownPasskey, Registering
  <2>6. EmaillessExplained'
    BY <1>4 DEF SafeInv, EmaillessExplained
  <2> QED
    BY <2>2, <2>5, <2>6 DEF SafeInv
<1> QED
  BY <1>5, <1>7, <1>8, <1>9, <1>10 DEF RegInv

\* A user without an address, for a passkey on record.
LEMMA LoginCreatePreserves ==
  ASSUME RegInv, NEW w \in Workers, LoginCreate(w)
  PROVE  RegInv'
<1> USE DEF RegInv
<1>1. pc[w] = "login" /\ req[w].pk \in Passkeys /\ Goto(w, "idle", NoReq)
  BY DEF LoginCreate, LocalInv
<1>2. /\ pc' \in [Workers -> Labels] /\ req' \in [Workers -> ReqType]
      /\ pc'[w] = "idle" /\ req'[w] = NoReq
      /\ \A v \in Workers : v # w => pc'[v] = pc[v] /\ req'[v] = req[v]
  BY <1>1, Move, Locals DEF Labels
<1>3. /\ UNCHANGED users \/ users' = users \cup {[email |-> None, passkey |-> req[w].pk]}
      /\ orphans' = orphans \/ orphans' = orphans \cup {req[w].pk}
      /\ users' # users => ~KnownPasskey(req[w].pk)
      /\ users' # users /\ Registering(req[w].pk) => req[w].pk \in orphans'
  BY DEF LoginCreate
<1>4. UNCHANGED <<now, row, pk, vids, told, guesses, raced, made>>
  BY DEF LoginCreate
<1>5. RegType'
  BY <1>1, <1>2, <1>3, <1>4 DEF RegType
<1>6. RowsKept /\ HoldersKept
  BY <1>1, <1>2, <1>4, SameRows DEF HoldersKept, Writing
<1>7. LocalInv'
  BY <1>2, <1>6, LocalFrame DEF LocalInv
<1>8. HoldInv' /\ GuessInv' /\ VidInv'
  BY <1>4, <1>6, VerifyFrame
<1>9. MadeInv'
  <2>1. \A t \in made : row'[t[1]].state = "deleted"
    BY <1>4 DEF MadeInv
  <2>2. \A u \in users' : u.email # None =>
          \E k \in Rows : <<k, u.passkey>> \in made /\ row[k].email = u.email
    <3>1. \A u \in users' : u.email # None => u \in users
      BY <1>3
    <3> QED
      BY <3>1 DEF MadeInv, CodeServesOnce
  <2> QED
    BY <1>4, <2>1, <2>2 DEF MadeInv, CodeServesOnce
<1>10. SafeInv'
  <2>1. \A x \in Workers : pc[x] = "create" => pc'[x] = "create" /\ req'[x] = req[x]
    BY <1>1, <1>2
  <2>2. users \subseteq users' /\ orphans \subseteq orphans'
    BY <1>3
  <2>3. \A q \in Passkeys : pk'[q] = "registered" => Safe(q)'
    BY <1>4, <2>1, <2>2, StillSafe DEF SafeInv
  <2>4. \A x \in Workers : pc'[x] = "login" => Safe(req[x].pk)' /\ req'[x] = req[x]
    BY <1>1, <1>2, <2>1, <2>2, StillSafe DEF SafeInv
  <2>5. \A x \in Workers : (pc[x] = "login" => Safe(req[x].pk))'
    BY <2>4 DEF Safe, KnownPasskey, Registering
  <2>6. users' # users => req[w].pk \in orphans'
    BY <1>1, <1>3 DEF SafeInv, Safe
  <2>7. EmaillessExplained'
    BY <1>3, <2>2, <2>6 DEF SafeInv, EmaillessExplained
  <2> QED
    BY <2>3, <2>5, <2>7 DEF SafeInv
<1> QED
  BY <1>5, <1>7, <1>8, <1>9, <1>10 DEF RegInv

\* A user goes, and the passkey with it or onto the record.
LEMMA DeleteUserPreserves ==
  ASSUME RegInv, NEW u \in users, DeleteUser(u)
  PROVE  RegInv'
<1> USE DEF RegInv
<1>1. u.passkey \in Passkeys /\ users' = users \ {u}
  BY DEF RegType, DeleteUser
<1>2. UNCHANGED <<now, row, pc, req, vids, told, guesses, raced, made>>
  BY DEF DeleteUser
<1>3. PICK left \in BOOLEAN :
        /\ pk' = IF left THEN pk ELSE [pk EXCEPT ![u.passkey] = "deleted"]
        /\ orphans' = IF left \/ LoggingIn(u.passkey) THEN orphans \cup {u.passkey} ELSE orphans
  BY DEF DeleteUser
<1>4. /\ pk' \in [Passkeys -> {"free", "invited", "registered", "deleted"}]
      /\ \A q \in Passkeys : pk'[q] = "registered" => pk[q] = "registered"
      /\ orphans \subseteq orphans' /\ orphans' \subseteq Passkeys
      /\ u.passkey \in orphans' \/ (pk'[u.passkey] = "deleted" /\ ~LoggingIn(u.passkey))
  BY <1>1, <1>3 DEF RegType
<1>5. RegType'
  BY <1>1, <1>2, <1>4 DEF RegType
<1>6. RowsKept /\ HoldersKept
  BY <1>2, SameRows DEF HoldersKept
<1>7. LocalInv'
  BY <1>2, <1>6, LocalFrame DEF LocalInv
<1>8. HoldInv' /\ GuessInv' /\ VidInv'
  BY <1>2, <1>6, VerifyFrame
<1>9. MadeInv'
  BY <1>1, <1>2, <1>6, MadeFrame DEF RegType
<1>10. SafeInv'
  <2>1. ASSUME NEW q \in Passkeys, q # u.passkey, Safe(q)
        PROVE  Safe(q)'
    BY <2>1, <1>1, <1>2, <1>4 DEF Safe, KnownPasskey, Registering
  <2>2. \A q \in Passkeys : pk'[q] = "registered" => Safe(q)'
    <3>1. u.passkey \in orphans' => Safe(u.passkey)'
      BY DEF Safe
    <3> QED
      BY <2>1, <3>1, <1>4 DEF SafeInv
  <2>3. \A x \in Workers : pc[x] = "login" => Safe(req[x].pk)'
    <3> SUFFICES ASSUME NEW x \in Workers, pc[x] = "login"
                 PROVE  Safe(req[x].pk)'
      OBVIOUS
    <3>1. req[x].pk \in Passkeys /\ Safe(req[x].pk)
      BY DEF LocalInv, SafeInv
    <3>2. CASE req[x].pk = u.passkey
      <4>1. LoggingIn(u.passkey)
        BY <3>2 DEF LoggingIn
      <4>2. req[x].pk \in orphans'
        BY <3>2, <4>1, <1>4
      <4>3. req'[x].pk = req[x].pk
        BY <1>2
      <4> QED
        BY <4>2, <4>3 DEF Safe
    <3>3. CASE req[x].pk # u.passkey
      BY <2>1, <3>1, <3>3, <1>2
    <3> QED
      BY <3>2, <3>3
  <2>4. \A x \in Workers : (pc[x] = "login" => Safe(req[x].pk))'
    BY <1>2, <2>3
  <2>5. EmaillessExplained'
    BY <1>1, <1>4 DEF SafeInv, EmaillessExplained
  <2> QED
    BY <2>2, <2>4, <2>5 DEF SafeInv
<1> QED
  BY <1>5, <1>7, <1>8, <1>9, <1>10 DEF RegInv

\* The row is made to expire.
LEMMA VerifyExhaustPreserves ==
  ASSUME RegInv, NEW w \in Workers, VerifyExhaust(w)
  PROVE  RegInv'
<1> USE DEF RegInv
<1> DEFINE k == req[w].row
           new == [row[k] EXCEPT !.exp = req[w].at - 1]
<1>1. pc[w] = "exhaust" /\ k \in Rows /\ req[w] \in ReqType
  BY DEF RegType, LocalInv, Writing, VerifyExhaust
<1>2. /\ pc' \in [Workers -> Labels] /\ req' \in [Workers -> ReqType]
      /\ pc'[w] = "idle" /\ req'[w] = NoReq
      /\ \A v \in Workers : v # w => pc'[v] = pc[v] /\ req'[v] = req[v]
  BY Move, Locals DEF VerifyExhaust, Labels
<1>3. row' = row \/ (row[k].state = "live" /\ row' = [row EXCEPT ![k] = new])
  BY DEF VerifyExhaust, Update
<1>4. UNCHANGED <<now, users, pk, orphans, vids, told, guesses, raced, made>>
  BY DEF VerifyExhaust
<1>5. /\ new \in RowType /\ new.state = row[k].state /\ new.attempts = row[k].attempts
      /\ new.vid = row[k].vid /\ new.email = row[k].email
  <2>1. row[k] \in RowType /\ req[w].at - 1 \in Int
    BY <1>1 DEF RegType, ReqType
  <2> QED
    BY <2>1 DEF RowType
<1> HIDE DEF k, new
<1>6. row' \in [Rows -> RowType] /\ RowsKept
  <2>1. CASE row' = row
    BY <2>1, SameRows DEF RegType
  <2>2. CASE row[k].state = "live" /\ row' = [row EXCEPT ![k] = new]
    <3>1. row' \in [Rows -> RowType] /\ row'[k] = new /\ \A j \in Rows : j # k => row'[j] = row[j]
      BY <1>1, <1>5, <2>2 DEF RegType
    <3> QED
      BY <2>2, <3>1, <1>5 DEF RowsKept
  <2> QED
    BY <1>3, <2>1, <2>2
<1>7. RegType'
  BY <1>2, <1>4, <1>6 DEF RegType
<1>8. HoldersKept
  BY <1>1, <1>2 DEF HoldersKept, Writing
<1>9. LocalInv'
  BY <1>2, <1>6, <1>8, LocalFrame DEF LocalInv
<1>10. HoldInv' /\ GuessInv' /\ VidInv'
  BY <1>4, <1>6, <1>8, VerifyFrame
<1>11. MadeInv'
  BY <1>4, <1>6, MadeFrame
<1>12. SafeInv'
  BY <1>1, <1>2, <1>4, SafeFrame
<1> QED
  BY <1>7, <1>9, <1>10, <1>11, <1>12 DEF RegInv

\* A wrong guess is counted, exactly unless another verification held the row;
\* or the database refuses the count.
LEMMA VerifyCountPreserves ==
  ASSUME RegInv, NEW w \in Workers, VerifyCount(w)
  PROVE  RegInv'
<1> USE DEF RegInv
<1> DEFINE k == req[w].row
           new == [row[k] EXCEPT !.attempts = req[w].attempts + 1]
<1>1. pc[w] = "count" /\ k \in Rows /\ req[w] \in ReqType /\ req[w].attempts \in Nat
  BY DEF RegType, LocalInv, Writing, VerifyCount, ReqType
<1>2. /\ pc' \in [Workers -> Labels] /\ req' \in [Workers -> ReqType]
      /\ pc'[w] = "idle" /\ req'[w] = NoReq
      /\ \A v \in Workers : v # w => pc'[v] = pc[v] /\ req'[v] = req[v]
  BY Move, Locals DEF VerifyCount, Labels
<1>3. \/ /\ row' = IF row[k].state = "live" THEN [row EXCEPT ![k] = new] ELSE row
         /\ guesses' = guesses
      \/ row' = row /\ guesses' = [guesses EXCEPT ![k] = @ - 1]
  BY DEF VerifyCount, Update
<1>4. UNCHANGED <<now, users, pk, orphans, vids, told, raced, made>>
  BY DEF VerifyCount
<1>5. /\ new \in RowType /\ new.state = row[k].state /\ new.attempts = req[w].attempts + 1
      /\ new.vid = row[k].vid /\ new.email = row[k].email
  <2>1. row[k] \in RowType /\ req[w].attempts + 1 \in Nat
    BY <1>1 DEF RegType, ReqType
  <2> QED
    BY <2>1 DEF RowType
<1>6. /\ row' \in [Rows -> RowType]
      /\ \A j \in Rows : j # k => row'[j] = row[j]
      /\ row'[k].state = row[k].state /\ row'[k].vid = row[k].vid /\ row'[k].email = row[k].email
      /\ row[k].state # "live" => row'[k] = row[k]
  <2> HIDE DEF k, new
  <2> QED
    BY <1>1, <1>3, <1>5 DEF RegType
<1>7. /\ guesses' \in [Rows -> Int]
      /\ \A j \in Rows : j # k => guesses'[j] = guesses[j]
      /\ \/ /\ guesses'[k] = guesses[k]
            /\ row[k].state = "live" => row'[k].attempts = req[w].attempts + 1
         \/ guesses'[k] = guesses[k] - 1 /\ row'[k] = row[k]
  <2>1. guesses \in [Rows -> Int] /\ guesses[k] \in Int /\ row \in [Rows -> RowType]
    BY <1>1 DEF RegType
  <2> HIDE DEF k, new
  <2>2. CASE /\ row' = IF row[k].state = "live" THEN [row EXCEPT ![k] = new] ELSE row
             /\ guesses' = guesses
    BY <1>1, <1>5, <2>1, <2>2
  <2>3. CASE row' = row /\ guesses' = [guesses EXCEPT ![k] = @ - 1]
    BY <1>1, <2>1, <2>3
  <2> QED
    BY <1>3, <2>2, <2>3
<1> HIDE DEF new
<1>8. RegType'
  BY <1>2, <1>4, <1>6, <1>7 DEF RegType
<1>9. \A v \in Workers : pc'[v] \in Writing => v # w /\ pc'[v] = pc[v] /\ req'[v] = req[v]
  BY <1>2 DEF Writing
<1>10. row[k].state # "none"
  BY <1>1 DEF LocalInv, Writing
<1>11. LocalInv'
  <2>1. \A v \in Workers : pc'[v] \in Writing =>
          req'[v].row \in Rows /\ row'[req'[v].row].state # "none"
    BY <1>6, <1>9 DEF LocalInv
  <2>2. /\ \A v \in Workers : pc'[v] \in {"cooldown", "sweep", "insert"} => req'[v].email \in Emails
        /\ \A v \in Workers : pc'[v] \in {"create", "login"} => req'[v].pk \in Passkeys
    BY <1>2 DEF LocalInv
  <2>3. /\ \A j \in Rows : row'[j].state = "none" => row'[j] = NoRow
        /\ \A j \in Rows : row'[j].state = "live" => row'[j].email \in Emails
    BY <1>6, <1>10 DEF LocalInv
  <2> QED
    BY <2>1, <2>2, <2>3 DEF LocalInv
<1>12. k \notin raced =>
         \A v \in Workers : pc'[v] \in Writing => req'[v].row # k
  BY <1>1, <1>9 DEF HoldInv, Writing
<1>13. HoldInv'
  <2>1. \A v \in Workers : pc'[v] = "count" =>
          /\ pc[v] = "count" /\ req'[v] = req[v] /\ req[v].row \in Rows
          /\ req[v].row \in raced \/ req[v].row # k
    BY <1>9, <1>12 DEF LocalInv, Writing
  <2> QED
    BY <2>1, <1>4, <1>6, <1>9 DEF HoldInv
<1>14. GuessInv'
  <2>1. \A j \in Rows : row'[j].state = "none" => guesses'[j] = 0
    BY <1>6, <1>7, <1>10 DEF GuessInv
  <2> SUFFICES ASSUME NEW j \in Rows \ raced
               PROVE  /\ guesses'[j] <= MaxAttempts
                      /\ \A v \in Workers : pc'[v] = "count" /\ req'[v].row = j =>
                           guesses'[j] = req'[v].attempts + 1
                      /\ row'[j].state = "live"
                         /\ (\A v \in Workers : pc'[v] = "count" => req'[v].row # j) =>
                           guesses'[j] = row'[j].attempts
    BY <2>1, <1>4 DEF GuessInv
  <2>2. CASE j = k
    <3>1. guesses[k] = req[w].attempts + 1 /\ guesses[k] <= MaxAttempts /\ MaxAttempts \in Nat
      BY <2>2, <1>1, RegistrationAssumption DEF GuessInv
    <3>2. row[k].state = "live" => row[k].attempts = req[w].attempts
      BY <2>2, <1>1 DEF HoldInv
    <3>3. guesses'[k] <= MaxAttempts /\ (row'[k].state = "live" => guesses'[k] = row'[k].attempts)
      BY <3>1, <3>2, <1>1, <1>6, <1>7
    <3>4. \A v \in Workers : pc'[v] = "count" => req'[v].row # k
      BY <2>2, <1>12 DEF Writing
    <3> QED
      BY <2>2, <3>3, <3>4
  <2>3. CASE j # k
    <3>1. \A v \in Workers : pc[v] = "count" /\ req[v].row = j =>
            pc'[v] = "count" /\ req'[v].row = j
      BY <2>3, <1>2
    <3>2. \A v \in Workers : pc'[v] = "count" => pc[v] = "count" /\ req'[v] = req[v]
      BY <1>9 DEF Writing
    <3> QED
      BY <2>3, <3>1, <3>2, <1>6, <1>7 DEF GuessInv
  <2> QED
    BY <2>2, <2>3
<1>15. VidInv'
  <2>1. \A t \in told : t[2] \in Rows
    BY DEF RegType
  <2>2. \A v \in Workers : pc'[v] = "confirm" => pc[v] = "confirm" /\ req'[v] = req[v]
    BY <1>9 DEF Writing
  <2>3. VidStable'
    BY <2>1, <1>4, <1>6 DEF VidInv, VidStable
  <2> QED
    BY <2>1, <2>2, <2>3, <1>4, <1>6 DEF VidInv
<1>16. MadeInv'
  <2>1. \A t \in made : t[1] \in Rows /\ row'[t[1]].state = "deleted"
    BY <1>6 DEF RegType, MadeInv
  <2>2. \A j \in Rows : row'[j].email = row[j].email
    BY <1>6
  <2> QED
    BY <2>1, <2>2, <1>4 DEF MadeInv, CodeServesOnce
<1>17. SafeInv'
  BY <1>1, <1>2, <1>4, SafeFrame
<1> QED
  BY <1>8, <1>11, <1>13, <1>14, <1>15, <1>16, <1>17 DEF RegInv

\* The id is stored and told; without a race it is the row's first.  Or it is
\* neither.
LEMMA VerifyConfirmPreserves ==
  ASSUME RegInv, NEW w \in Workers, VerifyConfirm(w)
  PROVE  RegInv'
<1> USE DEF RegInv
<1> DEFINE k == req[w].row
           vid == vids + 1
           new == [row[k] EXCEPT !.vid = vid]
<1>1. pc[w] = "confirm" /\ k \in Rows /\ req[w] \in ReqType /\ vid \in Nat \ {0}
  BY DEF RegType, LocalInv, Writing, VerifyConfirm, ReqType
<1>2. /\ pc' \in [Workers -> Labels] /\ req' \in [Workers -> ReqType]
      /\ pc'[w] = "idle" /\ req'[w] = NoReq
      /\ \A v \in Workers : v # w => pc'[v] = pc[v] /\ req'[v] = req[v]
  BY Move, Locals DEF VerifyConfirm, Labels
<1>3. UNCHANGED <<now, users, pk, orphans, guesses, raced, made>>
  BY DEF VerifyConfirm
<1>4. ASSUME UNCHANGED <<row, told, vids>>
      PROVE  RegInv'
  <2>1. RegType'
    BY <1>2, <1>3, <1>4 DEF RegType
  <2>2. RowsKept
    BY <1>4, SameRows
  <2>3. HoldersKept
    BY <1>1, <1>2 DEF HoldersKept, Writing
  <2>4. LocalInv'
    BY <2>2, <2>3, <1>2, LocalFrame DEF LocalInv
  <2>5. HoldInv' /\ GuessInv' /\ VidInv'
    BY <2>2, <2>3, <1>3, <1>4, VerifyFrame
  <2>6. MadeInv'
    BY <2>2, <1>3, <1>4, MadeFrame DEF RegType
  <2>7. SafeInv'
    BY <1>1, <1>2, <1>3, SafeFrame
  <2> QED
    BY <2>1, <2>4, <2>5, <2>6, <2>7
<1>5. ASSUME row' = IF row[k].state = "live" THEN [row EXCEPT ![k] = new] ELSE row,
             told' = told \cup {<<vid, k>>}, vids' = vid
      PROVE  RegInv'
  <2>1. /\ new \in RowType /\ new.state = row[k].state /\ new.attempts = row[k].attempts
        /\ new.vid = vid /\ new.email = row[k].email
    <3>1. row[k] \in RowType
      BY <1>1 DEF RegType
    <3> HIDE DEF vid
    <3> QED
      BY <1>1, <3>1 DEF RowType
  <2>2. /\ row' \in [Rows -> RowType]
        /\ \A j \in Rows : j # k => row'[j] = row[j]
        /\ row'[k].state = row[k].state /\ row'[k].attempts = row[k].attempts
        /\ row'[k].email = row[k].email
        /\ row[k].state = "live" => row'[k].vid = vid
        /\ row[k].state # "live" => row'[k] = row[k]
    <3> HIDE DEF k, new, vid
    <3> QED
      BY <1>1, <1>5, <2>1 DEF RegType
  <2> HIDE DEF new, vid
  <2>3. RegType'
    BY <1>1, <1>2, <1>3, <1>5, <2>2 DEF RegType
  <2>4. \A v \in Workers : pc'[v] \in Writing => v # w /\ pc'[v] = pc[v] /\ req'[v] = req[v]
    BY <1>2 DEF Writing
  <2>5. row[k].state # "none"
    BY <1>1 DEF LocalInv, Writing
  <2>6. LocalInv'
    <3>1. \A v \in Workers : pc'[v] \in Writing =>
            req'[v].row \in Rows /\ row'[req'[v].row].state # "none"
      BY <2>2, <2>4 DEF LocalInv
    <3>2. /\ \A v \in Workers :
               pc'[v] \in {"cooldown", "sweep", "insert"} => req'[v].email \in Emails
          /\ \A v \in Workers : pc'[v] \in {"create", "login"} => req'[v].pk \in Passkeys
      BY <1>2 DEF LocalInv
    <3>3. /\ \A j \in Rows : row'[j].state = "none" => row'[j] = NoRow
          /\ \A j \in Rows : row'[j].state = "live" => row'[j].email \in Emails
      BY <2>2, <2>5 DEF LocalInv
    <3> QED
      BY <3>1, <3>2, <3>3 DEF LocalInv
  <2>7. \A j \in Rows : row'[j].state = row[j].state /\ row'[j].attempts = row[j].attempts
    BY <2>2
  <2>8. \A v \in Workers : /\ pc'[v] = "count" <=> pc[v] = "count"
                           /\ pc'[v] = "count" => req'[v] = req[v] /\ req[v].row \in Rows
    BY <1>1, <1>2 DEF LocalInv, Writing
  <2>9. HoldInv'
    BY <1>3, <2>4, <2>7, <2>8 DEF HoldInv
  <2>10. GuessInv'
    BY <2>7, <2>8, <1>3 DEF GuessInv
  <2>11. VidInv'
    <3>1. \A t \in told : t[2] \in Rows
      BY DEF RegType
    <3>2. \A t \in told' : row'[t[2]].state # "none"
      BY <3>1, <1>5, <2>2, <2>5 DEF VidInv
    <3>3. k \notin raced => \A v \in Workers : pc'[v] = "confirm" => req'[v].row # k
      BY <1>1, <2>4 DEF HoldInv, Writing
    <3>4. \A v \in Workers : pc'[v] = "confirm" /\ req'[v].row \notin raced' =>
            \A t \in told' : t[2] # req'[v].row
      BY <3>3, <1>3, <1>5, <2>4 DEF VidInv, Writing
    <3>5. VidStable'
      <4> SUFFICES ASSUME NEW t \in told', row'[t[2]].state = "live", t[2] \notin raced
                   PROVE  row'[t[2]].vid = t[1]
        BY <1>3 DEF VidStable
      <4>1. CASE t = <<vid, k>>
        BY <4>1, <2>2
      <4>2. CASE t \in told
        <5>1. t[2] # k
          BY <4>2, <1>1 DEF VidInv
        <5> QED
          BY <4>2, <5>1, <3>1, <2>2 DEF VidInv, VidStable
      <4> QED
        BY <4>1, <4>2, <1>5
    <3> QED
      BY <3>2, <3>4, <3>5 DEF VidInv
  <2>12. MadeInv'
    <3>1. \A t \in made : t[1] \in Rows /\ row'[t[1]].state = "deleted"
      BY <2>2 DEF RegType, MadeInv
    <3>2. \A j \in Rows : row'[j].email = row[j].email
      BY <2>2
    <3> QED
      BY <3>1, <3>2, <1>3 DEF MadeInv, CodeServesOnce
  <2>13. SafeInv'
    BY <1>1, <1>2, <1>3, SafeFrame
  <2> QED
    BY <2>3, <2>6, <2>9, <2>10, <2>11, <2>12, <2>13
<1> QED
  BY <1>4, <1>5 DEF VerifyConfirm, Update

\* The user and the consumed row, or an orphan.
LEMMA RegistrationCreatePreserves ==
  ASSUME RegInv, NEW w \in Workers, RegistrationCreate(w)
  PROVE  RegInv'
<1> USE DEF RegInv
<1>0. PICK p \in Passkeys : p = req[w].pk
  BY DEF RegistrationCreate, LocalInv
<1>1. pc[w] = "create" /\ p = req[w].pk /\ Goto(w, "idle", NoReq)
  BY <1>0 DEF RegistrationCreate
<1>2. /\ pc' \in [Workers -> Labels] /\ req' \in [Workers -> ReqType]
      /\ pc'[w] = "idle" /\ req'[w] = NoReq
      /\ \A v \in Workers : v # w => pc'[v] = pc[v] /\ req'[v] = req[v]
  BY <1>1, Move, Locals DEF Labels
<1>3. UNCHANGED <<now, pk, vids, told, guesses, raced>>
  BY DEF RegistrationCreate
<1>4. HoldersKept
  BY <1>1, <1>2 DEF HoldersKept, Writing
<1>5. \A q \in Passkeys : q # p => (Registering(q) => Registering(q)')
  BY <1>1, <1>2 DEF Registering
<1>6. ASSUME orphans' = orphans \cup {p}, UNCHANGED <<row, users, made>>
      PROVE  RegInv'
  <2>1. RegType'
    BY <1>1, <1>2, <1>3, <1>6 DEF RegType
  <2>2. RowsKept
    BY <1>6, SameRows
  <2>3. LocalInv' /\ HoldInv' /\ GuessInv' /\ VidInv'
    BY <2>2, <1>2, <1>3, <1>4, LocalFrame, VerifyFrame DEF LocalInv
  <2>4. MadeInv'
    BY <2>2, <1>6, MadeFrame DEF RegType
  <2>5. \A q \in Passkeys : Safe(q) => Safe(q)'
    BY <1>5, <1>6 DEF Safe, KnownPasskey
  <2>6. \A x \in Workers : pc'[x] = "login" => Safe(req[x].pk)' /\ req'[x] = req[x]
    BY <2>5, <1>1, <1>2 DEF SafeInv, LocalInv
  <2>7. \A x \in Workers : (pc[x] = "login" => Safe(req[x].pk))'
    BY <2>6 DEF Safe, KnownPasskey, Registering
  <2>8. EmaillessExplained'
    BY <1>6 DEF SafeInv, EmaillessExplained
  <2>9. SafeInv'
    BY <2>5, <2>7, <2>8, <1>3 DEF SafeInv
  <2> QED
    BY <2>1, <2>3, <2>4, <2>9
<1>7. ASSUME NEW k \in Rows, Consume(req[w].vid, k), orphans' = orphans,
             users' = users \cup {[email |-> row[k].email, passkey |-> p]},
             made' = made \cup {<<k, p>>}
      PROVE  RegInv'
  <2>1. row[k].state = "live" /\ row[k].email \in Emails /\ row[k] \in RowType
    BY <1>7 DEF Consume, Usable, LocalInv, RegType
  <2>2. /\ row' \in [Rows -> RowType] /\ \A j \in Rows : j # k => row'[j] = row[j]
        /\ row'[k].state = "deleted" /\ row'[k].email = row[k].email
        /\ row'[k].attempts = row[k].attempts /\ row'[k].vid = row[k].vid
    <3> DEFINE new == [row[k] EXCEPT !.state = "deleted"]
    <3>1. row' = [row EXCEPT ![k] = new]
      BY <1>7 DEF Consume
    <3>2. new \in RowType /\ new.state = "deleted" /\ new.email = row[k].email
          /\ new.attempts = row[k].attempts /\ new.vid = row[k].vid
      BY <2>1 DEF RowType
    <3> HIDE DEF new
    <3> QED
      BY <3>1, <3>2 DEF RegType
  <2>3. RowsKept
    BY <2>1, <2>2 DEF RowsKept
  <2>4. RegType'
    BY <1>1, <1>2, <1>3, <1>7, <2>1, <2>2 DEF RegType
  <2>5. LocalInv' /\ HoldInv' /\ GuessInv' /\ VidInv'
    BY <2>3, <1>2, <1>3, <1>4, LocalFrame, VerifyFrame DEF LocalInv
  <2>6. MadeInv'
    <3>1. \A t \in made : t[1] \in Rows /\ t[1] # k /\ row'[t[1]].state = "deleted"
      BY <2>1, <2>2 DEF RegType, MadeInv
    <3>2. \A s, t \in made' : s[1] = t[1] => s = t
      BY <1>7, <3>1 DEF MadeInv, CodeServesOnce
    <3>3. \A j \in Rows : row'[j].email = row[j].email
      BY <2>2
    <3>4. \A u \in users' : u.email # None =>
            \E j \in Rows : <<j, u.passkey>> \in made' /\ row'[j].email = u.email
      <4> SUFFICES ASSUME NEW u \in users', u.email # None
                   PROVE  \E j \in Rows : <<j, u.passkey>> \in made' /\ row'[j].email = u.email
        OBVIOUS
      <4>1. CASE u \in users
        BY <4>1, <3>3, <1>7 DEF MadeInv, CodeServesOnce
      <4>2. CASE u = [email |-> row[k].email, passkey |-> p]
        BY <4>2, <3>3, <1>7
      <4> QED
        BY <4>1, <4>2, <1>7
    <3>5. \A t \in made' : row'[t[1]].state = "deleted"
      BY <3>1, <2>2, <1>7
    <3> QED
      BY <3>2, <3>4, <3>5 DEF MadeInv, CodeServesOnce
  <2>7. SafeInv'
    <3>1. KnownPasskey(p)'
      <4> DEFINE u == [email |-> row[k].email, passkey |-> p]
      <4>1. u \in users' /\ u.passkey = p
        BY <1>7
      <4> HIDE DEF u
      <4> QED
        BY <4>1 DEF KnownPasskey
    <3>2. \A q \in Passkeys : Safe(q) => Safe(q)'
      <4> SUFFICES ASSUME NEW q \in Passkeys, Safe(q) PROVE Safe(q)'
        OBVIOUS
      <4>1. CASE q = p
        BY <4>1, <3>1, <1>1, <1>7 DEF Safe, KnownPasskey
      <4>2. CASE q # p
        BY <4>2, <1>5, <1>7 DEF Safe, KnownPasskey
      <4> QED
        BY <4>1, <4>2
    <3>3. \A x \in Workers : pc'[x] = "login" => Safe(req[x].pk)' /\ req'[x] = req[x]
      BY <3>2, <1>1, <1>2 DEF SafeInv, LocalInv
    <3>4. \A x \in Workers : (pc[x] = "login" => Safe(req[x].pk))'
      BY <3>3 DEF Safe, KnownPasskey, Registering
    <3>5. EmaillessExplained'
      BY <1>7, <2>1, RegistrationAssumption DEF SafeInv, EmaillessExplained
    <3> QED
      BY <3>2, <3>4, <3>5, <1>3 DEF SafeInv
  <2> QED
    BY <2>4, <2>5, <2>6, <2>7
<1> QED
  BY <1>0, <1>6, <1>7 DEF RegistrationCreate

\* A code is compared: the request now holds a copy of the row, alone or in a
\* race, or has the answer.
LEMMA VerifyCodePreserves ==
  ASSUME RegInv, NEW w \in Workers, NEW e \in Emails, NEW k \in Rows,
         NEW right \in BOOLEAN, VerifyCode(w, e, k, right)
  PROVE  RegInv'
<1> USE DEF RegInv
<1>1. /\ pc[w] = "idle" /\ row[k].state = "live" /\ row[k] \in RowType /\ now \in Int
      /\ row[k].attempts \in Nat /\ row[k].vid \in Nat /\ vids \in Nat
  BY DEF VerifyCode, Latest, RegType, RowType
<1>2. UNCHANGED <<now, row, users, pk, orphans, made>>
  BY DEF VerifyCode
<1>3. /\ raced \subseteq raced' /\ raced' \subseteq raced \cup {k}
      /\ k \notin raced' =>
           \A v \in Workers : v # w /\ pc[v] \in Writing => req[v].row # k
  BY DEF VerifyCode, Held, Writing
<1>4. \E label \in {"idle", "exhaust", "count", "confirm"}, l \in ReqType :
        /\ Goto(w, label, l)
        /\ label # "idle" => l.row = k
        /\ label = "count" =>
             /\ l.attempts = row[k].attempts /\ row[k].attempts < MaxAttempts
             /\ guesses' = [guesses EXCEPT ![k] = @ + 1]
        /\ label # "count" => guesses' = guesses
        /\ label = "confirm" => row[k].vid = 0
        /\ \/ told' = told
           \/ label = "idle" /\ row[k].vid # 0 /\ told' = told \cup {<<row[k].vid, k>>}
        /\ vids' \in Nat
  <2> DEFINE mine == [NoReq EXCEPT !.row = k]
             late == [mine EXCEPT !.at = now]
             wrong == [mine EXCEPT !.attempts = row[k].attempts]
  <2>1. /\ mine \in ReqType /\ mine.row = k /\ late \in ReqType /\ late.row = k
        /\ wrong \in ReqType /\ wrong.row = k /\ wrong.attempts = row[k].attempts
    <3>1. mine \in ReqType /\ mine.row = k
      BY DEF NoReq, ReqType, Rows
    <3> HIDE DEF mine
    <3> QED
      BY <1>1, <3>1 DEF ReqType
  <2>2. \/ Goto(w, "idle", NoReq) /\ UNCHANGED <<told, guesses>>
        \/ Goto(w, "exhaust", late) /\ UNCHANGED <<told, guesses>>
        \/ /\ ~Exhausted(k) /\ guesses' = [guesses EXCEPT ![k] = @ + 1]
           /\ Goto(w, "count", wrong) /\ UNCHANGED told
        \/ /\ HasVid(k) /\ told' = told \cup {<<row[k].vid, k>>}
           /\ Goto(w, "idle", NoReq) /\ UNCHANGED guesses
        \/ /\ ~HasVid(k)
           /\ Goto(w, "confirm", mine) /\ UNCHANGED <<told, guesses>>
    BY DEF VerifyCode
  <2>3. /\ ~Exhausted(k) => row[k].attempts < MaxAttempts
        /\ HasVid(k) <=> row[k].vid # 0
    BY <1>1, RegistrationAssumption DEF Exhausted, HasVid
  <2>4. vids' \in Nat
    BY <1>1 DEF VerifyCode
  <2> HIDE DEF mine, late, wrong
  <2> QED
    BY <1>1, <2>1, <2>2, <2>3, <2>4, Locals
<1>5. PICK label \in {"idle", "exhaust", "count", "confirm"}, l \in ReqType :
        /\ Goto(w, label, l)
        /\ label # "idle" => l.row = k
        /\ label = "count" =>
             /\ l.attempts = row[k].attempts /\ row[k].attempts < MaxAttempts
             /\ guesses' = [guesses EXCEPT ![k] = @ + 1]
        /\ label # "count" => guesses' = guesses
        /\ label = "confirm" => row[k].vid = 0
        /\ \/ told' = told
           \/ label = "idle" /\ row[k].vid # 0 /\ told' = told \cup {<<row[k].vid, k>>}
        /\ vids' \in Nat
  BY <1>4
<1>6. /\ pc' \in [Workers -> Labels] /\ req' \in [Workers -> ReqType]
      /\ pc'[w] = label /\ req'[w] = l
      /\ \A v \in Workers : v # w => pc'[v] = pc[v] /\ req'[v] = req[v]
  BY <1>5, Move DEF Labels
<1>7. /\ guesses' \in [Rows -> Int]
      /\ \A j \in Rows : j # k => guesses'[j] = guesses[j]
      /\ guesses'[k] = IF label = "count" THEN guesses[k] + 1 ELSE guesses[k]
  <2>1. guesses \in [Rows -> Int] /\ guesses[k] + 1 \in Int
    BY DEF RegType
  <2> QED
    BY <1>5, <2>1
<1>8. RegType'
  <2>1. told' \subseteq (Nat \ {0}) \X Rows
    BY <1>1, <1>5 DEF RegType
  <2> QED
    BY <1>2, <1>3, <1>5, <1>6, <1>7, <2>1 DEF RegType
<1>9. LocalInv'
  <2>1. \A v \in Workers : pc'[v] \in Writing =>
          req'[v].row \in Rows /\ row'[req'[v].row].state # "none"
    BY <1>1, <1>2, <1>5, <1>6 DEF LocalInv, Writing
  <2>2. /\ \A v \in Workers :
             pc'[v] \in {"cooldown", "sweep", "insert"} => req'[v].email \in Emails
        /\ \A v \in Workers : pc'[v] \in {"create", "login"} => req'[v].pk \in Passkeys
    BY <1>5, <1>6 DEF LocalInv
  <2> QED
    BY <1>2, <2>1, <2>2 DEF LocalInv
<1>10. HoldInv'
  <2> SUFFICES ASSUME NEW u \in Workers, NEW v \in Workers, u # v,
                      pc'[u] \in Writing, pc'[v] \in Writing, req'[u].row = req'[v].row
               PROVE  req'[u].row \in raced'
    <3>1. ASSUME NEW v \in Workers, pc'[v] = "count", req'[v].row \notin raced',
                 row'[req'[v].row].state = "live"
          PROVE  row'[req'[v].row].attempts = req'[v].attempts
      BY <3>1, <1>2, <1>3, <1>5, <1>6 DEF HoldInv
    <3> QED
      BY <3>1 DEF HoldInv
  <2>1. CASE u # w /\ v # w
    BY <2>1, <1>3, <1>6 DEF HoldInv
  <2>2. CASE u = w
    BY <2>2, <1>3, <1>5, <1>6 DEF Writing
  <2>3. CASE v = w
    BY <2>3, <1>3, <1>5, <1>6 DEF Writing
  <2> QED
    BY <2>1, <2>2, <2>3
<1>11. GuessInv'
  <2>1. \A j \in Rows : row'[j].state = "none" => guesses'[j] = 0
    BY <1>1, <1>2, <1>7 DEF GuessInv
  <2> SUFFICES ASSUME NEW j \in Rows, j \notin raced'
               PROVE  /\ guesses'[j] <= MaxAttempts
                      /\ \A v \in Workers :
                           pc'[v] = "count" /\ req'[v].row = j => guesses'[j] = req'[v].attempts + 1
                      /\ row'[j].state = "live"
                         /\ (\A v \in Workers : pc'[v] = "count" => req'[v].row # j) =>
                           guesses'[j] = row'[j].attempts
    BY <2>1 DEF GuessInv
  <2>2. j \in Rows \ raced
    BY <1>3
  <2>3. CASE j # k
    <3>1. \A v \in Workers : pc'[v] = "count" /\ req'[v].row = j =>
            v # w /\ pc[v] = "count" /\ req[v].row = j /\ req'[v] = req[v]
      BY <2>3, <1>5, <1>6
    <3>2. \A v \in Workers : pc[v] = "count" /\ req[v].row = j =>
            pc'[v] = "count" /\ req'[v].row = j
      BY <1>1, <1>6
    <3> QED
      BY <2>2, <2>3, <3>1, <3>2, <1>2, <1>7 DEF GuessInv
  <2>4. CASE j = k
    <3>1. \A v \in Workers : pc[v] = "count" => req[v].row # k
      BY <2>4, <1>1, <1>3 DEF Writing
    <3>2. guesses[k] = row[k].attempts /\ guesses[k] <= MaxAttempts
      BY <2>2, <2>4, <3>1, <1>1 DEF GuessInv
    <3>3. \A v \in Workers : pc'[v] = "count" /\ req'[v].row = k => v = w /\ label = "count"
      BY <3>1, <1>6
    <3>4. guesses'[k] <= MaxAttempts
      BY <3>2, <1>1, <1>5, <1>7, RegistrationAssumption
    <3>5. \A v \in Workers :
            pc'[v] = "count" /\ req'[v].row = k => guesses'[k] = req'[v].attempts + 1
      BY <3>2, <3>3, <1>5, <1>6, <1>7
    <3>6. (\A v \in Workers : pc'[v] = "count" => req'[v].row # k) => guesses'[k] = row'[k].attempts
      BY <3>2, <1>2, <1>5, <1>6, <1>7
    <3> QED
      BY <2>4, <3>4, <3>5, <3>6
  <2> QED
    BY <2>3, <2>4
<1>12. VidInv'
  <2>1. \A t \in told : t[2] \in Rows /\ t[1] # 0
    BY DEF RegType
  <2>2. \A t \in told' : t \in told \/ (t[2] = k /\ t[1] = row[k].vid /\ label = "idle")
    BY <1>5
  <2>3. \A t \in told' : row'[t[2]].state # "none"
    BY <2>2, <1>1, <1>2 DEF VidInv
  <2>4. ASSUME NEW v \in Workers, pc'[v] = "confirm", req'[v].row \notin raced', NEW t \in told'
        PROVE  t[2] # req'[v].row
    <3>1. CASE v = w
      <4>1. label = "confirm" /\ req'[v].row = k /\ k \notin raced /\ t \in told /\ row[k].vid = 0
        BY <3>1, <2>2, <2>4, <1>3, <1>5, <1>6
      <4> QED
        BY <4>1, <2>1, <1>1 DEF VidInv, VidStable
    <3>2. CASE v # w
      <4>1. pc[v] = "confirm" /\ req'[v] = req[v] /\ req[v].row \notin raced
        BY <3>2, <2>4, <1>3, <1>6
      <4>2. req[v].row # k
        BY <3>2, <4>1, <2>4, <1>3 DEF Writing
      <4> QED
        BY <4>1, <4>2, <2>2 DEF VidInv
    <3> QED
      BY <3>1, <3>2
  <2>5. VidStable'
    BY <2>2, <1>2, <1>3 DEF VidInv, VidStable
  <2> QED
    BY <2>3, <2>4, <2>5 DEF VidInv
<1>13. MadeInv'
  BY <1>2, SameRows, MadeFrame DEF RegType
<1>14. SafeInv'
  BY <1>1, <1>2, <1>5, <1>6, SafeFrame
<1> QED
  BY <1>8, <1>9, <1>10, <1>11, <1>12, <1>13, <1>14 DEF RegInv

-----------------------------------------------------------------------------
(* The theorems.                                                           *)

\* Nothing is registered at first.
LEMMA InitEstablishes ==
  ASSUME Init
  PROVE  RegInv
<1>1. NoRow \in RowType /\ NoReq \in ReqType
  BY DEF NoRow, NoReq, RowType, ReqType
<1>2. RegType
  BY <1>1 DEF Init, LimiterInit, RegType, Labels
<1>3. LocalInv /\ HoldInv
  BY DEF Init, LocalInv, HoldInv, Writing, NoRow
<1>4. GuessInv
  BY RegistrationAssumption DEF Init, GuessInv, NoRow
<1>5. VidInv /\ MadeInv
  BY DEF Init, VidInv, VidStable, MadeInv, CodeServesOnce
<1>6. SafeInv
  BY DEF Init, SafeInv, EmaillessExplained
<1> QED
  BY <1>2, <1>3, <1>4, <1>5, <1>6 DEF RegInv

\* Every step keeps the invariant; the limiter's own steps do not touch it.
LEMMA NextPreserves ==
  ASSUME RegInv, [Next]_vars
  PROVE  RegInv'
<1>1. ASSUME UNCHANGED regVars, now' \in Int
      PROVE  RegInv'
  <2>1. UNCHANGED <<row, users, pk, orphans, pc, req, vids, told, guesses, raced, made>>
    BY <1>1 DEF regVars
  <2>2. RegType'
    BY <1>1, <2>1 DEF RegInv, RegType
  <2>3. HoldersKept /\ RowsKept
    BY <2>1, SameRows DEF HoldersKept
  <2>4. LocalInv' /\ HoldInv' /\ GuessInv' /\ VidInv'
    BY <2>1, <2>3, LocalFrame, VerifyFrame DEF RegInv, LocalInv
  <2>5. MadeInv' /\ SafeInv'
    BY <2>1, <2>3, MadeFrame, SafeFrame DEF RegInv, RegType
  <2> QED
    BY <2>2, <2>4, <2>5 DEF RegInv
<1>2. now \in Int
  BY DEF RegInv, RegType
<1>3. CASE Tick /\ UNCHANGED regVars
  BY <1>1, <1>2, <1>3 DEF Tick
<1>4. CASE UNCHANGED <<now, regVars>>
  BY <1>1, <1>2, <1>4
<1>5. ASSUME NEW w \in Workers, Endpoint(w)
      PROVE  RegInv'
  <2>1. \A v \in ClientVids : v \in Nat
    BY DEF ClientVids, RegInv, RegType
  <2>2. CASE \E e \in Emails : SendCode(w, e)
    BY <2>2, SendCodePreserves
  <2>3. CASE \E e \in Emails, k \in Rows, right \in BOOLEAN : VerifyCode(w, e, k, right)
    BY <2>3, VerifyCodePreserves
  <2>4. CASE \E v \in ClientVids, p \in Passkeys : RegistrationBegin(w, v, p)
    BY <2>1, <2>4, RegistrationBeginPreserves
  <2>5. CASE \E v \in ClientVids, p \in Passkeys : RegistrationVerify(w, v, p)
    BY <2>1, <2>5, RegistrationVerifyPreserves
  <2> QED
    BY <1>5, <2>2, <2>3, <2>4, <2>5 DEF Endpoint
<1>6. ASSUME NEW w \in Workers,
             \/ SendCooldown(w) \/ SendSweep(w) \/ SendInsert(w)
             \/ VerifyExhaust(w) \/ VerifyCount(w) \/ VerifyConfirm(w)
             \/ RegistrationCreate(w) \/ LoginCreate(w)
             \/ \E p \in Passkeys : PasskeyVerify(w, p)
      PROVE  RegInv'
  BY <1>6, SendCooldownPreserves, SendSweepPreserves, SendInsertPreserves, VerifyExhaustPreserves,
     VerifyCountPreserves, VerifyConfirmPreserves, RegistrationCreatePreserves,
     LoginCreatePreserves, PasskeyVerifyPreserves
<1>7. CASE \E p \in Passkeys : InviteUser(p)
  BY <1>7, InviteUserPreserves
<1>8. CASE \E u \in users : DeleteUser(u)
  BY <1>8, DeleteUserPreserves
<1>9. CASE UNCHANGED vars
  BY <1>4, <1>9 DEF vars
<1>10. \/ Tick /\ UNCHANGED regVars
       \/ UNCHANGED <<now, regVars>>
       \/ \E w \in Workers : Endpoint(w)
       \/ \E w \in Workers :
            \/ SendCooldown(w) \/ SendSweep(w) \/ SendInsert(w)
            \/ VerifyExhaust(w) \/ VerifyCount(w) \/ VerifyConfirm(w)
            \/ RegistrationCreate(w) \/ LoginCreate(w)
            \/ \E p \in Passkeys : PasskeyVerify(w, p)
       \/ \E p \in Passkeys : InviteUser(p)
       \/ \E u \in users : DeleteUser(u)
       \/ UNCHANGED vars
  BY DEF Next, Rejected
<1> QED
  BY <1>3, <1>4, <1>5, <1>6, <1>7, <1>8, <1>9, <1>10

\* The invariant holds of every behaviour of registration and login.
THEOREM RegInvariance == Spec => []RegInv
<1>1. Init => RegInv
  BY InitEstablishes
<1>2. RegInv /\ [Next]_vars => RegInv'
  BY NextPreserves
<1> QED
  BY <1>1, <1>2, PTL DEF Spec

\* However many verifications run at the same time, a row takes more than
\* MaxAttempts wrong codes only if two of them held it together: VerifyCode
\* reads the counter and writes it back in two statements.
THEOREM CodesResistGuessing == Spec => []GuessesBounded
<1>1. RegInv => GuessesBounded
  <2> SUFFICES ASSUME RegInv, NEW k \in Rows, guesses[k] > MaxAttempts
               PROVE  k \in raced
    BY DEF GuessesBounded
  <2>1. guesses[k] \in Int /\ MaxAttempts \in Nat
    BY RegistrationAssumption DEF RegInv, RegType
  <2> QED
    BY <2>1 DEF RegInv, GuessInv
<1> QED
  BY <1>1, RegInvariance, PTL

\* The verification id VerifyCode returned stays good for the passkey ceremony
\* while its row lives, unless two verifications of the row overlapped.
THEOREM VerificationIdsStay == Spec => []VidStable
<1>1. RegInv => VidStable
  BY DEF RegInv, VidInv
<1> QED
  BY <1>1, RegInvariance, PTL

\* ConsumeVerification, inside the transaction that creates the user, lets a
\* mailed code make one user at most, and users with an address come from one.
THEOREM CodesServeOnce == Spec => []CodeServesOnce
<1>1. RegInv => CodeServesOnce
  BY DEF RegInv, MadeInv
<1> QED
  BY <1>1, RegInvariance, PTL

\* The login's create-if-missing makes a user without an address only for a
\* passkey whose registration, or deletion, the wallet and UMS did not finish
\* together.
THEOREM EmaillessUsersExplained == Spec => []EmaillessExplained
<1>1. RegInv => EmaillessExplained
  BY DEF RegInv, SafeInv
<1> QED
  BY <1>1, RegInvariance, PTL

-----------------------------------------------------------------------------
(* The limiter.  The list a key has left is always an end of the list of    *)
(* requests it got through (LimiterInv); Slide is a loop, which is a       *)
(* recursive function here, and what it returns is found with a least       *)
(* counterexample instead of an induction.                                 *)

\* A nonempty set of numbers has a least one: what stands in for induction
\* over the timestamps of a list.
LEMMA Least ==
  ASSUME NEW T \in SUBSET Nat, NEW z \in T
  PROVE  \E x \in T : \A y \in T : x <= y
<1> DEFINE R == OpToRel(<, Nat)
<1>1. IsWellFoundedOn(R, Nat)
  BY NatLessThanWellFounded
<1>2. \A x, y \in Nat : y < x => <<y, x>> \in R
  BY DEF OpToRel
<1> HIDE DEF R
<1>3. PICK x \in T : \A y \in T : ~(<<y, x>> \in R)
  BY <1>1, WFMin
<1>4. \A y \in T : y \in Nat /\ ~(y < x)
  BY <1>2, <1>3
<1>5. \A y \in T : x <= y
  BY <1>4
<1> QED
  BY <1>5

\* What the loop's function satisfies.
IsLoop(s, f) ==
  f = [i \in 0 .. Len(s) |->
         IF i = 0 THEN <<>>
         ELSE IF InWindow(s[i]) THEN Append(f[i - 1], s[i]) ELSE f[i - 1]]

\* Slide is a function of the loop, once there is one.
LEMMA Loop ==
  ASSUME NEW s \in Seq(Int), NEW v, IsLoop(s, v)
  PROVE  \E f : IsLoop(s, f) /\ Slide(s) = f[Len(s)]
<1> DEFINE g == CHOOSE f : IsLoop(s, f)
<1>2. Slide(s) = (CHOOSE f : IsLoop(s, f))[Len(s)]
  BY DEF Slide, IsLoop
<1>3. IsLoop(s, CHOOSE f : IsLoop(s, f))
  OBVIOUS
<1>4. IsLoop(s, g) /\ Slide(s) = g[Len(s)]
  BY <1>2, <1>3
<1> HIDE DEF g
<1> QED
  BY <1>4

\* The timestamps of a list are in the order of the requests.
Sorted(s) == \A i, j \in 1 .. Len(s) : i <= j => s[i] <= s[j]

\* append(valid, now).
LEMMA EndOfAppend ==
  ASSUME NEW p \in Seq(Int), NEW e \in Int
  PROVE  /\ Append(p, e) \in Seq(Int)
         /\ Len(Append(p, e)) = Len(p) + 1
         /\ Append(p, e)[Len(p) + 1] = e
         /\ \A j \in 1 .. Len(p) : Append(p, e)[j] = p[j]
  OBVIOUS

\* A piece of a list.
LEMMA Piece ==
  ASSUME NEW s \in Seq(Int), NEW a \in 1 .. Len(s), NEW i \in a .. Len(s)
  PROVE  /\ SubSeq(s, a, i) \in Seq(Int) /\ Len(SubSeq(s, a, i)) = i - a + 1
         /\ \A j \in 1 .. i - a + 1 : SubSeq(s, a, i)[j] = s[a + j - 1]
  OBVIOUS

\* A subsequence grows at its end.
LEMMA SubSeqGrows ==
  ASSUME NEW s \in Seq(Int), NEW a \in 1 .. Len(s), NEW i \in a .. Len(s)
  PROVE  SubSeq(s, a, i) = Append(IF i = a THEN <<>> ELSE SubSeq(s, a, i - 1), s[i])
<1> DEFINE p == IF i = a THEN <<>> ELSE SubSeq(s, a, i - 1)
<1>0. Len(s) \in Nat /\ s \in [1 .. Len(s) -> Int]
  OBVIOUS
<1>1. p \in Seq(Int) /\ Len(p) = i - a /\ \A j \in 1 .. i - a : p[j] = s[a + j - 1]
  BY <1>0
<1>2. SubSeq(s, a, i) \in Seq(Int) /\ Len(SubSeq(s, a, i)) = i - a + 1
      /\ \A j \in 1 .. i - a + 1 : SubSeq(s, a, i)[j] = s[a + j - 1]
  BY <1>0
<1> HIDE DEF p
<1>3. Append(p, s[i]) \in Seq(Int) /\ Len(Append(p, s[i])) = i - a + 1
      /\ \A j \in 1 .. i - a + 1 : Append(p, s[i])[j] = s[a + j - 1]
  <2> DEFINE q == Append(p, s[i])
  <2>1. s[i] \in Int /\ i - a \in Nat
    BY <1>0
  <2>2. q \in Seq(Int) /\ Len(q) = Len(p) + 1 /\ q[Len(p) + 1] = s[i]
        /\ \A j \in 1 .. Len(p) : q[j] = p[j]
    <3>1. p \in Seq(Int) /\ s[i] \in Int
      BY <2>1, <1>1
    <3> QED
      BY <3>1, EndOfAppend
  <2> HIDE DEF q
  <2>3. Len(q) = i - a + 1 /\ q[i - a + 1] = s[i] /\ \A j \in 1 .. i - a : q[j] = s[a + j - 1]
    BY <2>2, <1>1
  <2>4. a + (i - a + 1) - 1 = i
    OBVIOUS
  <2>5. \A j \in 1 .. i - a + 1 : q[j] = s[a + j - 1]
    <3> SUFFICES ASSUME NEW j \in 1 .. i - a + 1 PROVE q[j] = s[a + j - 1]
      OBVIOUS
    <3>1. CASE j \in 1 .. i - a
      BY <3>1, <2>3
    <3>2. CASE j = i - a + 1
      BY <3>2, <2>3, <2>4
    <3> QED
      BY <3>1, <3>2, <2>1
  <2> QED
    BY <2>2, <2>3, <2>5 DEF q
<1>4. SubSeq(s, a, i) = Append(p, s[i])
  BY <1>2, <1>3, SeqEqual
<1> QED
  BY <1>4 DEF p

\* Of timestamps in order, the loop of Allow keeps an end of the list: the
\* ones before it are out of the window, the ones in it are not.
LEMMA SlideKeepsEnd ==
  ASSUME now \in Int, NEW s \in Seq(Int), Sorted(s)
  PROVE  \E m \in 0 .. Len(s) :
           /\ Slide(s) = SubSeq(s, m + 1, Len(s))
           /\ \A i \in 1 .. m : ~InWindow(s[i])
           /\ \A i \in m + 1 .. Len(s) : InWindow(s[i])
<1> USE LimiterAssumption DEF InWindow
<1> DEFINE T == {n \in 1 .. Len(s) + 1 : n = Len(s) + 1 \/ InWindow(s[n])}
<1>0. Len(s) \in Nat /\ s \in [1 .. Len(s) -> Int]
  OBVIOUS
<1>1. T \in SUBSET Nat /\ Len(s) + 1 \in T
  BY <1>0
<1>2. PICK n \in T : \A y \in T : n <= y
  <2> HIDE DEF T
  <2> QED
    BY <1>1, Least
<1> DEFINE m == n - 1
<1>3. m \in 0 .. Len(s)
  BY <1>0
<1>4. \A i \in 1 .. m : ~InWindow(s[i])
  <2> SUFFICES ASSUME NEW i \in 1 .. m, InWindow(s[i]) PROVE FALSE
    OBVIOUS
  <2>1. i \in T
    BY <1>0, <1>3
  <2> QED
    BY <2>1, <1>2, <1>0, <1>3
<1>5. \A i \in m + 1 .. Len(s) : InWindow(s[i])
  <2> SUFFICES ASSUME NEW i \in m + 1 .. Len(s) PROVE InWindow(s[i])
    OBVIOUS
  <2>1. n \in 1 .. Len(s) /\ n <= i /\ InWindow(s[n])
    BY <1>0, <1>3
  <2>2. s[n] <= s[i] /\ s[n] \in Int /\ s[i] \in Int
    BY <2>1, <1>0 DEF Sorted
  <2> QED
    BY <2>1, <2>2
<1> HIDE DEF m, T
<1> DEFINE v == [i \in 0 .. Len(s) |-> IF i <= m THEN <<>> ELSE SubSeq(s, m + 1, i)]
<1>6. IsLoop(s, v)
  <2> SUFFICES ASSUME NEW i \in 0 .. Len(s)
               PROVE  v[i] = IF i = 0 THEN <<>>
                             ELSE IF InWindow(s[i]) THEN Append(v[i - 1], s[i]) ELSE v[i - 1]
    BY DEF IsLoop
  <2>1. CASE i = 0
    BY <2>1, <1>3, <1>0
  <2>2. CASE i # 0 /\ i <= m
    <3>1. v[i] = <<>> /\ v[i - 1] = <<>> /\ ~InWindow(s[i])
      BY <2>2, <1>3, <1>4, <1>0
    <3> QED
      BY <3>1, <2>2
  <2>3. CASE i = m + 1
    <3>1. v[i] = SubSeq(s, i, i) /\ v[i - 1] = <<>> /\ InWindow(s[i])
      BY <2>3, <1>3, <1>5, <1>0
    <3>2. SubSeq(s, i, i) = Append(<<>>, s[i])
      <4>1. i \in 1 .. Len(s) /\ i \in i .. Len(s)
        BY <2>3, <1>3, <1>0
      <4>2. SubSeq(s, i, i) = Append(IF i = i THEN <<>> ELSE SubSeq(s, i, i - 1), s[i])
        BY <4>1, SubSeqGrows
      <4> QED
        BY <4>2
    <3> HIDE DEF v
    <3>3. i # 0
      BY <2>3, <1>3
    <3> QED
      BY <3>1, <3>2, <3>3
  <2>4. CASE i > m + 1
    <3>1. v[i] = SubSeq(s, m + 1, i) /\ v[i - 1] = SubSeq(s, m + 1, i - 1) /\ InWindow(s[i])
      BY <2>4, <1>3, <1>5, <1>0
    <3>2. SubSeq(s, m + 1, i) = Append(SubSeq(s, m + 1, i - 1), s[i])
      <4>1. m + 1 \in 1 .. Len(s) /\ i \in m + 1 .. Len(s) /\ i # m + 1
        BY <2>4, <1>3, <1>0
      <4>2. SubSeq(s, m + 1, i) =
              Append(IF i = m + 1 THEN <<>> ELSE SubSeq(s, m + 1, i - 1), s[i])
        BY <4>1, SubSeqGrows
      <4> QED
        BY <4>1, <4>2
    <3> HIDE DEF v
    <3>3. i # 0
      BY <2>4, <1>3
    <3> QED
      BY <3>1, <3>2, <3>3
  <2> QED
    BY <2>1, <2>2, <2>3, <2>4, <1>3, <1>0
<1>7. PICK f : IsLoop(s, f) /\ Slide(s) = f[Len(s)]
  BY <1>6, Loop
<1>8. f[Len(s)] = v[Len(s)]
  <2> SUFFICES ASSUME f[Len(s)] # v[Len(s)] PROVE FALSE
    OBVIOUS
  <2> DEFINE D == {i \in 0 .. Len(s) : f[i] # v[i]}
  <2>1. D \in SUBSET Nat /\ Len(s) \in D
    BY <1>0
  <2>2. PICK x \in D : \A y \in D : x <= y
    <3> HIDE DEF D
    <3> QED
      BY <2>1, Least
  <2> HIDE DEF v
  <2>3. x # 0
    BY <1>6, <1>7, <2>2 DEF IsLoop
  <2>4. x \in 1 .. Len(s) /\ x - 1 \in 0 .. Len(s) /\ f[x] # v[x]
    BY <2>3, <1>0
  <2>5. f[x - 1] = v[x - 1]
    BY <2>4, <2>2
  <2>6. /\ f[x] = IF x = 0 THEN <<>>
                  ELSE IF InWindow(s[x]) THEN Append(f[x - 1], s[x]) ELSE f[x - 1]
        /\ v[x] = IF x = 0 THEN <<>>
                  ELSE IF InWindow(s[x]) THEN Append(v[x - 1], s[x]) ELSE v[x - 1]
    BY <1>6, <1>7, <2>4 DEF IsLoop
  <2> QED
    BY <2>4, <2>5, <2>6
<1>9. v[Len(s)] = SubSeq(s, m + 1, Len(s))
  BY <1>0, <1>3
<1> QED
  BY <1>3, <1>4, <1>5, <1>7, <1>8, <1>9

\* At time t the list kept is the end of what was let through, what it lost
\* is out of the window, and no window holds more than Limit requests.
Fits(p, w, t) ==
  /\ p \in Seq(Int) /\ Sorted(p) /\ \A i \in 1 .. Len(p) : p[i] <= t
  /\ \E n \in 0 .. Len(p) :
       /\ w = SubSeq(p, n + 1, Len(p))
       /\ \A i \in 1 .. n : p[i] <= t - Window
  /\ \A i \in 1 .. Len(p) : i + Limit <= Len(p) => p[i + Limit] - p[i] >= Window

LimiterInv ==
  /\ now \in Int
  /\ DOMAIN windows = Keys /\ DOMAIN passed = Keys
  /\ \A k \in Keys : Fits(passed[k], windows[k], now)

\* The end of a list, and the end of an end.
LEMMA Ending ==
  ASSUME NEW p \in Seq(Int), NEW n \in 0 .. Len(p)
  PROVE  /\ SubSeq(p, n + 1, Len(p)) \in Seq(Int)
         /\ Len(SubSeq(p, n + 1, Len(p))) = Len(p) - n
         /\ \A i \in 1 .. Len(p) - n : SubSeq(p, n + 1, Len(p))[i] = p[n + i]
<1> DEFINE w == SubSeq(p, n + 1, Len(p))
<1>0. Len(p) \in Nat /\ p \in [1 .. Len(p) -> Int]
  OBVIOUS
<1>1. w \in Seq(Int)
  BY <1>0
<1>2. Len(w) = Len(p) - n
  <2>1. CASE n = Len(p)
    BY <2>1, <1>0
  <2>2. CASE n < Len(p)
    <3>1. n + 1 \in 1 .. Len(p) /\ Len(p) \in n + 1 .. Len(p)
      BY <2>2, <1>0
    <3>2. Len(w) = Len(p) - (n + 1) + 1
      BY <3>1, Piece
    <3> HIDE DEF w
    <3>3. Len(p) - (n + 1) + 1 = Len(p) - n
      BY <1>0
    <3> QED
      BY <3>2, <3>3
  <2>3. n = Len(p) \/ n < Len(p)
    <3>1. Len(p) \in Nat /\ n \in Nat /\ n <= Len(p)
      BY <1>0
    <3> QED
      BY ONLY <3>1
  <2> HIDE DEF w
  <2> QED
    BY <2>1, <2>2, <2>3
<1>3. \A i \in 1 .. Len(p) - n : w[i] = p[(n + 1) + i - 1]
  BY <1>0
<1>4. \A i \in 1 .. Len(p) - n : (n + 1) + i - 1 = n + i
  BY <1>0
<1> HIDE DEF w
<1>5. \A i \in 1 .. Len(p) - n : w[i] = p[n + i]
  BY <1>3, <1>4
<1> QED
  BY <1>1, <1>2, <1>5 DEF w

LEMMA TailOfTail ==
  ASSUME NEW p \in Seq(Int), NEW n \in 0 .. Len(p), NEW m \in 0 .. Len(p) - n
  PROVE  /\ SubSeq(p, n + 1, Len(p)) \in Seq(Int)
         /\ Len(SubSeq(p, n + 1, Len(p))) = Len(p) - n
         /\ \A i \in 1 .. Len(p) - n : SubSeq(p, n + 1, Len(p))[i] = p[n + i]
         /\ SubSeq(SubSeq(p, n + 1, Len(p)), m + 1, Len(p) - n) = SubSeq(p, n + m + 1, Len(p))
<1> DEFINE w == SubSeq(p, n + 1, Len(p))
           u == SubSeq(w, m + 1, Len(p) - n)
           z == SubSeq(p, n + m + 1, Len(p))
<1>0. Len(p) \in Nat /\ p \in [1 .. Len(p) -> Int]
  OBVIOUS
<1>1. w \in Seq(Int) /\ Len(w) = Len(p) - n /\ \A i \in 1 .. Len(p) - n : w[i] = p[n + i]
  BY Ending
<1>2. z \in Seq(Int) /\ Len(z) = Len(p) - n - m
      /\ \A i \in 1 .. Len(p) - n - m : z[i] = p[n + m + i]
  <2>1. n + m \in 0 .. Len(p) /\ Len(p) - (n + m) = Len(p) - n - m
    BY <1>0
  <2> QED
    BY <2>1, Ending
<1> HIDE DEF w
<1>3. u \in Seq(Int) /\ Len(u) = Len(p) - n - m
      /\ \A i \in 1 .. Len(p) - n - m : u[i] = w[m + i]
  <2>1. m \in 0 .. Len(w)
    BY <1>1
  <2>2. /\ SubSeq(w, m + 1, Len(w)) \in Seq(Int)
        /\ Len(SubSeq(w, m + 1, Len(w))) = Len(w) - m
        /\ \A i \in 1 .. Len(w) - m : SubSeq(w, m + 1, Len(w))[i] = w[m + i]
    BY <1>1, <2>1, Ending
  <2> QED
    BY <1>1, <2>2
<1> HIDE DEF u, z
<1>4. \A i \in 1 .. Len(p) - n - m : m + i \in 1 .. Len(p) - n /\ n + (m + i) = n + m + i
  BY <1>0
<1>5. \A i \in 1 .. Len(p) - n - m : u[i] = z[i]
  BY <1>1, <1>2, <1>3, <1>4
<1>6. u = z
  BY <1>2, <1>3, <1>5, SeqEqual
<1> QED
  BY <1>1, <1>6 DEF w, u, z

\* What Slide keeps is still an end of what was let through.
LEMMA SlideFits ==
  ASSUME now \in Int, NEW p, NEW w, Fits(p, w, now)
  PROVE  \E n \in 0 .. Len(p) :
           /\ Slide(w) = SubSeq(p, n + 1, Len(p))
           /\ Len(Slide(w)) = Len(p) - n
           /\ \A i \in 1 .. n : p[i] <= now - Window
           /\ \A i \in n + 1 .. Len(p) : InWindow(p[i])
<1> USE LimiterAssumption
<1>0. p \in Seq(Int) /\ Len(p) \in Nat /\ p \in [1 .. Len(p) -> Int]
  BY DEF Fits
<1>1. PICK n \in 0 .. Len(p) :
        /\ w = SubSeq(p, n + 1, Len(p))
        /\ \A i \in 1 .. n : p[i] <= now - Window
  BY DEF Fits
<1>2. /\ w \in Seq(Int) /\ Len(w) = Len(p) - n
      /\ \A i \in 1 .. Len(p) - n : w[i] = p[n + i]
  <2>1. 0 \in 0 .. Len(p) - n
    BY <1>0
  <2> QED
    BY <1>0, <1>1, <2>1, TailOfTail
<1>3. Sorted(w)
  <2> SUFFICES ASSUME NEW i \in 1 .. Len(w), NEW j \in 1 .. Len(w), i <= j
               PROVE  w[i] <= w[j]
    BY DEF Sorted
  <2>1. n + i \in 1 .. Len(p) /\ n + j \in 1 .. Len(p) /\ n + i <= n + j
    BY <1>0, <1>2
  <2>2. p[n + i] <= p[n + j]
    BY <2>1 DEF Fits, Sorted
  <2> QED
    BY <1>2, <2>2
<1>4. PICK m \in 0 .. Len(w) :
        /\ Slide(w) = SubSeq(w, m + 1, Len(w))
        /\ \A i \in 1 .. m : ~InWindow(w[i])
        /\ \A i \in m + 1 .. Len(w) : InWindow(w[i])
  BY <1>2, <1>3, SlideKeepsEnd
<1>5. n + m \in 0 .. Len(p) /\ m \in 0 .. Len(p) - n
  BY <1>0, <1>2
<1>6. Slide(w) = SubSeq(p, (n + m) + 1, Len(p))
  <2>1. SubSeq(SubSeq(p, n + 1, Len(p)), m + 1, Len(p) - n) = SubSeq(p, n + m + 1, Len(p))
    BY <1>0, <1>5, TailOfTail
  <2> QED
    BY <2>1, <1>1, <1>2, <1>4
<1>7. Len(Slide(w)) = Len(p) - (n + m)
  BY <1>0, <1>5, <1>6, Ending
<1>8. \A i \in 1 .. n + m : p[i] <= now - Window
  <2> SUFFICES ASSUME NEW i \in 1 .. n + m PROVE p[i] <= now - Window
    OBVIOUS
  <2>1. CASE i <= n
    BY <2>1, <1>1
  <2>2. CASE i > n
    <3>1. i - n \in 1 .. m /\ i - n \in 1 .. Len(p) - n /\ n + (i - n) = i /\ i \in 1 .. Len(p)
      BY <2>2, <1>5, <1>0
    <3>2. w[i - n] = p[i] /\ ~InWindow(w[i - n])
      BY <3>1, <1>2, <1>4
    <3> QED
      BY <3>1, <3>2, <1>0 DEF InWindow
  <2> QED
    BY <2>1, <2>2
<1>9. \A i \in n + m + 1 .. Len(p) : InWindow(p[i])
  <2> SUFFICES ASSUME NEW i \in n + m + 1 .. Len(p) PROVE InWindow(p[i])
    OBVIOUS
  <2>1. i - n \in m + 1 .. Len(w) /\ i - n \in 1 .. Len(p) - n /\ n + (i - n) = i
    BY <1>0, <1>2, <1>5
  <2> QED
    BY <2>1, <1>2, <1>4
<1> QED
  BY <1>5, <1>6, <1>7, <1>8, <1>9

\* A request below the limit is let through: the one Limit requests before it
\* is no longer in the list, so a window has passed since.
LEMMA AdmitFits ==
  ASSUME now \in Int, NEW p, NEW w, Fits(p, w, now), Len(Slide(w)) < Limit
  PROVE  Fits(Append(p, now), Append(Slide(w), now), now)
<1> USE LimiterAssumption
<1> DEFINE q == Append(p, now)
<1>0. p \in Seq(Int) /\ Len(p) \in Nat /\ p \in [1 .. Len(p) -> Int]
  BY DEF Fits
<1>1. PICK n \in 0 .. Len(p) :
        /\ Slide(w) = SubSeq(p, n + 1, Len(p))
        /\ Len(Slide(w)) = Len(p) - n
        /\ \A i \in 1 .. n : p[i] <= now - Window
  BY SlideFits
<1>2. /\ q \in Seq(Int) /\ Len(q) = Len(p) + 1 /\ q[Len(p) + 1] = now
      /\ \A j \in 1 .. Len(p) : q[j] = p[j]
  BY <1>0, EndOfAppend
<1>3. Append(Slide(w), now) = SubSeq(q, n + 1, Len(q))
  <2> DEFINE u == SubSeq(q, n + 1, Len(q))
             x == Append(Slide(w), now)
  <2>1. /\ Slide(w) \in Seq(Int) /\ Len(Slide(w)) = Len(p) - n
        /\ \A i \in 1 .. Len(p) - n : Slide(w)[i] = p[n + i]
    <3>1. 0 \in 0 .. Len(p) - n
      BY <1>0
    <3> QED
      BY <1>0, <1>1, <3>1, TailOfTail
  <2>2. /\ x \in Seq(Int) /\ Len(x) = Len(p) - n + 1 /\ x[Len(p) - n + 1] = now
        /\ \A i \in 1 .. Len(p) - n : x[i] = p[n + i]
    <3> HIDE DEF x
    <3>1. /\ x \in Seq(Int) /\ Len(x) = Len(Slide(w)) + 1 /\ x[Len(Slide(w)) + 1] = now
          /\ \A i \in 1 .. Len(Slide(w)) : x[i] = Slide(w)[i]
      BY <2>1, EndOfAppend DEF x
    <3> QED
      BY <2>1, <3>1
  <2>3. /\ u \in Seq(Int) /\ Len(u) = Len(q) - n
        /\ \A i \in 1 .. Len(q) - n : u[i] = q[n + i]
    <3> HIDE DEF q
    <3>1. 0 \in 0 .. Len(q) - n /\ n \in 0 .. Len(q)
      BY <1>0, <1>2
    <3> QED
      BY <1>2, <3>1, TailOfTail
  <2> HIDE DEF u, x, q
  <2>4. Len(q) - n = Len(p) - n + 1 /\ n + (Len(p) - n + 1) = Len(p) + 1
    BY <1>0, <1>2
  <2>5. \A i \in 1 .. Len(p) - n + 1 : x[i] = u[i]
    <3> SUFFICES ASSUME NEW i \in 1 .. Len(p) - n + 1 PROVE x[i] = u[i]
      OBVIOUS
    <3>1. CASE i = Len(p) - n + 1
      BY <3>1, <2>2, <2>3, <2>4, <1>2
    <3>2. CASE i \in 1 .. Len(p) - n
      <4>1. n + i \in 1 .. Len(p)
        BY <3>2, <1>0
      <4> QED
        BY <3>2, <4>1, <2>2, <2>3, <2>4, <1>2
    <3>3. i = Len(p) - n + 1 \/ i \in 1 .. Len(p) - n
      BY <1>0
    <3> QED
      BY <3>1, <3>2, <3>3
  <2>6. x = u
    BY <2>2, <2>3, <2>4, <2>5, SeqEqual
  <2> QED
    BY <2>6 DEF x, u
<1> HIDE DEF q
<1>4. \A i \in 1 .. Len(q) : q[i] <= now
  <2> SUFFICES ASSUME NEW i \in 1 .. Len(q) PROVE q[i] <= now
    OBVIOUS
  <2>1. CASE i = Len(p) + 1
    BY <2>1, <1>2
  <2>2. CASE i \in 1 .. Len(p)
    BY <2>2, <1>2 DEF Fits
  <2> QED
    BY <2>1, <2>2, <1>2, <1>0
<1>5. Sorted(q)
  <2> SUFFICES ASSUME NEW i \in 1 .. Len(q), NEW j \in 1 .. Len(q), i <= j
               PROVE  q[i] <= q[j]
    BY DEF Sorted
  <2>1. CASE j = Len(p) + 1
    BY <2>1, <1>2, <1>4
  <2>2. CASE j \in 1 .. Len(p)
    <3>1. i \in 1 .. Len(p)
      BY <2>2, <1>0
    <3>2. p[i] <= p[j]
      BY <2>2, <3>1 DEF Fits, Sorted
    <3> QED
      BY <2>2, <3>1, <3>2, <1>2
  <2> QED
    BY <2>1, <2>2, <1>2, <1>0
<1>6. n \in 0 .. Len(q) /\ \A i \in 1 .. n : q[i] <= now - Window
  <2>1. \A i \in 1 .. n : i \in 1 .. Len(p)
    BY <1>0
  <2>2. \A i \in 1 .. n : q[i] = p[i]
    BY <2>1, <1>2
  <2>3. n \in 0 .. Len(q)
    BY <1>0, <1>2
  <2> QED
    BY <2>2, <2>3, <1>1
<1>7. ASSUME NEW i \in 1 .. Len(q), i + Limit <= Len(q)
      PROVE  q[i + Limit] - q[i] >= Window
  <2>1. CASE i + Limit <= Len(p)
    <3>1. i \in 1 .. Len(p) /\ i + Limit \in 1 .. Len(p)
      BY <2>1, <1>0
    <3>2. p[i + Limit] - p[i] >= Window
      BY <2>1, <3>1 DEF Fits
    <3> QED
      BY <3>1, <3>2, <1>2
  <2>2. CASE i + Limit = Len(p) + 1
    <3>1. i \in 1 .. n /\ i \in 1 .. Len(p)
      <4>1. Len(p) - n < Limit
        BY <1>1
      <4> QED
        BY <4>1, <2>2, <1>0
    <3>2. p[i] <= now - Window /\ p[i] \in Int /\ q[i] = p[i] /\ q[i + Limit] = now
      BY <3>1, <2>2, <1>0, <1>1, <1>2
    <3> QED
      BY <3>2
  <2> QED
    <3>1. i + Limit \in Int /\ i + Limit <= Len(p) + 1
      BY <1>7, <1>2
    <3>2. i + Limit <= Len(p) \/ i + Limit = Len(p) + 1
      BY <3>1, <1>0
    <3> QED
      BY <3>2, <2>1, <2>2
<1> QED
  BY <1>2, <1>3, <1>4, <1>5, <1>6, <1>7 DEF Fits, q

\* A request at the limit only slides the window.
LEMMA RefuseFits ==
  ASSUME now \in Int, NEW p, NEW w, Fits(p, w, now)
  PROVE  Fits(p, Slide(w), now)
  BY SlideFits DEF Fits

\* The cleanup evicts a key none of whose timestamps is in the window.
LEMMA EvictFits ==
  ASSUME now \in Int, NEW p, NEW w, Fits(p, w, now), \A i \in DOMAIN w : ~InWindow(w[i])
  PROVE  Fits(p, <<>>, now)
<1> USE LimiterAssumption
<1>0. p \in Seq(Int) /\ Len(p) \in Nat /\ p \in [1 .. Len(p) -> Int]
  BY DEF Fits
<1>1. PICK n \in 0 .. Len(p) :
        /\ w = SubSeq(p, n + 1, Len(p))
        /\ \A i \in 1 .. n : p[i] <= now - Window
  BY DEF Fits
<1>2. /\ w \in Seq(Int) /\ Len(w) = Len(p) - n
      /\ \A i \in 1 .. Len(p) - n : w[i] = p[n + i]
  <2>1. 0 \in 0 .. Len(p) - n
    BY <1>0
  <2> QED
    BY <1>0, <1>1, <2>1, TailOfTail
<1>3. \A i \in 1 .. Len(p) : p[i] <= now - Window
  <2> SUFFICES ASSUME NEW i \in 1 .. Len(p) PROVE p[i] <= now - Window
    OBVIOUS
  <2>1. CASE i <= n
    BY <2>1, <1>1
  <2>2. CASE i > n
    <3>1. i - n \in 1 .. Len(p) - n /\ n + (i - n) = i
      BY <2>2, <1>0
    <3>2. i - n \in DOMAIN w
      BY <3>1, <1>2
    <3>3. w[i - n] = p[i] /\ ~InWindow(w[i - n])
      BY <3>1, <3>2, <1>2
    <3> QED
      BY <3>3, <1>0 DEF InWindow
  <2> QED
    BY <2>1, <2>2
<1>4. Len(p) \in 0 .. Len(p) /\ SubSeq(p, Len(p) + 1, Len(p)) = <<>>
  BY <1>0
<1> QED
  BY <1>3, <1>4 DEF Fits

\* Time passes: what was out of the window stays out.
LEMMA TickFits ==
  ASSUME NEW t \in Int, NEW u \in Int, t <= u, NEW p, NEW w, Fits(p, w, t)
  PROVE  Fits(p, w, u)
<1> USE LimiterAssumption
<1>0. p \in Seq(Int) /\ Len(p) \in Nat /\ p \in [1 .. Len(p) -> Int]
  BY DEF Fits
<1>1. PICK n \in 0 .. Len(p) :
        /\ w = SubSeq(p, n + 1, Len(p))
        /\ \A i \in 1 .. n : p[i] <= t - Window
  BY DEF Fits
<1>2. \A i \in 1 .. n : p[i] <= u - Window
  BY <1>0, <1>1
<1>3. \A i \in 1 .. Len(p) : p[i] <= u
  BY <1>0 DEF Fits
<1>4. \E j \in 0 .. Len(p) :
        /\ w = SubSeq(p, j + 1, Len(p))
        /\ \A i \in 1 .. j : p[i] <= u - Window
  BY <1>1, <1>2
<1>5. p \in Seq(Int) /\ Sorted(p)
      /\ \A i \in 1 .. Len(p) : i + Limit <= Len(p) => p[i + Limit] - p[i] >= Window
  BY DEF Fits
<1> QED
  BY <1>3, <1>4, <1>5 DEF Fits

\* The limiter starts without any timestamp.
LEMMA LimiterStart == LimiterInit => LimiterInv
<1> SUFFICES ASSUME LimiterInit PROVE LimiterInv
  OBVIOUS
<1>1. Fits(<<>>, <<>>, 0)
  BY LimiterAssumption DEF Fits, Sorted
<1> QED
  BY <1>1 DEF LimiterInit, LimiterInv

\* What a step of the whole system does to the limiter.
LimiterStep ==
  \/ Tick
  \/ Cleanup /\ UNCHANGED now
  \/ \E k \in Keys : (Refuse(k) \/ Admit(k)) /\ UNCHANGED now
  \/ UNCHANGED <<now, limiterVars>>

\* Each of them keeps the invariant.
LEMMA LimiterKept == LimiterInv /\ LimiterStep => LimiterInv'
<1> SUFFICES ASSUME LimiterInv, LimiterStep PROVE LimiterInv'
  OBVIOUS
<1>0. now \in Int /\ DOMAIN windows = Keys /\ DOMAIN passed = Keys
  BY DEF LimiterInv
<1>1. CASE Tick
  <2>1. now' = now + 1 /\ windows' = windows /\ passed' = passed
    BY <1>1 DEF Tick, limiterVars
  <2>2. \A k \in Keys : Fits(passed[k], windows[k], now + 1)
    <3>1. now + 1 \in Int /\ now <= now + 1
      BY <1>0
    <3> QED
      BY <1>0, <3>1, TickFits DEF LimiterInv
  <2> QED
    BY <1>0, <2>1, <2>2 DEF LimiterInv
<1>2. CASE Cleanup /\ UNCHANGED now
  <2>1. /\ passed' = passed /\ now' = now /\ DOMAIN windows' = Keys
        /\ \A k \in Keys :
             \/ windows'[k] = windows[k]
             \/ windows'[k] = <<>> /\ \A i \in DOMAIN windows[k] : ~InWindow(windows[k][i])
    BY <1>2 DEF Cleanup
  <2>2. \A k \in Keys : Fits(passed[k], windows'[k], now)
    BY <1>0, <2>1, EvictFits DEF LimiterInv
  <2> QED
    BY <1>0, <2>1, <2>2 DEF LimiterInv
<1>3. ASSUME NEW k \in Keys, Refuse(k), UNCHANGED now
      PROVE  LimiterInv'
  <2>1. /\ passed' = passed /\ now' = now /\ DOMAIN windows' = Keys
        /\ windows'[k] = Slide(windows[k]) /\ \A j \in Keys \ {k} : windows'[j] = windows[j]
    BY <1>0, <1>3 DEF Refuse, Recent
  <2>2. \A j \in Keys : Fits(passed[j], windows'[j], now)
    BY <1>0, <2>1, RefuseFits DEF LimiterInv
  <2> QED
    BY <1>0, <2>1, <2>2 DEF LimiterInv
<1>4. ASSUME NEW k \in Keys, Admit(k), UNCHANGED now
      PROVE  LimiterInv'
  <2>1. /\ now' = now /\ DOMAIN windows' = Keys /\ DOMAIN passed' = Keys
        /\ windows'[k] = Append(Slide(windows[k]), now) /\ passed'[k] = Append(passed[k], now)
        /\ \A j \in Keys \ {k} : windows'[j] = windows[j] /\ passed'[j] = passed[j]
        /\ Len(Slide(windows[k])) < Limit
    BY <1>0, <1>4 DEF Admit, Recent
  <2>2. Fits(passed'[k], windows'[k], now)
    BY <1>0, <2>1, AdmitFits DEF LimiterInv
  <2>3. \A j \in Keys : Fits(passed'[j], windows'[j], now)
    BY <2>1, <2>2 DEF LimiterInv
  <2> QED
    BY <1>0, <2>1, <2>3 DEF LimiterInv
<1>5. CASE UNCHANGED <<now, limiterVars>>
  BY <1>5 DEF LimiterInv, limiterVars
<1> QED
  BY <1>1, <1>2, <1>3, <1>4, <1>5 DEF LimiterStep

\* The invariant bounds the requests of a window.
LEMMA LimiterBounds == LimiterInv => WindowBound
<1> SUFFICES ASSUME LimiterInv, NEW k \in Keys, NEW i \in DOMAIN passed[k],
                    i + Limit \in DOMAIN passed[k]
             PROVE  passed[k][i + Limit] - passed[k][i] >= Window
  BY DEF WindowBound
<1>1. Fits(passed[k], windows[k], now)
  BY DEF LimiterInv
<1>2. passed[k] \in Seq(Int) /\ DOMAIN passed[k] = 1 .. Len(passed[k])
  BY <1>1 DEF Fits
<1> QED
  BY <1>1, <1>2, LimiterAssumption DEF Fits

\* The invariant says what the limiter counts.
LEMMA LimiterCounts == LimiterInv => CountExact
<1> SUFFICES ASSUME LimiterInv, NEW k \in Keys
             PROVE  Len(Recent(k)) =
                      Cardinality({i \in DOMAIN passed[k] : InWindow(passed[k][i])})
  BY DEF CountExact
<1> DEFINE p == passed[k]
<1>0. now \in Int /\ Fits(p, windows[k], now)
  BY DEF LimiterInv
<1> HIDE DEF p
<1>1. p \in Seq(Int) /\ Len(p) \in Nat /\ p \in [1 .. Len(p) -> Int] /\ DOMAIN p = 1 .. Len(p)
  BY <1>0 DEF Fits
<1>2. PICK n \in 0 .. Len(p) :
        /\ Len(Slide(windows[k])) = Len(p) - n
        /\ \A i \in 1 .. n : p[i] <= now - Window
        /\ \A i \in n + 1 .. Len(p) : InWindow(p[i])
  BY <1>0, SlideFits
<1>3. {i \in DOMAIN p : InWindow(p[i])} = n + 1 .. Len(p)
  <2>1. \A i \in 1 .. n : ~InWindow(p[i])
    <3> SUFFICES ASSUME NEW i \in 1 .. n PROVE ~InWindow(p[i])
      OBVIOUS
    <3>1. p[i] \in Int /\ p[i] <= now - Window
      BY <1>1, <1>2
    <3> QED
      BY <1>0, <3>1, LimiterAssumption DEF InWindow
  <2>2. \A i : i \in 1 .. Len(p) <=> i \in 1 .. n \/ i \in n + 1 .. Len(p)
    BY <1>1
  <2>3. \A i : ~(i \in 1 .. n /\ i \in n + 1 .. Len(p))
    BY <1>1
  <2> QED
    BY <1>1, <1>2, <2>1, <2>2, <2>3
<1>4. Cardinality(n + 1 .. Len(p)) = Len(p) - n
  <2>1. n + 1 \in Int /\ Len(p) \in Int
    BY <1>1
  <2>2. Cardinality(n + 1 .. Len(p)) = IF n + 1 > Len(p) THEN 0 ELSE Len(p) - (n + 1) + 1
    BY <2>1, FS_Interval
  <2> QED
    BY <1>1, <2>2
<1> QED
  BY <1>2, <1>3, <1>4 DEF Recent, p

\* Every step of registration and login is one of them.
LEMMA StepsOfLimiter == [Next]_vars => LimiterStep
<1> SUFFICES ASSUME [Next]_vars PROVE LimiterStep
  OBVIOUS
<1>1. CASE UNCHANGED vars
  BY <1>1 DEF vars, LimiterStep
<1>2. ASSUME NEW w \in Workers, Endpoint(w)
      PROVE  UNCHANGED now
  BY <1>2 DEF Endpoint, SendCode, VerifyCode, RegistrationBegin, RegistrationVerify
<1>3. ASSUME NEW w \in Workers,
             \/ SendCooldown(w) \/ SendSweep(w) \/ SendInsert(w)
             \/ VerifyExhaust(w) \/ VerifyCount(w) \/ VerifyConfirm(w)
             \/ RegistrationCreate(w) \/ LoginCreate(w)
             \/ \E p \in Passkeys : PasskeyVerify(w, p)
      PROVE  UNCHANGED <<now, limiterVars>>
  BY <1>3 DEF SendCooldown, SendSweep, SendInsert, VerifyExhaust, VerifyCount, VerifyConfirm,
              RegistrationCreate, LoginCreate, PasskeyVerify
<1>4. ASSUME NEW p \in Passkeys, InviteUser(p)
      PROVE  UNCHANGED <<now, limiterVars>>
  BY <1>4 DEF InviteUser
<1>5. ASSUME NEW u \in users, DeleteUser(u)
      PROVE  UNCHANGED <<now, limiterVars>>
  BY <1>5 DEF DeleteUser
<1>6. Rejected => UNCHANGED now
  BY DEF Rejected
<1> QED
  BY <1>1, <1>2, <1>3, <1>4, <1>5, <1>6 DEF Next, LimiterStep

\* The invariant of the limiter holds of every behaviour.
THEOREM LimiterInvariance == Spec => []LimiterInv
<1>1. Init => LimiterInv
  BY LimiterStart DEF Init
<1>2. LimiterInv /\ [Next]_vars => LimiterInv'
  BY LimiterKept, StepsOfLimiter
<1> QED
  BY <1>1, <1>2, PTL DEF Spec

\* RateLimiter.Allow, with cleanup evicting keys behind its back, lets at most
\* Limit requests of a key through in any window, wherever the window starts
\* and however the requests, refusals, evictions and ticks interleave.
THEOREM LimiterHolds == Spec => []WindowBound
  BY LimiterInvariance, LimiterBounds, PTL

\* And it refuses nobody it could have let through: what it counts is exactly
\* what it let through in the last window.
THEOREM LimiterIsExact == Spec => []CountExact
  BY LimiterInvariance, LimiterCounts, PTL
================================================================================
