----------------------------- MODULE Idempotency -----------------------------
(***************************************************************************)
(* The Idempotency-Key cache (handler/idempotency.go) around the endpoints *)
(* that use it: Transfer, WrapSOL and UnwrapSOL (handler/wallet.go).  A    *)
(* request looks its key up, does its work, and stores its response; the   *)
(* three are separate steps, and nothing is reserved in between.           *)
(*                                                                         *)
(* A key here is the unique index of model.IdempotencyRecord: header, user *)
(* and wallet.  Time is counted in ticks of any length.                    *)
(***************************************************************************)
EXTENDS Naturals

CONSTANTS
  Requests,
  Keys,
  KeyOf,      \* key of each request; None without the header, and for
              \* /contract-call, which does not read it
  None,
  TTL,        \* idempotencyTTL
  MaxNow,     \* bound: the clock
  MaxFaults,  \* bound: statements the database may refuse
  MaxCrashes  \* bound: process crashes

ASSUME IdempotencyAssumption ==
  /\ None \notin Keys \cup Requests
  /\ KeyOf \in [Requests -> Keys \cup {None}]
  /\ TTL \in Nat \ {0}
  /\ MaxNow \in Nat /\ MaxFaults \in Nat /\ MaxCrashes \in Nat

VARIABLES
  now,
  rec,       \* the table: whose response is stored under the key
  at,        \* time at which a request answered; its record expires TTL later
  pc,
  reply,     \* whose 200 response the request returned
  executed,  \* requests whose transaction reached the chain
  stored,    \* requests whose response was inserted (history)
  prior,     \* same-key requests answered less than TTL before the request's
             \* look-up (history)
  alone,     \* requests never under way together with one of the same key
             \* (history)
  blind,     \* requests whose look-up the database refused (history)
  faults, crashes

vars == <<now, rec, at, pc, reply, executed, stored, prior, alone, blind, faults, crashes>>

TypeOK ==
  /\ now \in Nat
  /\ rec \in [Keys -> Requests \cup {None}]
  /\ at \in [Requests -> Nat]
  /\ pc \in [Requests -> {"idle", "work", "respond", "queued", "done"}]
  /\ reply \in [Requests -> Requests \cup {None}]
  /\ executed \subseteq Requests
  /\ stored \subseteq Requests
  /\ prior \in [Requests -> SUBSET Requests]
  /\ alone \subseteq Requests
  /\ blind \subseteq Requests
  /\ faults \in 0 .. MaxFaults
  /\ crashes \in 0 .. MaxCrashes

Init ==
  /\ now = 0
  /\ rec = [k \in Keys |-> None]
  /\ at = [r \in Requests |-> 0]
  /\ pc = [r \in Requests |-> "idle"]
  /\ reply = [r \in Requests |-> None]
  /\ executed = {}
  /\ stored = {}
  /\ prior = [r \in Requests |-> {}]
  /\ alone = Requests
  /\ blind = {}
  /\ faults = 0
  /\ crashes = 0

-----------------------------------------------------------------------------
(* Helpers.                                                                *)

ExpiresAt(r) == at[r] + TTL

DBFault == faults < MaxFaults /\ faults' = faults + 1

Goto(r, label) == pc' = [pc EXCEPT ![r] = label]

\* WHERE key = ? AND user_id = ? AND wallet_id = ? AND expires_at > now
Hit(r) ==
  /\ KeyOf[r] # None
  /\ rec[KeyOf[r]] # None
  /\ ExpiresAt(rec[KeyOf[r]]) > now

\* What a client would call already processed: answered less than TTL ago.
Processed(r) ==
  {s \in Requests : /\ KeyOf[s] # None /\ KeyOf[s] = KeyOf[r]
                    /\ reply[s] = s
                    /\ ExpiresAt(s) > now}

Underway(r) == {s \in Requests \ {r} : KeyOf[s] = KeyOf[r] /\ pc[s] \in {"work", "respond"}}

-----------------------------------------------------------------------------
(* Requests.                                                               *)

\* CheckIdempotency: the cached response, or the request goes ahead - also when
\* the look-up failed, whatever the table holds.
Check(r) ==
  /\ pc[r] = "idle"
  /\ \/ /\ Hit(r)
        /\ reply' = [reply EXCEPT ![r] = rec[KeyOf[r]]]
        /\ Goto(r, "done")
        /\ UNCHANGED <<blind, faults>>
     \/ /\ ~Hit(r)
        /\ Goto(r, "work")
        /\ UNCHANGED <<reply, blind, faults>>
     \/ /\ KeyOf[r] # None
        /\ DBFault
        /\ Goto(r, "work")
        /\ blind' = blind \cup {r}
        /\ UNCHANGED reply
  /\ prior' = [prior EXCEPT ![r] = Processed(r)]
  /\ alone' = IF Underway(r) = {} THEN alone ELSE alone \ ({r} \cup Underway(r))
  /\ UNCHANGED <<now, rec, at, executed, stored, crashes>>

\* signAndBroadcast succeeded.
Execute(r) ==
  /\ pc[r] = "work"
  /\ executed' = executed \cup {r}
  /\ Goto(r, "respond")
  /\ UNCHANGED <<now, rec, at, reply, stored, prior, alone, blind, faults, crashes>>

\* The transfer needs approval: 202 with the approval's id, which is not cached.
Queue(r) ==
  /\ pc[r] = "work"
  /\ Goto(r, "queued")
  /\ UNCHANGED <<now, rec, at, reply, executed, stored, prior, alone, blind, faults, crashes>>

\* A failed request answered like a successful one.
Fail_Responds(r) ==
  /\ pc[r] = "work"
  /\ Goto(r, "respond")
  /\ UNCHANGED <<now, rec, at, reply, executed, stored, prior, alone, blind, faults, crashes>>

\* Any error response: validation, daily limit, signing, or a broadcast error,
\* which the node may have sent after taking the transaction.
Fail(r) ==
  /\ pc[r] = "work"
  /\ executed' \in {executed, executed \cup {r}}
  /\ Goto(r, "done")
  /\ UNCHANGED <<now, rec, at, reply, stored, prior, alone, blind, faults, crashes>>

\* Save as an upsert.
Respond_Upsert(r) ==
  /\ pc[r] = "respond"
  /\ reply' = [reply EXCEPT ![r] = r]
  /\ at' = [at EXCEPT ![r] = now]
  /\ Goto(r, "done")
  /\ IF KeyOf[r] # None
     THEN rec' = [rec EXCEPT ![KeyOf[r]] = r] /\ stored' = stored \cup {r}
     ELSE UNCHANGED <<rec, stored>>
  /\ UNCHANGED <<now, executed, prior, alone, blind, faults, crashes>>

\* respondWithIdempotency: INSERT, then the 200.  The insert fails on the
\* unique index when there is a record, expired or not, or on a database
\* error; either is only logged.
Respond(r) ==
  /\ pc[r] = "respond"
  /\ reply' = [reply EXCEPT ![r] = r]
  /\ at' = [at EXCEPT ![r] = now]
  /\ Goto(r, "done")
  /\ \/ /\ KeyOf[r] # None
        /\ rec[KeyOf[r]] = None
        /\ rec' = [rec EXCEPT ![KeyOf[r]] = r]
        /\ stored' = stored \cup {r}
        /\ UNCHANGED faults
     \/ /\ KeyOf[r] # None => rec[KeyOf[r]] # None
        /\ UNCHANGED <<rec, stored, faults>>
     \/ /\ KeyOf[r] # None
        /\ DBFault
        /\ UNCHANGED <<rec, stored>>
  /\ UNCHANGED <<now, executed, prior, alone, blind, crashes>>

-----------------------------------------------------------------------------
(* The clock, the hourly cleanup, and a crash.                             *)

Tick ==
  /\ now < MaxNow
  /\ now' = now + 1
  /\ UNCHANGED <<rec, at, pc, reply, executed, stored, prior, alone, blind, faults, crashes>>

\* The comparison the wrong way round.
Cleanup_Reversed ==
  /\ rec' = [k \in Keys |-> IF rec[k] # None /\ ExpiresAt(rec[k]) > now THEN None ELSE rec[k]]
  /\ UNCHANGED <<now, at, pc, reply, executed, stored, prior, alone, blind, faults, crashes>>

Expired == {k \in Keys : rec[k] # None /\ ExpiresAt(rec[k]) < now}

\* DELETE ... WHERE expires_at < now, in batches until none is left or one is
\* refused.
Cleanup ==
  /\ \E gone \in SUBSET Expired :
       /\ (gone = Expired /\ UNCHANGED faults) \/ DBFault
       /\ rec' = [k \in Keys |-> IF k \in gone THEN None ELSE rec[k]]
  /\ UNCHANGED <<now, at, pc, reply, executed, stored, prior, alone, blind, crashes>>

\* Requests under way vanish, executed or not; the table stays.
Crash ==
  /\ crashes < MaxCrashes
  /\ crashes' = crashes + 1
  /\ pc' = [r \in Requests |-> IF pc[r] \in {"work", "respond"} THEN "done" ELSE pc[r]]
  /\ UNCHANGED <<now, rec, at, reply, executed, stored, prior, alone, blind, faults>>

Next ==
  \/ \E r \in Requests : Check(r) \/ Execute(r) \/ Queue(r) \/ Fail(r) \/ Respond(r)
  \/ Tick
  \/ Cleanup
  \/ Crash

Spec == Init /\ [][Next]_vars

-----------------------------------------------------------------------------
(* Properties.                                                             *)

\* A retry that comes within TTL of a stored answer gets that answer and
\* executes nothing, whatever overlaps, crashes, faults, failed look-ups of other
\* requests and cleanups lie between - unless its own look-up failed, which
\* Check takes for a miss.
RetryReplays ==
  \A r \in Requests \ blind : \A s \in prior[r] \cap stored :
    reply[r] = s /\ r \notin executed

\* Two stored answers of one key lie at least TTL apart: overlapping requests
\* cannot both be cached, and a record cannot be replaced while it is live.
StoredApart ==
  \A r, s \in stored : r # s /\ KeyOf[r] = KeyOf[s] =>
    at[r] >= ExpiresAt(s) \/ at[s] >= ExpiresAt(r)

\* A success is only ever reported for a transaction that is out: one's own,
\* or the one stored under the same key.
ReplaysReal ==
  \A r \in Requests : reply[r] # None =>
    /\ reply[r] \in executed
    /\ reply[r] = r \/ (reply[r] \in stored /\ KeyOf[reply[r]] = KeyOf[r])

-----------------------------------------------------------------------------
(* The inductive invariant behind the three.                               *)

\* A stored answer is in the table until after it expired.
StoredInv ==
  /\ \A k \in Keys : rec[k] # None => rec[k] \in stored /\ KeyOf[rec[k]] = k
  /\ \A s \in stored : /\ KeyOf[s] \in Keys
                       /\ reply[s] = s
                       /\ at[s] <= now
                       /\ rec[KeyOf[s]] = s \/ ExpiresAt(s) < now

\* A request answers once, at its end, and looks back at answers only.
StageInv ==
  \A r \in Requests :
    /\ pc[r] \in {"idle", "work", "respond"} => reply[r] = None
    /\ pc[r] = "respond" => r \in executed
    /\ pc[r] = "idle" => prior[r] = {} /\ r \notin executed
    /\ \A s \in prior[r] : reply[s] = s

IndInv == TypeOK /\ StoredInv /\ StageInv /\ RetryReplays /\ StoredApart /\ ReplaysReal

-----------------------------------------------------------------------------
(* A claim of the docs that the code does not meet.                        *)

\* "If a request with the same idempotency key has already been processed, the
\* wallet returns the original cached response without executing the transfer
\* again": at least for a client that sends one request at a time, and a database that answers.
ProcessedNotRepeated == \A r \in executed \cap alone : prior[r] \cap alone = {}
=============================================================================
