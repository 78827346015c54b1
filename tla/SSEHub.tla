------------------------------- MODULE SSEHub -------------------------------
(***************************************************************************)
(* The event hub (handler/sse_hub.go), the stream handlers that read from  *)
(* it (handler/sse.go), the requests that broadcast an approval's outcome  *)
(* (broadcastApproval in handler/approval.go), and the shutdown sequence   *)
(* of main.go.  A channel is named by the connection it was made for.      *)
(*                                                                         *)
(* hub.mu is a read-write lock: Subscribe, Unsubscribe and Stop run alone, *)
(* a Broadcast shares the hub with other broadcasts, and every receive     *)
(* goes on meanwhile.                                                      *)
(***************************************************************************)
EXTENDS Naturals, Sequences, FiniteSets

CONSTANTS
  Users,
  Conns,     \* GET /api/events/stream requests
  Posts,     \* requests that broadcast one event each
  UserOf,    \* the user of a connection and of a post
  PerUser,   \* maxSSEConnsPerUser
  Global,    \* maxGlobalSSEConns
  Buffer     \* capacity of each connection's channel (the code gives all of them 16)

ASSUME HubAssumption ==
  /\ Conns \cap Posts = {}
  /\ UserOf \in [Conns \cup Posts -> Users]
  /\ {PerUser, Global} \subseteq Nat
  /\ Buffer \in [Conns -> Nat \ {0}]

VARIABLES
  subscribers, \* user -> channels
  buf,         \* contents of a channel
  closes,      \* how often close was called on a channel
  panicked,    \* a send on a closed channel
  pc,          \* where a connection's handler stands
  gone,        \* the client went away or the write deadline passed
  seen,        \* events written to the client (history)
  offered,     \* events broadcast while the channel was registered (history)
  missed,      \* those skipped because the buffer was full (history)
  todo,        \* channels a broadcast still has to send to
  bpc,         \* where a broadcasting request stands
  server       \* "up", "draining", "stopped" or "killed"

hubVars    == <<subscribers, buf, closes, panicked>>
streamVars == <<pc, gone, seen>>
postVars   == <<todo, bpc>>
histVars   == <<offered, missed>>
vars == <<hubVars, streamVars, postVars, histVars, server>>

Streaming == {"greet", "loop", "leave"}

TypeOK ==
  /\ subscribers \in [Users -> SUBSET Conns]
  /\ buf \in [Conns -> Seq(Posts)]
  /\ closes \in [Conns -> Nat]
  /\ panicked \in BOOLEAN
  /\ pc \in [Conns -> {"idle", "refused", "done"} \cup Streaming]
  /\ gone \in [Conns -> BOOLEAN]
  /\ seen \in [Conns -> Seq(Posts)]
  /\ offered \in [Conns -> SUBSET Posts]
  /\ missed \in [Conns -> SUBSET Posts]
  /\ todo \in [Posts -> SUBSET Conns]
  /\ bpc \in [Posts -> {"idle", "sending", "done"}]
  /\ server \in {"up", "draining", "stopped", "killed"}

Init ==
  /\ subscribers = [u \in Users |-> {}]
  /\ buf = [c \in Conns |-> <<>>]
  /\ closes = [c \in Conns |-> 0]
  /\ panicked = FALSE
  /\ pc = [c \in Conns |-> "idle"]
  /\ gone = [c \in Conns |-> FALSE]
  /\ seen = [c \in Conns |-> <<>>]
  /\ offered = [c \in Conns |-> {}]
  /\ missed = [c \in Conns |-> {}]
  /\ todo = [b \in Posts |-> {}]
  /\ bpc = [b \in Posts |-> "idle"]
  /\ server = "up"

\* The process is there to take a step.
Running == server \in {"up", "draining"}

\* The write lock is free: no broadcast holds the read lock.
NoReaders == \A b \in Posts : bpc[b] # "sending"

Goto(c, label) == pc' = [pc EXCEPT ![c] = label]

-----------------------------------------------------------------------------
(* Stream handlers.                                                        *)

Connected == {c \in Conns : \E u \in Users : c \in subscribers[u]}

\* An off-by-one on both limits.
Subscribe_OneMore(c) ==
  /\ Running
  /\ pc[c] = "idle"
  /\ NoReaders
  /\ IF \/ Cardinality(Connected) > Global
        \/ Cardinality(subscribers[UserOf[c]]) > PerUser
     THEN Goto(c, "refused") /\ UNCHANGED subscribers
     ELSE /\ Goto(c, "greet")
          /\ subscribers' = [subscribers EXCEPT ![UserOf[c]] = @ \cup {c}]
  /\ UNCHANGED <<buf, closes, panicked, gone, seen, postVars, histVars, server>>

\* Both limits are counted and the channel registered under the write lock.
Subscribe(c) ==
  /\ Running
  /\ pc[c] = "idle"
  /\ NoReaders
  /\ IF \/ Cardinality(Connected) >= Global
        \/ Cardinality(subscribers[UserOf[c]]) >= PerUser
     THEN Goto(c, "refused") /\ UNCHANGED subscribers
     ELSE /\ Goto(c, "greet")
          /\ subscribers' = [subscribers EXCEPT ![UserOf[c]] = @ \cup {c}]
  /\ UNCHANGED <<buf, closes, panicked, gone, seen, postVars, histVars, server>>

\* The bug of a return before the deferred Unsubscribe is set up.
Greet_LeaksOnError(c) ==
  /\ Running /\ pc[c] = "greet"
  /\ \/ Goto(c, "loop")
     \/ gone[c] /\ Goto(c, "done")
  /\ UNCHANGED <<gone, seen, hubVars, postVars, histVars, server>>

\* ": connected" is written; a failed write ends the handler.
Greet(c) ==
  /\ Running /\ pc[c] = "greet"
  /\ \/ Goto(c, "loop")
     \/ gone[c] /\ Goto(c, "leave")
  /\ UNCHANGED <<gone, seen, hubVars, postVars, histVars, server>>

\* An off-by-one: the last event of a burst waits for the next burst.
Receive_KeepsOne(c) ==
  /\ Running /\ pc[c] = "loop"
  /\ Len(buf[c]) > 1
  /\ buf' = [buf EXCEPT ![c] = Tail(@)]
  /\ seen' = [seen EXCEPT ![c] = Append(@, Head(buf[c]))]
  /\ UNCHANGED <<pc, subscribers, closes, panicked, gone, postVars, histVars, server>>

\* One event is taken from the channel and written.
Receive(c) ==
  /\ Running /\ pc[c] = "loop"
  /\ buf[c] # <<>>
  /\ buf' = [buf EXCEPT ![c] = Tail(@)]
  /\ \/ seen' = [seen EXCEPT ![c] = Append(@, Head(buf[c]))] /\ UNCHANGED pc
     \/ gone[c] /\ Goto(c, "leave") /\ UNCHANGED seen
  /\ UNCHANGED <<subscribers, closes, panicked, gone, postVars, histVars, server>>

\* The loop ends: context done, a heartbeat that cannot be written, or the
\* channel closed and drained.
Disconnect(c) ==
  /\ Running /\ pc[c] = "loop"
  /\ \/ gone[c]
     \/ closes[c] > 0 /\ buf[c] = <<>>
  /\ Goto(c, "leave")
  /\ UNCHANGED <<gone, seen, hubVars, postVars, histVars, server>>

\* The deferred Unsubscribe forgets the channel and closes it; what is left in it
\* nobody receives, and its history ends.
Unsubscribe(c) ==
  /\ Running /\ pc[c] = "leave"
  /\ NoReaders
  /\ subscribers' = [subscribers EXCEPT ![UserOf[c]] = @ \ {c}]
  /\ closes' = [closes EXCEPT ![c] = @ + 1]
  /\ buf' = [buf EXCEPT ![c] = <<>>]
  /\ seen' = [seen EXCEPT ![c] = <<>>]
  /\ offered' = [offered EXCEPT ![c] = {}]
  /\ missed' = [missed EXCEPT ![c] = {}]
  /\ Goto(c, "done")
  /\ UNCHANGED <<panicked, gone, postVars, server>>

ClientGone(c) ==
  /\ Running /\ pc[c] \in Streaming /\ ~gone[c]
  /\ gone' = [gone EXCEPT ![c] = TRUE]
  /\ UNCHANGED <<pc, seen, hubVars, postVars, histVars, server>>

-----------------------------------------------------------------------------
(* Broadcast.                                                              *)

\* The read lock is taken and the user's channels looked up.
BroadcastBegin(b) ==
  /\ Running
  /\ bpc[b] = "idle"
  /\ bpc' = [bpc EXCEPT ![b] = "sending"]
  /\ todo' = [todo EXCEPT ![b] = subscribers[UserOf[b]]]
  /\ offered' = [c \in Conns |->
                   IF c \in subscribers[UserOf[b]] THEN offered[c] \cup {b} ELSE offered[c]]
  /\ UNCHANGED <<missed, hubVars, streamVars, server>>

\* A full buffer overwrites its last event.
BroadcastSend_Overwrites(b, c) ==
  /\ Running /\ c \in todo[b]
  /\ todo' = [todo EXCEPT ![b] = @ \ {c}]
  /\ buf' = [buf EXCEPT ![c] = IF Len(@) < Buffer[c] THEN Append(@, b) ELSE <<b>>]
  /\ UNCHANGED <<missed, panicked, subscribers, closes, bpc, offered, streamVars, server>>

\* A send that waits for room while it holds the hub's lock.
BroadcastSend_Blocks(b, c) ==
  /\ Running /\ c \in todo[b]
  /\ Len(buf[c]) < Buffer[c]
  /\ todo' = [todo EXCEPT ![b] = @ \ {c}]
  /\ buf' = [buf EXCEPT ![c] = Append(@, b)]
  /\ UNCHANGED <<missed, panicked, subscribers, closes, bpc, offered, streamVars, server>>

\* Non-blocking send: a full buffer skips this channel.
BroadcastSend(b, c) ==
  /\ Running /\ c \in todo[b]
  /\ todo' = [todo EXCEPT ![b] = @ \ {c}]
  /\ IF closes[c] > 0
     THEN panicked' = TRUE /\ UNCHANGED <<buf, missed>>
     ELSE IF Len(buf[c]) < Buffer[c]
     THEN buf' = [buf EXCEPT ![c] = Append(@, b)] /\ UNCHANGED <<missed, panicked>>
     ELSE missed' = [missed EXCEPT ![c] = @ \cup {b}] /\ UNCHANGED <<buf, panicked>>
  /\ UNCHANGED <<subscribers, closes, bpc, offered, streamVars, server>>

BroadcastEnd(b) ==
  /\ Running /\ bpc[b] = "sending" /\ todo[b] = {}
  /\ bpc' = [bpc EXCEPT ![b] = "done"]
  /\ UNCHANGED <<todo, hubVars, streamVars, histVars, server>>

-----------------------------------------------------------------------------
(* Shutdown.                                                               *)

\* SIGTERM: srv.Shutdown accepts no new request.  One accepted before may still
\* subscribe or broadcast; one that is idle when Shutdown returns never came.
Signal ==
  /\ server = "up"
  /\ server' = "draining"
  /\ UNCHANGED <<hubVars, streamVars, postVars, histVars>>

\* No request is being served.
Idle ==
  /\ \A c \in Conns : pc[c] \notin Streaming
  /\ \A b \in Posts : bpc[b] # "sending"

\* SSEHub.Stop closes what is registered.
StopHub ==
  /\ NoReaders
  /\ closes' = [c \in Conns |-> IF c \in Connected THEN closes[c] + 1 ELSE closes[c]]
  /\ subscribers' = [u \in Users |-> {}]
  /\ UNCHANGED <<buf, panicked>>

\* The hub stopped before the server is drained: handlers are still running.
ShutdownDone_StopsFirst ==
  /\ server = "draining"
  /\ StopHub
  /\ UNCHANGED <<server, streamVars, postVars, histVars>>

\* Shutdown returns when every handler has; then main's defers run, the hub's
\* Stop among them.
ShutdownDone ==
  /\ server = "draining"
  /\ Idle
  /\ server' = "stopped"
  /\ StopHub
  /\ UNCHANGED <<streamVars, postVars, histVars>>

\* After 30 s the process exits instead, defers and all.
ShutdownTimeout ==
  /\ server = "draining"
  /\ server' = "killed"
  /\ UNCHANGED <<hubVars, streamVars, postVars, histVars>>

-----------------------------------------------------------------------------
StreamStep(c) == Greet(c) \/ Receive(c) \/ Disconnect(c) \/ Unsubscribe(c)
PostStep(b)   == BroadcastEnd(b) \/ \E c \in Conns : BroadcastSend(b, c)

Next ==
  \/ \E c \in Conns : Subscribe(c) \/ ClientGone(c) \/ StreamStep(c)
  \/ \E b \in Posts : BroadcastBegin(b) \/ PostStep(b)
  \/ Signal \/ ShutdownDone \/ ShutdownTimeout

Spec == Init /\ [][Next]_vars

\* Handlers keep running (a stream wakes up at least for its heartbeat), and
\* the shutdown deadline is a timer.  Nothing makes a client leave.
Fairness ==
  /\ \A c \in Conns : WF_vars(StreamStep(c))
  /\ \A b \in Posts : WF_vars(PostStep(b))
  /\ WF_vars(ShutdownDone \/ ShutdownTimeout)

FairSpec == Spec /\ Fairness

-----------------------------------------------------------------------------
(* Properties.                                                             *)

\* No channel is closed twice and none is sent on after its close, although
\* Stop, Unsubscribe and Broadcast come from different goroutines.
PanicFree == ~panicked /\ \A c \in Conns : closes[c] <= 1

\* A connection slot is taken exactly while a handler is there to give it
\* back, so the per-user and global limits never leak.
SlotsHeldByHandlers ==
  Running => \A c \in Conns : c \in Connected <=> pc[c] \in Streaming

ToSet(s) == {s[i] : i \in DOMAIN s}

\* Every event broadcast to a registered stream is on its way, written to the
\* client, skipped because the buffer was full, or lost with the client: none
\* disappears, none comes twice, none reaches another user's stream.
Accounted ==
  \A c \in Conns :
    LET flow == seen[c] \o buf[c] IN
    /\ \A i, j \in DOMAIN flow : i # j => flow[i] # flow[j]
    /\ ToSet(flow) \cap missed[c] = {}
    /\ \A b \in offered[c] : UserOf[b] = UserOf[c]
    /\ pc[c] \in Streaming /\ ~gone[c] =>
         offered[c] = ToSet(flow) \cup missed[c] \cup {b \in Posts : c \in todo[b]}

\* A client that went away gives its slot back.
ReleasedWhenGone(c) == gone[c] ~> (c \notin Connected \/ server = "killed")

\* A stream's buffer always drains, so that a burst of events costs the client
\* no more than the burst, unless the client or the server ends.
Drains(c) == (buf[c] # <<>>) ~> (buf[c] = <<>> \/ gone[c] \/ ~Running)
=============================================================================
