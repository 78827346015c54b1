---------------------------- MODULE SSEHub_proofs ----------------------------
(***************************************************************************)
(* No channel is closed twice or sent on after its close, and a slot is    *)
(* taken exactly while a stream handler runs, for any number of users,     *)
(* streams and broadcasts and any limits.                                  *)
(*                                                                         *)
(* The argument: a channel leaves the subscribers and is closed in one     *)
(* critical section, which excludes broadcasts (ReaderInv), and the only   *)
(* other closer, Stop, runs when no handler is left, so it finds nothing   *)
(* to close (SlotInv, ShutdownDone).  The second part follows an event     *)
(* from its broadcast to the client (FlowInv); the last shows, step by     *)
(* step, that the hub implements Mailboxes.                                *)
(***************************************************************************)
EXTENDS HubRefinement, SequenceTheorems, FiniteSetTheorems, TLAPS

USE DEF hubVars, streamVars, postVars, histVars, Streaming, Running, NoReaders, Goto

\* Registered channels and running handlers are the same.
SlotInv ==
  /\ \A u \in Users : \A c \in subscribers[u] : UserOf[c] = u /\ pc[c] \in Streaming
  /\ \A c \in Conns : pc[c] \in Streaming => c \in subscribers[UserOf[c]]

\* Only a finished handler has closed its channel, once.
CloseInv == \A c \in Conns : closes[c] = 0 \/ (closes[c] = 1 /\ pc[c] = "done")

\* A broadcast has the read lock while it sends, and only to registered channels.
ReaderInv ==
  \A b \in Posts : \A c \in todo[b] : bpc[b] = "sending" /\ c \in subscribers[UserOf[b]]

HubInv == TypeOK /\ SlotInv /\ CloseInv /\ ReaderInv /\ ~panicked

-----------------------------------------------------------------------------
(* One lemma per action.                                                   *)

\* A new channel is open and its handler begins.
LEMMA SubscribePreserves ==
  ASSUME HubInv, NEW c \in Conns, Subscribe(c)
  PROVE  HubInv'
<1>0. UserOf[c] \in Users
  BY HubAssumption
<1>1. /\ \A d \in Conns : pc'[d] = IF d = c THEN pc'[c] ELSE pc[d]
      /\ pc'[c] \in {"refused", "greet"}
      /\ pc' \in [Conns -> {"idle", "refused", "done"} \cup Streaming]
  BY DEF HubInv, TypeOK, Subscribe
<1>2. /\ subscribers' \in [Users -> SUBSET Conns]
      /\ \A u \in Users : subscribers'[u] =
           IF u = UserOf[c] /\ pc'[c] = "greet" THEN subscribers[u] \cup {c} ELSE subscribers[u]
  <2>1. CASE pc'[c] = "greet"
    <3>1. subscribers' = [subscribers EXCEPT ![UserOf[c]] = @ \cup {c}]
      BY <2>1 DEF HubInv, TypeOK, Subscribe
    <3> QED
      BY <2>1, <3>1, <1>0 DEF HubInv, TypeOK
  <2>2. CASE pc'[c] = "refused"
    <3>1. subscribers' = subscribers
      BY <2>2 DEF HubInv, TypeOK, Subscribe
    <3> QED
      BY <2>2, <3>1 DEF HubInv, TypeOK
  <2> QED
    BY <1>1, <2>1, <2>2
<1>3. TypeOK'
  BY <1>1, <1>2 DEF HubInv, TypeOK, Subscribe
<1>4. pc[c] = "idle"
  BY DEF Subscribe
<1>5. SlotInv'
  <2>1. \A u \in Users : \A d \in subscribers'[u] : UserOf[d] = u /\ pc'[d] \in Streaming
    <3> SUFFICES ASSUME NEW u \in Users, NEW d \in subscribers'[u]
                 PROVE  UserOf[d] = u /\ pc'[d] \in Streaming
      OBVIOUS
    <3> d \in Conns
      BY <1>2
    <3> QED
      BY <1>1, <1>2, <1>4 DEF HubInv, SlotInv
  <2>2. \A d \in Conns : pc'[d] \in Streaming => d \in subscribers'[UserOf[d]]
    BY <1>0, <1>1, <1>2, HubAssumption DEF HubInv, SlotInv
  <2> QED
    BY <2>1, <2>2 DEF SlotInv
<1>6. CloseInv' /\ ~panicked'
  BY <1>1, <1>4 DEF HubInv, CloseInv, Subscribe
<1>7. ReaderInv'
  BY DEF HubInv, TypeOK, ReaderInv, Subscribe
<1> QED
  BY <1>3, <1>5, <1>6, <1>7 DEF HubInv

\* A handler goes on, or out.
LEMMA GreetPreserves ==
  ASSUME HubInv, NEW c \in Conns, Greet(c)
  PROVE  HubInv'
<1>1. /\ \A d \in Conns : pc'[d] = IF d = c THEN pc'[c] ELSE pc[d]
      /\ pc[c] \in Streaming /\ pc'[c] \in Streaming
      /\ pc' \in [Conns -> {"idle", "refused", "done"} \cup Streaming]
  BY DEF HubInv, TypeOK, Greet
<1>2. TypeOK'
  BY <1>1 DEF HubInv, TypeOK, Greet
<1>3. SlotInv'
  <2>1. \A u \in Users : \A d \in subscribers[u] : pc'[d] \in Streaming
    BY <1>1 DEF HubInv, TypeOK, SlotInv
  <2>2. \A d \in Conns : pc'[d] \in Streaming => pc[d] \in Streaming
    BY <1>1
  <2>3. subscribers' = subscribers
    BY DEF Greet
  <2> QED
    BY <2>1, <2>2, <2>3 DEF HubInv, SlotInv
<1>4. CloseInv' /\ ~panicked'
  BY <1>1 DEF HubInv, CloseInv, Greet
<1>5. ReaderInv'
  BY DEF HubInv, TypeOK, ReaderInv, Greet
<1> QED
  BY <1>2, <1>3, <1>4, <1>5 DEF HubInv

\* An event leaves the buffer.
LEMMA ReceivePreserves ==
  ASSUME HubInv, NEW c \in Conns, Receive(c)
  PROVE  HubInv'
<1>1. /\ \A d \in Conns : pc'[d] = IF d = c THEN pc'[c] ELSE pc[d]
      /\ pc[c] \in Streaming /\ pc'[c] \in Streaming
      /\ pc' \in [Conns -> {"idle", "refused", "done"} \cup Streaming]
  BY DEF HubInv, TypeOK, Receive
<1>2. TypeOK'
  <2>1. /\ buf[c] \in Seq(Posts) /\ seen[c] \in Seq(Posts)
        /\ Tail(buf[c]) \in Seq(Posts) /\ Append(seen[c], Head(buf[c])) \in Seq(Posts)
    BY HeadTailProperties, AppendProperties DEF HubInv, TypeOK, Receive
  <2>2. buf' \in [Conns -> Seq(Posts)]
    BY <2>1 DEF HubInv, TypeOK, Receive
  <2>3. seen' \in [Conns -> Seq(Posts)]
    <3>1. CASE seen' = [seen EXCEPT ![c] = Append(@, Head(buf[c]))]
      BY <2>1, <3>1 DEF HubInv, TypeOK
    <3>2. CASE seen' = seen
      BY <3>2 DEF HubInv, TypeOK
    <3> QED
      BY <3>1, <3>2 DEF Receive
  <2> QED
    BY <1>1, <2>2, <2>3 DEF HubInv, TypeOK, Receive
<1>3. SlotInv'
  <2>1. \A u \in Users : \A d \in subscribers[u] : pc'[d] \in Streaming
    BY <1>1 DEF HubInv, TypeOK, SlotInv
  <2>2. \A d \in Conns : pc'[d] \in Streaming => pc[d] \in Streaming
    BY <1>1
  <2>3. subscribers' = subscribers
    BY DEF Receive
  <2> QED
    BY <2>1, <2>2, <2>3 DEF HubInv, SlotInv
<1>4. CloseInv' /\ ~panicked'
  BY <1>1 DEF HubInv, CloseInv, Receive
<1>5. ReaderInv'
  BY DEF HubInv, TypeOK, ReaderInv, Receive
<1> QED
  BY <1>2, <1>3, <1>4, <1>5 DEF HubInv

\* A handler goes out.
LEMMA DisconnectPreserves ==
  ASSUME HubInv, NEW c \in Conns, Disconnect(c)
  PROVE  HubInv'
<1>1. /\ \A d \in Conns : pc'[d] = IF d = c THEN pc'[c] ELSE pc[d]
      /\ pc[c] \in Streaming /\ pc'[c] \in Streaming
      /\ pc' \in [Conns -> {"idle", "refused", "done"} \cup Streaming]
  BY DEF HubInv, TypeOK, Disconnect
<1>2. TypeOK'
  BY <1>1 DEF HubInv, TypeOK, Disconnect
<1>3. SlotInv'
  <2>1. \A u \in Users : \A d \in subscribers[u] : pc'[d] \in Streaming
    BY <1>1 DEF HubInv, TypeOK, SlotInv
  <2>2. \A d \in Conns : pc'[d] \in Streaming => pc[d] \in Streaming
    BY <1>1
  <2>3. subscribers' = subscribers
    BY DEF Disconnect
  <2> QED
    BY <2>1, <2>2, <2>3 DEF HubInv, SlotInv
<1>4. CloseInv' /\ ~panicked'
  BY <1>1 DEF HubInv, CloseInv, Disconnect
<1>5. ReaderInv'
  BY DEF HubInv, TypeOK, ReaderInv, Disconnect
<1> QED
  BY <1>2, <1>3, <1>4, <1>5 DEF HubInv

\* No broadcast is under way; the channel is forgotten as it is closed.
LEMMA UnsubscribePreserves ==
  ASSUME HubInv, NEW c \in Conns, Unsubscribe(c)
  PROVE  HubInv'
<1>0. UserOf[c] \in Users
  BY HubAssumption
<1>1. /\ \A d \in Conns : pc'[d] = IF d = c THEN "done" ELSE pc[d]
      /\ pc[c] = "leave"
      /\ pc' \in [Conns -> {"idle", "refused", "done"} \cup Streaming]
  BY DEF HubInv, TypeOK, Unsubscribe
<1>2. /\ subscribers' \in [Users -> SUBSET Conns]
      /\ \A u \in Users : subscribers'[u] =
           IF u = UserOf[c] THEN subscribers[u] \ {c} ELSE subscribers[u]
  <2>1. subscribers' = [subscribers EXCEPT ![UserOf[c]] = @ \ {c}]
    BY DEF Unsubscribe
  <2> QED
    BY <2>1, <1>0 DEF HubInv, TypeOK
<1>3. /\ closes' \in [Conns -> Nat]
      /\ \A d \in Conns : closes'[d] = IF d = c THEN closes[c] + 1 ELSE closes[d]
  <2>1. closes' = [closes EXCEPT ![c] = @ + 1]
    BY DEF Unsubscribe
  <2> QED
    BY <2>1 DEF HubInv, TypeOK
<1>4. TypeOK'
  BY <1>1, <1>2, <1>3 DEF HubInv, TypeOK, Unsubscribe
<1>5. SlotInv'
  <2>1. \A u \in Users : \A d \in subscribers'[u] : UserOf[d] = u /\ pc'[d] \in Streaming
    <3> SUFFICES ASSUME NEW u \in Users, NEW d \in subscribers'[u]
                 PROVE  UserOf[d] = u /\ pc'[d] \in Streaming
      OBVIOUS
    <3>1. d \in subscribers[u] /\ d \in Conns
      BY <1>2 DEF HubInv, TypeOK
    <3>2. d # c
      BY <1>2, <3>1 DEF HubInv, SlotInv
    <3> QED
      BY <1>1, <3>1, <3>2 DEF HubInv, SlotInv
  <2>2. \A d \in Conns : pc'[d] \in Streaming => d \in subscribers'[UserOf[d]]
    BY <1>1, <1>2, HubAssumption DEF HubInv, SlotInv
  <2> QED
    BY <2>1, <2>2 DEF SlotInv
<1>6. CloseInv' /\ ~panicked'
  BY <1>1, <1>3 DEF HubInv, CloseInv, Unsubscribe
<1>7. ReaderInv'
  BY DEF HubInv, TypeOK, ReaderInv, Unsubscribe
<1> QED
  BY <1>4, <1>5, <1>6, <1>7 DEF HubInv

\* The client is not the hub's.
LEMMA ClientGonePreserves ==
  ASSUME HubInv, NEW c \in Conns, ClientGone(c)
  PROVE  HubInv'
<1>1. TypeOK'
  BY HubAssumption DEF HubInv, TypeOK, ClientGone
<1>2. SlotInv'
  BY HubAssumption DEF HubInv, TypeOK, SlotInv, ClientGone
<1>3. CloseInv' /\ ~panicked'
  BY HubAssumption DEF HubInv, TypeOK, SlotInv, CloseInv, ClientGone
<1>4. ReaderInv'
  BY HubAssumption DEF HubInv, TypeOK, ReaderInv, ClientGone
<1> QED
  BY <1>1, <1>2, <1>3, <1>4 DEF HubInv

\* A broadcast looks up registered channels.
LEMMA BroadcastBeginPreserves ==
  ASSUME HubInv, NEW b \in Posts, BroadcastBegin(b)
  PROVE  HubInv'
<1>0. UserOf[b] \in Users
  BY HubAssumption
<1>1. /\ todo' \in [Posts -> SUBSET Conns]
      /\ \A p \in Posts : todo'[p] = IF p = b THEN subscribers[UserOf[b]] ELSE todo[p]
  <2>1. subscribers[UserOf[b]] \in SUBSET Conns
    BY <1>0 DEF HubInv, TypeOK
  <2>2. todo' = [todo EXCEPT ![b] = subscribers[UserOf[b]]]
    BY DEF BroadcastBegin
  <2> QED
    BY <2>1, <2>2 DEF HubInv, TypeOK
<1>2. /\ bpc' \in [Posts -> {"idle", "sending", "done"}]
      /\ \A p \in Posts : bpc'[p] = IF p = b THEN "sending" ELSE bpc[p]
  BY DEF HubInv, TypeOK, BroadcastBegin
<1>3. offered' \in [Conns -> SUBSET Posts]
  <2>1. \A d \in Conns : offered[d] \in SUBSET Posts /\ offered[d] \cup {b} \in SUBSET Posts
    BY DEF HubInv, TypeOK
  <2>2. offered' = [d \in Conns |->
          IF d \in subscribers[UserOf[b]] THEN offered[d] \cup {b} ELSE offered[d]]
    BY DEF BroadcastBegin
  <2> QED
    BY <2>1, <2>2
<1>4. TypeOK'
  BY <1>1, <1>2, <1>3 DEF HubInv, TypeOK, BroadcastBegin
<1>5. SlotInv' /\ CloseInv' /\ ~panicked'
  BY DEF HubInv, SlotInv, CloseInv, BroadcastBegin
<1>6. ReaderInv'
  BY <1>1, <1>2 DEF HubInv, ReaderInv, BroadcastBegin
<1> QED
  BY <1>4, <1>5, <1>6 DEF HubInv

\* A broadcast ends with nothing left to send.
LEMMA BroadcastEndPreserves ==
  ASSUME HubInv, NEW b \in Posts, BroadcastEnd(b)
  PROVE  HubInv'
<1>1. TypeOK'
  BY HubAssumption DEF HubInv, TypeOK, BroadcastEnd
<1>2. SlotInv'
  BY HubAssumption DEF HubInv, TypeOK, SlotInv, BroadcastEnd
<1>3. CloseInv' /\ ~panicked'
  BY HubAssumption DEF HubInv, TypeOK, SlotInv, CloseInv, BroadcastEnd
<1>4. ReaderInv'
  BY HubAssumption DEF HubInv, TypeOK, ReaderInv, BroadcastEnd
<1> QED
  BY <1>1, <1>2, <1>3, <1>4 DEF HubInv

\* The channel is registered, hence open: the send cannot panic.
LEMMA BroadcastSendPreserves ==
  ASSUME HubInv, NEW b \in Posts, NEW c \in Conns, BroadcastSend(b, c)
  PROVE  HubInv'
<1>1. closes[c] = 0
  BY HubAssumption DEF HubInv, TypeOK, SlotInv, CloseInv, ReaderInv, BroadcastSend
<1>2. ~panicked'
  BY <1>1 DEF HubInv, BroadcastSend
<1>3. TypeOK'
  <2>0. buf[c] \in Seq(Posts) /\ Append(buf[c], b) \in Seq(Posts)
    BY AppendProperties DEF HubInv, TypeOK
  <2>1. buf' \in [Conns -> Seq(Posts)]
    <3>1. buf' = buf \/ buf' = [buf EXCEPT ![c] = Append(@, b)]
      BY DEF BroadcastSend
    <3> QED
      BY <2>0, <3>1 DEF HubInv, TypeOK
  <2>4. missed' \in [Conns -> SUBSET Posts]
    <3>1. missed' = missed \/ missed' = [missed EXCEPT ![c] = @ \cup {b}]
      BY DEF BroadcastSend
    <3>2. missed[c] \cup {b} \in SUBSET Posts
      BY DEF HubInv, TypeOK
    <3> QED
      BY <3>1, <3>2 DEF HubInv, TypeOK
  <2>2. todo' \in [Posts -> SUBSET Conns] /\ panicked' \in BOOLEAN
    BY <1>2 DEF HubInv, TypeOK, BroadcastSend
  <2> QED
    BY <2>1, <2>2, <2>4 DEF HubInv, TypeOK, BroadcastSend
<1>4. SlotInv' /\ CloseInv'
  BY DEF HubInv, SlotInv, CloseInv, BroadcastSend
<1>5. ReaderInv'
  BY DEF HubInv, TypeOK, ReaderInv, BroadcastSend
<1> QED
  BY <1>2, <1>3, <1>4, <1>5 DEF HubInv

\* Stop finds no channel: every handler has gone.
LEMMA ShutdownDonePreserves ==
  ASSUME HubInv, ShutdownDone
  PROVE  HubInv'
<1>1. \A u \in Users : subscribers[u] = {}
  BY DEF HubInv, TypeOK, SlotInv, ShutdownDone, Idle
<1>2. closes' = closes
  BY <1>1 DEF HubInv, TypeOK, ShutdownDone, StopHub, Connected
<1>3. subscribers' = [u \in Users |-> {}]
  BY DEF ShutdownDone, StopHub
<1>4. TypeOK'
  BY <1>2, <1>3 DEF HubInv, TypeOK, ShutdownDone, StopHub
<1>5. SlotInv'
  BY <1>3 DEF HubInv, SlotInv, ShutdownDone, Idle
<1>6. CloseInv' /\ ~panicked'
  BY <1>2 DEF HubInv, CloseInv, ShutdownDone, StopHub
<1>7. ReaderInv'
  BY DEF HubInv, TypeOK, ReaderInv, ShutdownDone, StopHub
<1> QED
  BY <1>4, <1>5, <1>6, <1>7 DEF HubInv

-----------------------------------------------------------------------------
(* The theorems.                                                           *)

\* The hub starts empty.
LEMMA InitEstablishes ==
  ASSUME Init
  PROVE  HubInv
<1>1. <<>> \in Seq(Posts)
  OBVIOUS
<1>2. buf \in [Conns -> Seq(Posts)] /\ seen \in [Conns -> Seq(Posts)]
  BY <1>1 DEF Init
<1>3. subscribers \in [Users -> SUBSET Conns] /\ todo \in [Posts -> SUBSET Conns]
  BY DEF Init
<1>4. offered \in [Conns -> SUBSET Posts] /\ missed \in [Conns -> SUBSET Posts]
  BY DEF Init
<1>5. TypeOK
  BY <1>2, <1>3, <1>4 DEF Init, TypeOK
<1>6. SlotInv
  BY DEF Init, SlotInv
<1>7. CloseInv /\ ReaderInv /\ ~panicked
  BY DEF Init, CloseInv, ReaderInv
<1> QED
  BY <1>5, <1>6, <1>7 DEF HubInv

\* Every step preserves the invariant.
LEMMA NextPreserves ==
  ASSUME HubInv, [Next]_vars
  PROVE  HubInv'
<1>1. ASSUME NEW c \in Conns, Subscribe(c) \/ ClientGone(c) \/ StreamStep(c)
      PROVE  HubInv'
  BY <1>1, SubscribePreserves, ClientGonePreserves, GreetPreserves, ReceivePreserves,
     DisconnectPreserves, UnsubscribePreserves DEF StreamStep
<1>2. ASSUME NEW b \in Posts, BroadcastBegin(b) \/ PostStep(b)
      PROVE  HubInv'
  BY <1>2, BroadcastBeginPreserves, BroadcastEndPreserves, BroadcastSendPreserves DEF PostStep
<1>3. CASE Signal \/ ShutdownTimeout \/ UNCHANGED vars
  <2>1. UNCHANGED <<hubVars, streamVars, postVars, histVars>>
        /\ server' \in {"up", "draining", "stopped", "killed"}
    BY <1>3 DEF Signal, ShutdownTimeout, vars, HubInv, TypeOK
  <2> QED
    BY <2>1 DEF HubInv, TypeOK, SlotInv, CloseInv, ReaderInv
<1> QED
  BY <1>1, <1>2, <1>3, ShutdownDonePreserves DEF Next

\* Registered channels, running handlers, open channels and broadcasts keep
\* together.
THEOREM HubInvariance == Spec => []HubInv
BY InitEstablishes, NextPreserves, PTL DEF Spec

\* Subscribe, Unsubscribe, Broadcast and Stop never make the process panic.
THEOREM HubNeverPanics == Spec => []PanicFree
<1>1. HubInv => PanicFree
  BY DEF HubInv, CloseInv, PanicFree
<1> QED
  BY <1>1, HubInvariance, PTL

\* The slots counted against the per-user and global limits are those of running
\* handlers.
THEOREM SlotsNeverLeak == Spec => []SlotsHeldByHandlers
<1>1. HubInv => SlotsHeldByHandlers
  BY HubAssumption DEF HubInv, TypeOK, SlotInv, SlotsHeldByHandlers, Connected
<1> QED
  BY <1>1, HubInvariance, PTL

-----------------------------------------------------------------------------
(* Where the events of a stream go.                                        *)
(*                                                                         *)
(* The flow of a stream is what its client was written, followed by what   *)
(* its channel holds.  A send appends to the flow, a receive leaves it as  *)
(* it is, and a write that fails drops an event, of a client that is gone. *)

Flow(c) == seen[c] \o buf[c]

NoRepeat(s) == \A i, j \in DOMAIN s : i # j => s[i] # s[j]

\* A send appends to the flow.
LEMMA FlowAppend ==
  ASSUME NEW S, NEW s \in Seq(S), NEW t \in Seq(S), NEW e \in S
  PROVE  LET f == s \o t
             g == s \o Append(t, e)
         IN  /\ ToSet(g) = ToSet(f) \cup {e}
             /\ NoRepeat(f) /\ e \notin ToSet(f) => NoRepeat(g)
<1> DEFINE f == s \o t
           g == s \o Append(t, e)
<1>1. /\ f \in Seq(S) /\ Len(f) = Len(s) + Len(t) /\ Len(s) \in Nat /\ Len(t) \in Nat
      /\ g \in Seq(S) /\ Len(g) = Len(f) + 1
      /\ DOMAIN f = 1 .. Len(f) /\ DOMAIN g = 1 .. Len(g)
  OBVIOUS
<1>2. \A i \in 1 .. Len(f) : g[i] = f[i]
  OBVIOUS
<1>3. g[Len(f) + 1] = e
  OBVIOUS
<1> HIDE DEF f, g
<1>0. \A i \in DOMAIN g : i \in 1 .. Len(f) \/ i = Len(f) + 1
  BY <1>1
<1>4. ToSet(g) = ToSet(f) \cup {e}
  <2>1. ASSUME NEW x \in ToSet(g) PROVE x \in ToSet(f) \cup {e}
    <3>1. PICK i \in DOMAIN g : x = g[i]
      BY <2>1 DEF ToSet
    <3>2. CASE i \in 1 .. Len(f)
      BY <1>1, <1>2, <3>1, <3>2 DEF ToSet
    <3>3. CASE i = Len(f) + 1
      BY <1>3, <3>1, <3>3
    <3> QED
      BY <1>0, <3>1, <3>2, <3>3
  <2>2. ASSUME NEW x \in ToSet(f) PROVE x \in ToSet(g)
    <3>1. PICK i \in DOMAIN f : x = f[i]
      BY <2>2 DEF ToSet
    <3> QED
      BY <1>1, <1>2, <3>1 DEF ToSet
  <2>3. e \in ToSet(g)
    BY <1>1, <1>3 DEF ToSet
  <2> QED
    BY <2>1, <2>2, <2>3
<1>5. ASSUME NoRepeat(f), e \notin ToSet(f) PROVE NoRepeat(g)
  <2> SUFFICES ASSUME NEW i \in DOMAIN g, NEW j \in DOMAIN g, i # j
               PROVE  g[i] # g[j]
    BY DEF NoRepeat
  <2>1. \A k \in 1 .. Len(f) : g[k] \in ToSet(f)
    BY <1>1, <1>2 DEF ToSet
  <2>2. CASE i \in 1 .. Len(f) /\ j \in 1 .. Len(f)
    BY <1>1, <1>2, <1>5, <2>2 DEF NoRepeat
  <2>3. CASE i = Len(f) + 1 /\ j \in 1 .. Len(f)
    BY <1>3, <1>5, <2>1, <2>3
  <2>4. CASE j = Len(f) + 1 /\ i \in 1 .. Len(f)
    BY <1>3, <1>5, <2>1, <2>4
  <2> QED
    BY <1>0, <2>2, <2>3, <2>4
<1> QED
  BY <1>4, <1>5 DEF f, g

\* An event written to the client stays where it was in the flow.
LEMMA FlowMoves ==
  ASSUME NEW S, NEW s \in Seq(S), NEW t \in Seq(S), t # <<>>
  PROVE  Append(s, Head(t)) \o Tail(t) = s \o t
<1> DEFINE f == s \o t
           g == Append(s, Head(t)) \o Tail(t)
<1>1. f \in Seq(S) /\ g \in Seq(S) /\ Len(g) = Len(f)
  OBVIOUS
<1>2. \A i \in 1 .. Len(f) : g[i] = f[i]
  OBVIOUS
<1> HIDE DEF f, g
<1>3. f = g
  BY <1>1, <1>2, SeqEqual
<1> QED
  BY <1>3 DEF f, g

\* An event that is lost leaves the others in their order.
LEMMA FlowDrops ==
  ASSUME NEW S, NEW s \in Seq(S), NEW t \in Seq(S), t # <<>>
  PROVE  LET f == s \o t
             g == s \o Tail(t)
         IN  ToSet(g) \subseteq ToSet(f) /\ (NoRepeat(f) => NoRepeat(g))
<1> DEFINE f == s \o t
           g == s \o Tail(t)
           up(i) == IF i <= Len(s) THEN i ELSE i + 1
<1>1. /\ f \in Seq(S) /\ g \in Seq(S) /\ Len(f) = Len(g) + 1 /\ Len(s) \in Nat
      /\ DOMAIN f = 1 .. Len(f) /\ DOMAIN g = 1 .. Len(g) /\ Len(g) \in Nat
  OBVIOUS
<1>2. \A i \in 1 .. Len(g) : g[i] = f[up(i)]
  OBVIOUS
<1> HIDE DEF f, g
<1>3. \A i \in DOMAIN g : up(i) \in DOMAIN f /\ g[i] = f[up(i)]
  BY <1>1, <1>2
<1>4. \A i, j \in DOMAIN g : i # j => up(i) # up(j)
  BY <1>1
<1> HIDE DEF up
<1>5. ToSet(g) \subseteq ToSet(f)
  BY <1>3 DEF ToSet
<1>6. NoRepeat(f) => NoRepeat(g)
  BY <1>3, <1>4 DEF NoRepeat
<1> QED
  BY <1>5, <1>6 DEF f, g

\* The events a broadcast has for a stream and has not sent yet.
Coming(c) == {b \in Posts : c \in todo[b]}

\* An event is in the flow or missed only once its broadcast has sent it;
\* before that it is nowhere, and a stream that has not begun has none.
StreamInv(c) ==
  /\ NoRepeat(Flow(c))
  /\ ToSet(Flow(c)) \cap missed[c] = {}
  /\ (ToSet(Flow(c)) \cup missed[c]) \cap Coming(c) = {}
  /\ \A b \in ToSet(Flow(c)) \cup missed[c] : bpc[b] # "idle"
  /\ \A b \in offered[c] : UserOf[b] = UserOf[c]
  /\ pc[c] = "idle" => offered[c] = {} /\ Flow(c) = <<>> /\ missed[c] = {}
  /\ pc[c] \in Streaming /\ ~gone[c] => offered[c] = ToSet(Flow(c)) \cup missed[c] \cup Coming(c)

FlowInv == \A c \in Conns : StreamInv(c)

\* A stream to which nothing happens.
LEMMA StreamFrame ==
  ASSUME NEW c \in Conns, StreamInv(c),
         UNCHANGED <<seen[c], buf[c], missed[c], offered[c]>>, Coming(c)' = Coming(c),
         \A b \in Posts : bpc'[b] = "idle" => bpc[b] = "idle",
         missed[c] \subseteq Posts, ToSet(Flow(c)) \subseteq Posts,
         pc'[c] = "idle" => pc[c] = "idle",
         pc'[c] \in Streaming /\ ~gone'[c] => pc[c] \in Streaming /\ ~gone[c]
  PROVE  StreamInv(c)'
<1>1. Flow(c)' = Flow(c)
  BY DEF Flow
<1>2. /\ NoRepeat(Flow(c))' /\ (ToSet(Flow(c)) \cap missed[c] = {})'
      /\ ((ToSet(Flow(c)) \cup missed[c]) \cap Coming(c) = {})'
  BY <1>1 DEF StreamInv, NoRepeat, ToSet
<1>3. ToSet(Flow(c))' = ToSet(Flow(c))
  BY <1>1 DEF ToSet
<1>4. (\A b \in ToSet(Flow(c)) \cup missed[c] : bpc[b] # "idle")'
  BY <1>3 DEF StreamInv
<1>5. (\A b \in offered[c] : UserOf[b] = UserOf[c])'
  BY DEF StreamInv
<1>6. (pc[c] = "idle" => offered[c] = {} /\ Flow(c) = <<>> /\ missed[c] = {})'
  BY <1>1 DEF StreamInv
<1>7. (pc[c] \in Streaming /\ ~gone[c] =>
         offered[c] = ToSet(Flow(c)) \cup missed[c] \cup Coming(c))'
  BY <1>3 DEF StreamInv
<1> QED
  BY <1>2, <1>4, <1>5, <1>6, <1>7 DEF StreamInv

\* The flow is a sequence of posts.
LEMMA FlowType ==
  ASSUME TypeOK, NEW c \in Conns
  PROVE  /\ seen[c] \in Seq(Posts) /\ buf[c] \in Seq(Posts) /\ Flow(c) \in Seq(Posts)
         /\ ToSet(Flow(c)) \subseteq Posts
         /\ missed[c] \subseteq Posts /\ offered[c] \subseteq Posts
<1>1. /\ seen[c] \in Seq(Posts) /\ buf[c] \in Seq(Posts)
      /\ missed[c] \subseteq Posts /\ offered[c] \subseteq Posts
  BY DEF TypeOK
<1>2. Flow(c) \in Seq(Posts)
  BY <1>1, ConcatProperties DEF Flow
<1>3. \A i \in DOMAIN Flow(c) : Flow(c)[i] \in Posts
  BY <1>2
<1> QED
  BY <1>1, <1>2, <1>3 DEF ToSet

\* Nobody sends to a channel that is not registered.
LEMMA NothingComing ==
  ASSUME HubInv, NEW c \in Conns, pc[c] \notin Streaming
  PROVE  Coming(c) = {}
  BY HubAssumption DEF HubInv, TypeOK, SlotInv, ReaderInv, Coming

-----------------------------------------------------------------------------
(* One lemma per action, for the flow.                                     *)

\* A stream begins with nothing in its flow and nothing coming.
LEMMA SubscribeFlow ==
  ASSUME HubInv, FlowInv, NEW c \in Conns, Subscribe(c)
  PROVE  FlowInv'
<1> SUFFICES ASSUME NEW d \in Conns PROVE StreamInv(d)'
  BY DEF FlowInv
<1>1. /\ UNCHANGED <<seen, buf, missed, offered, todo, bpc, gone>> /\ pc[c] = "idle"
      /\ pc'[c] # "idle" /\ (d # c => pc'[d] = pc[d])
  BY DEF Subscribe, HubInv, TypeOK
<1>2. StreamInv(d) /\ Coming(d)' = Coming(d)
  BY <1>1 DEF FlowInv, Coming
<1>3. missed[d] \subseteq Posts /\ ToSet(Flow(d)) \subseteq Posts
  BY FlowType DEF HubInv
<1>4. CASE d # c
  BY <1>1, <1>2, <1>3, <1>4, StreamFrame
<1>5. CASE d = c
  <2>1. Coming(d) = {} /\ offered[d] = {} /\ Flow(d) = <<>> /\ missed[d] = {}
    BY <1>1, <1>2, <1>5, NothingComing DEF StreamInv
  <2>2. Flow(d)' = <<>> /\ offered'[d] = {} /\ missed'[d] = {} /\ Coming(d)' = {}
    BY <1>1, <1>2, <2>1 DEF Flow
  <2> QED
    BY <1>1, <1>5, <2>2 DEF StreamInv, NoRepeat, ToSet
<1> QED
  BY <1>4, <1>5

\* What leaves the flow alone.
LEMMA QuietFlow ==
  ASSUME HubInv, FlowInv, UNCHANGED <<seen, buf, missed, offered, todo>>,
         \A b \in Posts : bpc'[b] = "idle" => bpc[b] = "idle",
         \A d \in Conns :
           /\ pc'[d] = "idle" => pc[d] = "idle"
           /\ pc'[d] \in Streaming /\ ~gone'[d] => pc[d] \in Streaming /\ ~gone[d]
  PROVE  FlowInv'
<1> SUFFICES ASSUME NEW d \in Conns PROVE StreamInv(d)'
  BY DEF FlowInv
<1>1. StreamInv(d) /\ Coming(d)' = Coming(d)
  BY DEF FlowInv, Coming
<1>2. missed[d] \subseteq Posts /\ ToSet(Flow(d)) \subseteq Posts
  BY FlowType DEF HubInv
<1> QED
  BY <1>1, <1>2, StreamFrame

\* An event goes from the channel to the client, or is lost with the client.
LEMMA ReceiveFlow ==
  ASSUME HubInv, FlowInv, NEW c \in Conns, Receive(c)
  PROVE  FlowInv'
<1> SUFFICES ASSUME NEW d \in Conns PROVE StreamInv(d)'
  BY DEF FlowInv
<1>1. /\ UNCHANGED <<missed, offered, todo, bpc, gone>> /\ pc[c] = "loop" /\ buf[c] # <<>>
      /\ pc'[c] \in {"loop", "leave"}
      /\ d # c => pc'[d] = pc[d] /\ buf'[d] = buf[d] /\ seen'[d] = seen[d]
      /\ buf'[c] = Tail(buf[c])
      /\ \/ seen'[c] = Append(seen[c], Head(buf[c]))
         \/ gone[c] /\ seen'[c] = seen[c]
  <2>1. buf' = [buf EXCEPT ![c] = Tail(@)]
    BY DEF Receive
  <2>2. \/ seen' = [seen EXCEPT ![c] = Append(@, Head(buf[c]))] /\ pc' = pc
        \/ gone[c] /\ seen' = seen /\ pc' = [pc EXCEPT ![c] = "leave"]
    BY DEF Receive
  <2>3. UNCHANGED <<missed, offered, todo, bpc, gone>> /\ pc[c] = "loop" /\ buf[c] # <<>>
    BY DEF Receive
  <2> QED
    BY <2>1, <2>2, <2>3 DEF HubInv, TypeOK
<1>2. StreamInv(d) /\ Coming(d)' = Coming(d)
  BY <1>1 DEF FlowInv, Coming
<1>3. /\ missed[d] \subseteq Posts /\ ToSet(Flow(d)) \subseteq Posts
      /\ seen[d] \in Seq(Posts) /\ buf[d] \in Seq(Posts)
  BY FlowType DEF HubInv
<1>4. CASE d # c
  BY <1>1, <1>2, <1>3, <1>4, StreamFrame
<1>5. CASE d = c /\ seen'[c] = Append(seen[c], Head(buf[c]))
  <2>1. Flow(d)' = Flow(d)
    BY <1>1, <1>3, <1>5, FlowMoves DEF Flow
  <2>2. ToSet(Flow(d))' = ToSet(Flow(d)) /\ NoRepeat(Flow(d))'
    BY <1>2, <2>1 DEF ToSet, NoRepeat, StreamInv
  <2> QED
    BY <1>1, <1>2, <1>5, <2>1, <2>2 DEF StreamInv
<1>6. CASE d = c /\ gone[c] /\ seen'[c] = seen[c]
  <2>1. ToSet(Flow(d))' \subseteq ToSet(Flow(d)) /\ NoRepeat(Flow(d))'
    <3>1. /\ ToSet(seen[d] \o Tail(buf[d])) \subseteq ToSet(Flow(d))
          /\ NoRepeat(Flow(d)) => NoRepeat(seen[d] \o Tail(buf[d]))
      BY <1>1, <1>3, <1>6, FlowDrops DEF Flow
    <3>2. Flow(d)' = seen[d] \o Tail(buf[d])
      BY <1>1, <1>6 DEF Flow
    <3> QED
      BY <1>2, <3>1, <3>2 DEF StreamInv, ToSet, NoRepeat
  <2> QED
    BY <1>1, <1>2, <1>6, <2>1 DEF StreamInv
<1> QED
  BY <1>1, <1>4, <1>5, <1>6

\* An event that is nowhere yet comes to the streams registered for its user.
LEMMA BroadcastBeginFlow ==
  ASSUME HubInv, FlowInv, NEW b \in Posts, BroadcastBegin(b)
  PROVE  FlowInv'
<1> SUFFICES ASSUME NEW d \in Conns PROVE StreamInv(d)'
  BY DEF FlowInv
<1> DEFINE on == d \in subscribers[UserOf[b]]
<1>0. UserOf[b] \in Users
  BY HubAssumption
<1>1. /\ UNCHANGED <<seen, buf, missed, pc, gone, subscribers>> /\ bpc[b] = "idle"
      /\ \A p \in Posts : bpc'[p] = IF p = b THEN "sending" ELSE bpc[p]
      /\ \A p \in Posts : todo'[p] = IF p = b THEN subscribers[UserOf[b]] ELSE todo[p]
      /\ offered'[d] = IF on THEN offered[d] \cup {b} ELSE offered[d]
  BY DEF BroadcastBegin, HubInv, TypeOK
<1>2. StreamInv(d)
  BY DEF FlowInv
<1>3. missed[d] \subseteq Posts /\ ToSet(Flow(d)) \subseteq Posts
  BY FlowType DEF HubInv
<1>4. b \notin Coming(d)
  BY <1>1 DEF HubInv, ReaderInv, Coming
<1>5. CASE ~on
  <2>1. Coming(d)' = Coming(d)
    BY <1>1, <1>4, <1>5 DEF Coming
  <2> QED
    BY <1>1, <1>2, <1>3, <1>5, <2>1, StreamFrame
<1>6. CASE on
  <2>1. Coming(d)' = Coming(d) \cup {b}
    BY <1>1, <1>6 DEF Coming
  <2>2. pc[d] \in Streaming /\ UserOf[d] = UserOf[b]
    BY <1>0, <1>6 DEF HubInv, SlotInv
  <2>3. Flow(d)' = Flow(d)
    BY <1>1 DEF Flow
  <2>4. ToSet(Flow(d))' = ToSet(Flow(d)) /\ NoRepeat(Flow(d))'
    BY <1>2, <2>3 DEF ToSet, NoRepeat, StreamInv
  <2>5. b \notin ToSet(Flow(d)) \cup missed[d]
    BY <1>1, <1>2 DEF StreamInv
  <2>6. (\A p \in ToSet(Flow(d)) \cup missed[d] : bpc[p] # "idle")'
    BY <1>1, <1>2, <1>3, <2>4 DEF StreamInv
  <2>7. (\A p \in offered[d] : UserOf[p] = UserOf[d])'
    BY <1>1, <1>2, <1>6, <2>2 DEF StreamInv
  <2>8. (pc[d] \in Streaming /\ ~gone[d] =>
           offered[d] = ToSet(Flow(d)) \cup missed[d] \cup Coming(d))'
    BY <1>1, <1>2, <1>6, <2>1, <2>4 DEF StreamInv
  <2>9. /\ (ToSet(Flow(d)) \cap missed[d] = {})'
        /\ ((ToSet(Flow(d)) \cup missed[d]) \cap Coming(d) = {})'
    BY <1>1, <1>2, <2>1, <2>4, <2>5 DEF StreamInv
  <2> QED
    BY <1>1, <2>2, <2>4, <2>6, <2>7, <2>8, <2>9 DEF StreamInv
<1> QED
  BY <1>5, <1>6

\* An event that was coming is appended to the flow, or missed.
LEMMA BroadcastSendFlow ==
  ASSUME HubInv, FlowInv, NEW b \in Posts, NEW c \in Conns, BroadcastSend(b, c)
  PROVE  FlowInv'
<1> SUFFICES ASSUME NEW d \in Conns PROVE StreamInv(d)'
  BY DEF FlowInv
<1>0. closes[c] = 0 /\ bpc[b] = "sending" /\ pc[c] \in Streaming
  BY HubAssumption DEF HubInv, TypeOK, SlotInv, CloseInv, ReaderInv, BroadcastSend
<1>1. UNCHANGED <<seen, offered, bpc, pc, gone>> /\ c \in todo[b]
  BY DEF BroadcastSend
<1>2. \A p \in Posts : todo'[p] = IF p = b THEN todo[p] \ {c} ELSE todo[p]
  BY DEF BroadcastSend, HubInv, TypeOK
<1>3. \/ buf' = [buf EXCEPT ![c] = Append(@, b)] /\ missed' = missed
      \/ missed' = [missed EXCEPT ![c] = @ \cup {b}] /\ buf' = buf
  BY <1>0 DEF BroadcastSend
<1>4. StreamInv(d)
  BY DEF FlowInv
<1>5. /\ missed[d] \subseteq Posts /\ ToSet(Flow(d)) \subseteq Posts
      /\ seen[d] \in Seq(Posts) /\ buf[d] \in Seq(Posts)
  BY FlowType DEF HubInv
<1>6. CASE d # c
  <2>1. buf'[d] = buf[d] /\ missed'[d] = missed[d]
    BY <1>3, <1>6 DEF HubInv, TypeOK
  <2>2. Coming(d)' = Coming(d)
    BY <1>2, <1>6 DEF Coming
  <2> QED
    BY <1>1, <1>4, <1>5, <2>1, <2>2, StreamFrame
<1>7. CASE d = c
  <2>1. Coming(d)' = Coming(d) \ {b} /\ b \in Coming(d)
    BY <1>1, <1>2, <1>7 DEF Coming
  <2>2. b \notin ToSet(Flow(d)) \cup missed[d]
    BY <1>4, <2>1 DEF StreamInv
  <2>3. \/ /\ ToSet(Flow(d))' = ToSet(Flow(d)) \cup {b} /\ NoRepeat(Flow(d))'
           /\ missed'[d] = missed[d]
        \/ /\ ToSet(Flow(d))' = ToSet(Flow(d)) /\ NoRepeat(Flow(d))'
           /\ missed'[d] = missed[d] \cup {b}
    <3>1. CASE buf' = [buf EXCEPT ![c] = Append(@, b)] /\ missed' = missed
      <4>1. Flow(d)' = seen[d] \o Append(buf[d], b)
        BY <1>1, <1>7, <3>1 DEF Flow, HubInv, TypeOK
      <4>2. /\ ToSet(seen[d] \o Append(buf[d], b)) = ToSet(Flow(d)) \cup {b}
            /\ NoRepeat(seen[d] \o Append(buf[d], b))
        BY <1>4, <1>5, <2>2, FlowAppend DEF Flow, StreamInv
      <4> QED
        BY <3>1, <4>1, <4>2 DEF ToSet, NoRepeat
    <3>2. CASE missed' = [missed EXCEPT ![c] = @ \cup {b}] /\ buf' = buf
      <4>1. Flow(d)' = Flow(d)
        BY <1>1, <3>2 DEF Flow
      <4>2. missed'[d] = missed[d] \cup {b}
        BY <1>7, <3>2 DEF HubInv, TypeOK
      <4> QED
        BY <1>4, <4>1, <4>2 DEF ToSet, NoRepeat, StreamInv
    <3> QED
      BY <1>3, <3>1, <3>2
  <2>4. (\A p \in ToSet(Flow(d)) \cup missed[d] : bpc[p] # "idle")'
    BY <1>0, <1>1, <1>4, <2>3 DEF StreamInv
  <2>5. /\ (ToSet(Flow(d)) \cap missed[d] = {})'
        /\ ((ToSet(Flow(d)) \cup missed[d]) \cap Coming(d) = {})'
    BY <1>4, <2>1, <2>2, <2>3 DEF StreamInv
  <2>6. (pc[d] \in Streaming /\ ~gone[d] =>
           offered[d] = ToSet(Flow(d)) \cup missed[d] \cup Coming(d))'
    BY <1>1, <1>4, <2>1, <2>3 DEF StreamInv
  <2>7. (\A p \in offered[d] : UserOf[p] = UserOf[d])' /\ pc'[d] # "idle" /\ NoRepeat(Flow(d))'
    BY <1>0, <1>1, <1>4, <1>7, <2>3 DEF StreamInv
  <2> QED
    BY <2>4, <2>5, <2>6, <2>7 DEF StreamInv
<1> QED
  BY <1>6, <1>7

\* The flow of a stream that is closed is empty.
LEMMA UnsubscribeFlow ==
  ASSUME HubInv, FlowInv, NEW c \in Conns, Unsubscribe(c)
  PROVE  FlowInv'
<1> SUFFICES ASSUME NEW d \in Conns PROVE StreamInv(d)'
  BY DEF FlowInv
<1>1. UNCHANGED <<gone, todo, bpc>> /\ Coming(d)' = Coming(d)
  BY DEF Unsubscribe, Coming
<1>2. StreamInv(d)
  BY DEF FlowInv
<1>3. CASE d # c
  <2>1. UNCHANGED <<seen[d], buf[d], missed[d], offered[d], pc[d]>>
    BY <1>3 DEF Unsubscribe, HubInv, TypeOK
  <2>2. missed[d] \subseteq Posts /\ ToSet(Flow(d)) \subseteq Posts
    BY FlowType DEF HubInv
  <2> QED
    BY <1>1, <1>2, <2>1, <2>2, StreamFrame
<1>4. CASE d = c
  <2>1. seen'[d] = <<>> /\ buf'[d] = <<>> /\ missed'[d] = {} /\ offered'[d] = {}
    BY <1>4 DEF Unsubscribe, HubInv, TypeOK
  <2>2. pc'[d] = "done"
    BY <1>4 DEF Unsubscribe, HubInv, TypeOK
  <2>3. Flow(d)' = <<>>
    BY <2>1 DEF Flow
  <2>4. ToSet(Flow(d))' = {} /\ NoRepeat(Flow(d))'
    BY <2>3 DEF ToSet, NoRepeat
  <2> QED
    BY <2>1, <2>2, <2>3, <2>4 DEF StreamInv, Streaming
<1> QED
  BY <1>3, <1>4

\* Every step keeps the flow of every stream.
LEMMA FlowPreserved ==
  ASSUME HubInv, FlowInv, [Next]_vars
  PROVE  FlowInv'
<1>1. ASSUME NEW c \in Conns, Greet(c) \/ Disconnect(c) \/ ClientGone(c)
      PROVE  FlowInv'
  <2>1. UNCHANGED <<seen, buf, missed, offered, todo, bpc>>
    BY <1>1 DEF Greet, Disconnect, ClientGone
  <2>2. ASSUME NEW d \in Conns
        PROVE  /\ pc'[d] = "idle" => pc[d] = "idle"
               /\ pc'[d] \in Streaming /\ ~gone'[d] => pc[d] \in Streaming /\ ~gone[d]
    BY <1>1 DEF Greet, Disconnect, ClientGone, HubInv, TypeOK
  <2> QED
    BY <2>1, <2>2, QuietFlow
<1>2. ASSUME NEW b \in Posts, BroadcastEnd(b)
      PROVE  FlowInv'
  <2>1. UNCHANGED <<seen, buf, missed, offered, todo, pc, gone>>
    BY <1>2 DEF BroadcastEnd
  <2>2. \A p \in Posts : bpc'[p] = "idle" => bpc[p] = "idle"
    BY <1>2 DEF BroadcastEnd, HubInv, TypeOK
  <2> QED
    BY <2>1, <2>2, QuietFlow
<1>3. CASE Signal \/ ShutdownTimeout \/ ShutdownDone \/ UNCHANGED vars
  <2>1. UNCHANGED <<seen, buf, missed, offered, todo, pc, gone, bpc>>
    BY <1>3 DEF Signal, ShutdownTimeout, ShutdownDone, StopHub, vars
  <2> QED
    BY <2>1, QuietFlow
<1> QED
  BY <1>1, <1>2, <1>3, SubscribeFlow, ReceiveFlow, UnsubscribeFlow, BroadcastBeginFlow,
     BroadcastSendFlow
  DEF Next, StreamStep, PostStep

\* For any users, streams, buffers and broadcasts: no event of a registered
\* stream disappears, comes twice or reaches another user, except the ones a
\* full buffer skips and the ones lost with their client.
THEOREM EventsAccountedFor == Spec => []Accounted
<1>1. Init => FlowInv
  <2> SUFFICES ASSUME Init, NEW c \in Conns PROVE StreamInv(c)
    BY DEF FlowInv
  <2>1. Flow(c) = <<>> /\ missed[c] = {} /\ offered[c] = {} /\ pc[c] = "idle"
    BY DEF Init, Flow
  <2> QED
    BY <2>1 DEF StreamInv, NoRepeat, ToSet
<1>2. HubInv /\ FlowInv /\ [Next]_vars => FlowInv'
  BY FlowPreserved
<1>3. FlowInv => Accounted
  BY DEF FlowInv, StreamInv, Accounted, Flow, NoRepeat, Coming
<1> QED
  BY <1>1, <1>2, <1>3, HubInvariance, PTL DEF Spec

-----------------------------------------------------------------------------
(* The hub implements Mailboxes.                                           *)

\* A handler moves on, and its mailbox with it.
LEMMA BoxMoves ==
  ASSUME TypeOK, NEW c \in Conns, NEW label, Goto(c, label)
  PROVE  boxBar' = [boxBar EXCEPT ![c] = BoxOf(label)]
<1>1. \A d \in Conns : pc'[d] = IF d = c THEN label ELSE pc[d]
  BY DEF TypeOK
<1>2. \A d \in Conns : boxBar'[d] = IF d = c THEN BoxOf(label) ELSE boxBar[d]
  BY <1>1 DEF boxBar
<1>3. boxBar' = [d \in Conns |-> boxBar'[d]] /\ boxBar = [d \in Conns |-> boxBar[d]]
  BY DEF boxBar
<1> HIDE DEF boxBar
<1> QED
  BY <1>2, <1>3

\* What a mailbox is at each label.
LEMMA BoxAt ==
  /\ BoxOf("idle") = "new" /\ BoxOf("refused") = "new"
  /\ BoxOf("greet") = "open" /\ BoxOf("loop") = "open"
  /\ BoxOf("leave") = "left" /\ BoxOf("done") = "closed"
  BY DEF BoxOf

\* The limits count the mailboxes that are taken.
LEMMA TakenAreConnected ==
  ASSUME HubInv
  PROVE  /\ Mail!Taken = Connected
         /\ \A u \in Users : Mail!TakenBy(u) = subscribers[u]
<1>1. \A c \in Conns : boxBar[c] \in {"open", "left"} <=> pc[c] \in Streaming
  BY BoxAt DEF HubInv, TypeOK, boxBar
<1>2. \A c \in Conns : pc[c] \in Streaming <=> \E u \in Users : c \in subscribers[u]
  BY HubAssumption DEF HubInv, TypeOK, SlotInv
<1>3. Mail!Taken = Connected
  BY <1>1, <1>2 DEF Mail!Taken, Connected
<1>4. ASSUME NEW u \in Users
      PROVE  Mail!TakenBy(u) = subscribers[u]
  <2>1. subscribers[u] \subseteq Conns
    BY DEF HubInv, TypeOK
  <2>2. \A c \in Conns : c \in subscribers[u] <=> pc[c] \in Streaming /\ UserOf[c] = u
    BY <2>1 DEF HubInv, SlotInv
  <2> QED
    BY <1>1, <2>1, <2>2 DEF Mail!Taken, Mail!TakenBy
<1> QED
  BY <1>3, <1>4

\* There are finitely many channels at a time: what the limits count is a number.
FiniteInv == IsFiniteSet(Connected)

\* A step registers one channel at most.
LEMMA FinitePreserved ==
  ASSUME HubInv, FiniteInv, [Next]_vars
  PROVE  FiniteInv'
<1>1. CASE \A u \in Users : subscribers'[u] \subseteq subscribers[u]
  <2>1. Connected' \subseteq Connected
    BY <1>1 DEF Connected
  <2> QED
    BY <2>1, FS_Subset DEF FiniteInv
<1>2. ASSUME NEW c \in Conns, Subscribe(c)
      PROVE  FiniteInv'
  <2>1. \A u \in Users : subscribers'[u] \subseteq subscribers[u] \cup {c}
    BY <1>2 DEF Subscribe, HubInv, TypeOK
  <2>2. Connected' \subseteq Connected \cup {c}
    BY <2>1 DEF Connected
  <2>3. IsFiniteSet(Connected \cup {c})
    BY FS_AddElement DEF FiniteInv
  <2> QED
    BY <2>2, <2>3, FS_Subset DEF FiniteInv
<1>3. ASSUME NEW c \in Conns, ClientGone(c) \/ StreamStep(c)
      PROVE  \A u \in Users : subscribers'[u] \subseteq subscribers[u]
  <2>1. CASE Unsubscribe(c)
    BY <2>1 DEF Unsubscribe, HubInv, TypeOK
  <2>2. CASE ClientGone(c) \/ Greet(c) \/ Receive(c) \/ Disconnect(c)
    BY <2>2 DEF ClientGone, Greet, Receive, Disconnect
  <2> QED
    BY <1>3, <2>1, <2>2 DEF StreamStep
<1>4. ASSUME NEW b \in Posts, BroadcastBegin(b) \/ PostStep(b)
      PROVE  subscribers' = subscribers
  BY <1>4 DEF BroadcastBegin, PostStep, BroadcastEnd, BroadcastSend
<1>5. CASE Signal \/ ShutdownDone \/ ShutdownTimeout
  BY <1>1, <1>5 DEF Signal, ShutdownDone, ShutdownTimeout, StopHub
<1>6. CASE UNCHANGED vars
  BY <1>1, <1>6 DEF vars
<1> QED
  BY <1>1, <1>2, <1>3, <1>4, <1>5, <1>6 DEF Next

\* Mailboxes counts like the hub.
LEMMA SameCardinality == \A S : Mail!Cardinality(S) = Cardinality(S)
  BY DEF Cardinality, Mail!Cardinality

\* A stream is registered below both limits, or refused.
LEMMA SubscribeRefines ==
  ASSUME HubInv, FiniteInv, NEW c \in Conns, Subscribe(c)
  PROVE  Mail!Next \/ UNCHANGED Mail!vars
<1>1. TypeOK /\ UserOf[c] \in Users
  BY HubAssumption DEF HubInv
<1>2. UNCHANGED <<buf, seen, postedBar, todo>> /\ pc[c] = "idle"
  BY DEF Subscribe, postedBar
<1>3. boxBar[c] = "new"
  BY <1>2, BoxAt DEF boxBar
<1>4. CASE Goto(c, "refused")
  <2>1. boxBar' = [boxBar EXCEPT ![c] = "new"]
    BY <1>1, <1>4, BoxMoves, BoxAt
  <2>2. boxBar' = boxBar
    BY <1>3, <2>1 DEF boxBar
  <2> QED
    BY <1>2, <2>2 DEF Mail!vars
<1>5. CASE ~(Cardinality(Connected) >= Global)
           /\ ~(Cardinality(subscribers[UserOf[c]]) >= PerUser) /\ Goto(c, "greet")
  <2>1. boxBar' = [boxBar EXCEPT ![c] = "open"]
    BY <1>1, <1>5, BoxMoves, BoxAt
  <2>2. Cardinality(Mail!Taken) < Global /\ Cardinality(Mail!TakenBy(UserOf[c])) < PerUser
    <3>1. subscribers[UserOf[c]] \subseteq Connected
      BY <1>1 DEF Connected, TypeOK
    <3>2. Cardinality(Connected) \in Nat /\ Cardinality(subscribers[UserOf[c]]) \in Nat
      BY <3>1, FS_Subset, FS_CardinalityType DEF FiniteInv
    <3>3. Cardinality(Connected) < Global /\ Cardinality(subscribers[UserOf[c]]) < PerUser
      BY <1>5, <3>2, HubAssumption
    <3>4. Mail!Taken = Connected /\ Mail!TakenBy(UserOf[c]) = subscribers[UserOf[c]]
      BY <1>1, TakenAreConnected
    <3> QED
      BY <3>3, <3>4
  <2>3. Mail!Open(c)
    BY <1>2, <1>3, <2>1, <2>2, SameCardinality DEF Mail!Open
  <2> QED
    BY <2>3 DEF Mail!Next
<1> QED
  BY <1>4, <1>5 DEF Subscribe

\* The handler goes on, or its client is gone.
LEMMA GreetRefines ==
  ASSUME HubInv, NEW c \in Conns, Greet(c)
  PROVE  Mail!Next \/ UNCHANGED Mail!vars
<1>1. TypeOK /\ UNCHANGED <<buf, seen, postedBar, todo>> /\ pc[c] = "greet"
  BY DEF HubInv, Greet, postedBar
<1>2. boxBar[c] = "open"
  BY <1>1, BoxAt DEF boxBar
<1>3. CASE Goto(c, "loop")
  <2>1. boxBar' = [boxBar EXCEPT ![c] = "open"]
    BY <1>1, <1>3, BoxMoves, BoxAt
  <2>2. boxBar' = boxBar
    BY <1>2, <2>1 DEF boxBar
  <2> QED
    BY <1>1, <2>2 DEF Mail!vars
<1>4. CASE Goto(c, "leave")
  <2>1. boxBar' = [boxBar EXCEPT ![c] = "left"]
    BY <1>1, <1>4, BoxMoves, BoxAt
  <2>2. Mail!Leave(c)
    BY <1>1, <1>2, <2>1 DEF Mail!Leave
  <2> QED
    BY <2>2 DEF Mail!Next
<1> QED
  BY <1>3, <1>4 DEF Greet

\* The next event is written, or lost with the client.
LEMMA ReceiveRefines ==
  ASSUME HubInv, NEW c \in Conns, Receive(c)
  PROVE  Mail!Next \/ UNCHANGED Mail!vars
<1>1. /\ TypeOK /\ UNCHANGED <<postedBar, todo>> /\ pc[c] = "loop" /\ buf[c] # <<>>
      /\ buf' = [buf EXCEPT ![c] = Tail(@)]
  BY DEF HubInv, Receive, postedBar
<1>2. boxBar[c] = "open"
  BY <1>1, BoxAt DEF boxBar
<1>3. \/ seen' = [seen EXCEPT ![c] = Append(@, Head(buf[c]))] /\ UNCHANGED boxBar
      \/ boxBar' = [boxBar EXCEPT ![c] = "left"] /\ UNCHANGED seen
  <2>1. CASE seen' = [seen EXCEPT ![c] = Append(@, Head(buf[c]))] /\ UNCHANGED pc
    BY <2>1 DEF boxBar
  <2>2. CASE Goto(c, "leave") /\ UNCHANGED seen
    BY <1>1, <2>2, BoxMoves, BoxAt
  <2> QED
    BY <2>1, <2>2 DEF Receive
<1>4. Mail!Read(c)
  BY <1>1, <1>2, <1>3 DEF Mail!Read
<1> QED
  BY <1>4 DEF Mail!Next

\* The loop ends.
LEMMA DisconnectRefines ==
  ASSUME HubInv, NEW c \in Conns, Disconnect(c)
  PROVE  Mail!Next \/ UNCHANGED Mail!vars
<1>1. TypeOK /\ UNCHANGED <<buf, seen, postedBar, todo>> /\ pc[c] = "loop" /\ Goto(c, "leave")
  BY DEF HubInv, Disconnect, postedBar
<1>2. boxBar[c] = "open"
  BY <1>1, BoxAt DEF boxBar
<1>3. boxBar' = [boxBar EXCEPT ![c] = "left"]
  BY <1>1, BoxMoves, BoxAt
<1>4. Mail!Leave(c)
  BY <1>1, <1>2, <1>3 DEF Mail!Leave
<1> QED
  BY <1>4 DEF Mail!Next

\* The write lock is held: no broadcast has anything left for the channel.
LEMMA UnsubscribeRefines ==
  ASSUME HubInv, NEW c \in Conns, Unsubscribe(c)
  PROVE  Mail!Next \/ UNCHANGED Mail!vars
<1>1. TypeOK /\ UNCHANGED <<postedBar, todo>> /\ pc[c] = "leave" /\ Goto(c, "done")
  BY DEF HubInv, Unsubscribe, postedBar
<1>0. buf' = [buf EXCEPT ![c] = <<>>] /\ seen' = [seen EXCEPT ![c] = <<>>]
  BY DEF Unsubscribe
<1>2. boxBar[c] = "left"
  BY <1>1, BoxAt DEF boxBar
<1>3. boxBar' = [boxBar EXCEPT ![c] = "closed"]
  BY <1>1, BoxMoves, BoxAt
<1>4. \A b \in Posts : c \notin todo[b]
  BY DEF HubInv, ReaderInv, Unsubscribe
<1>5. Mail!Close(c)
  BY <1>0, <1>1, <1>2, <1>3, <1>4 DEF Mail!Close
<1> QED
  BY <1>5 DEF Mail!Next

\* An event is due at the channels registered when the read lock is taken.
LEMMA BroadcastBeginRefines ==
  ASSUME HubInv, NEW b \in Posts, BroadcastBegin(b)
  PROVE  Mail!Next \/ UNCHANGED Mail!vars
<1>1. UserOf[b] \in Users /\ bpc[b] = "idle"
  BY HubAssumption DEF BroadcastBegin
<1>2. UNCHANGED <<buf, seen, boxBar>>
  BY DEF BroadcastBegin, boxBar
<1>3. b \notin postedBar /\ postedBar' = postedBar \cup {b}
  <2>1. \A p \in Posts : bpc'[p] = IF p = b THEN "sending" ELSE bpc[p]
    BY DEF HubInv, TypeOK, BroadcastBegin
  <2> QED
    BY <1>1, <2>1 DEF postedBar
<1>4. todo' = [todo EXCEPT ![b] = Mail!TakenBy(UserOf[b])]
  BY <1>1, TakenAreConnected DEF BroadcastBegin
<1>5. Mail!Post(b)
  BY <1>2, <1>3, <1>4 DEF Mail!Post
<1> QED
  BY <1>5 DEF Mail!Next

\* The channel is open and registered: the event goes in unless it is full.
LEMMA BroadcastSendRefines ==
  ASSUME HubInv, NEW b \in Posts, NEW c \in Conns, BroadcastSend(b, c)
  PROVE  Mail!Next \/ UNCHANGED Mail!vars
<1>1. c \in todo[b] /\ todo' = [todo EXCEPT ![b] = @ \ {c}]
      /\ UNCHANGED <<seen, boxBar, postedBar>>
  BY DEF BroadcastSend, boxBar, postedBar
<1>2. UserOf[b] \in Users /\ c \in subscribers[UserOf[b]]
  BY <1>1, HubAssumption DEF HubInv, ReaderInv
<1>3. c \in Mail!Taken
  BY <1>2, TakenAreConnected DEF Connected
<1>4. closes[c] = 0
  BY <1>2 DEF HubInv, SlotInv, CloseInv
<1>5. buf' = [buf EXCEPT ![c] = IF Len(@) < Buffer[c] THEN Append(@, b) ELSE @]
  <2>1. CASE Len(buf[c]) < Buffer[c]
    BY <1>4, <2>1 DEF BroadcastSend
  <2>2. CASE ~(Len(buf[c]) < Buffer[c])
    <3>1. buf' = buf
      BY <1>4, <2>2 DEF BroadcastSend
    <3> QED
      BY <2>2, <3>1 DEF HubInv, TypeOK
  <2> QED
    BY <2>1, <2>2
<1>6. Mail!Put(b, c)
  BY <1>1, <1>3, <1>5 DEF Mail!Put
<1> QED
  BY <1>6 DEF Mail!Next

\* Every step is one of these, or shows nothing.
LEMMA HubRefines ==
  ASSUME HubInv, FiniteInv, [Next]_vars
  PROVE  [Mail!Next]_(Mail!vars)
<1>1. CASE UNCHANGED vars
  BY <1>1 DEF vars, Mail!vars, boxBar, postedBar
<1>2. ASSUME NEW c \in Conns, Subscribe(c) \/ ClientGone(c) \/ StreamStep(c)
      PROVE  Mail!Next \/ UNCHANGED Mail!vars
  <2>1. CASE ClientGone(c)
    BY <2>1 DEF ClientGone, Mail!vars, boxBar, postedBar
  <2> QED
    BY <1>2, <2>1, SubscribeRefines, GreetRefines, ReceiveRefines, DisconnectRefines,
       UnsubscribeRefines DEF StreamStep
<1>3. ASSUME NEW b \in Posts, BroadcastBegin(b) \/ PostStep(b)
      PROVE  Mail!Next \/ UNCHANGED Mail!vars
  <2>1. CASE BroadcastEnd(b)
    <3>1. UNCHANGED <<buf, seen, boxBar, todo>>
      BY <2>1 DEF BroadcastEnd, boxBar
    <3>2. \A p \in Posts : bpc'[p] # "idle" <=> bpc[p] # "idle"
      BY <2>1 DEF BroadcastEnd, HubInv, TypeOK
    <3> QED
      BY <3>1, <3>2 DEF Mail!vars, postedBar
  <2> QED
    BY <1>3, <2>1, BroadcastBeginRefines, BroadcastSendRefines DEF PostStep
<1>4. CASE Signal \/ ShutdownDone \/ ShutdownTimeout
  BY <1>4 DEF Signal, ShutdownDone, ShutdownTimeout, StopHub, Mail!vars, boxBar, postedBar
<1> QED
  BY <1>1, <1>2, <1>3, <1>4 DEF Next

\* No stream and no event yet.
LEMMA HubStartRefines == Init => Mail!Init
  BY BoxAt DEF Init, Mail!Init, boxBar, postedBar

\* Subscribe, Unsubscribe, Broadcast, Stream and Stop together implement
\* mailboxes, for any users, streams, events and limits: the limits hold, an
\* event is due once at the streams registered when it is broadcast, is left
\* out only for a full buffer, and is written in order.
THEOREM HubIsMailboxes == Spec => ImplementsMailboxes
<1>1. HubInv /\ FiniteInv /\ [Next]_vars => [Mail!Next]_(Mail!vars)
  BY HubRefines
<1>2. Init => FiniteInv
  <2> SUFFICES ASSUME Init PROVE FiniteInv
    OBVIOUS
  <2>1. Connected = {}
    BY DEF Init, Connected
  <2> QED
    BY <2>1, FS_EmptySet DEF FiniteInv
<1>3. HubInv /\ FiniteInv /\ [Next]_vars => FiniteInv'
  BY FinitePreserved
<1> QED
  BY <1>1, <1>2, <1>3, HubInvariance, HubStartRefines, PTL DEF Spec, ImplementsMailboxes, Mail!Spec
=============================================================================
