------------------------------ MODULE Mailboxes ------------------------------
(***************************************************************************)
(* What the event hub promises its clients, without locks, channels or     *)
(* goroutines.  A stream is a mailbox, open for some time, and the number  *)
(* of open mailboxes is limited per user and in all.  A letter is due at   *)
(* the mailboxes of its user that are open when it is posted, and at no    *)
(* other, once; it is left out only where the queue is full.  Letters are  *)
(* read in the order they were put, without gaps, up to a point where the  *)
(* reader is gone, and no mailbox closes while a letter is due at it.      *)
(***************************************************************************)
EXTENDS Naturals, Sequences, FiniteSets

CONSTANTS Boxes, Letters, UserOf, PerUser, Global, Capacity

VARIABLES
  box,     \* "new", "open", "left" (the reader has gone) or "closed"
  queue,   \* letters in a mailbox
  read,    \* letters read from it
  posted,  \* letters posted so far
  due      \* letter -> mailboxes it is still to be put into

vars == <<box, queue, read, posted, due>>

Taken     == {c \in Boxes : box[c] \in {"open", "left"}}
TakenBy(u) == {c \in Taken : UserOf[c] = u}

Init ==
  /\ box = [c \in Boxes |-> "new"]
  /\ queue = [c \in Boxes |-> <<>>]
  /\ read = [c \in Boxes |-> <<>>]
  /\ posted = {}
  /\ due = [b \in Letters |-> {}]

Open(c) ==
  /\ box[c] = "new"
  /\ Cardinality(Taken) < Global
  /\ Cardinality(TakenBy(UserOf[c])) < PerUser
  /\ box' = [box EXCEPT ![c] = "open"]
  /\ UNCHANGED <<queue, read, posted, due>>

Post(b) ==
  /\ b \notin posted
  /\ posted' = posted \cup {b}
  /\ due' = [due EXCEPT ![b] = TakenBy(UserOf[b])]
  /\ UNCHANGED <<box, queue, read>>

Put(b, c) ==
  /\ c \in due[b] /\ c \in Taken
  /\ due' = [due EXCEPT ![b] = @ \ {c}]
  /\ queue' = [queue EXCEPT ![c] = IF Len(@) < Capacity[c] THEN Append(@, b) ELSE @]
  /\ UNCHANGED <<box, read, posted>>

\* The next letter is read, or lost with the reader.
Read(c) ==
  /\ box[c] = "open" /\ queue[c] # <<>>
  /\ queue' = [queue EXCEPT ![c] = Tail(@)]
  /\ \/ read' = [read EXCEPT ![c] = Append(@, Head(queue[c]))] /\ UNCHANGED box
     \/ box' = [box EXCEPT ![c] = "left"] /\ UNCHANGED read
  /\ UNCHANGED <<posted, due>>

Leave(c) ==
  /\ box[c] = "open"
  /\ box' = [box EXCEPT ![c] = "left"]
  /\ UNCHANGED <<queue, read, posted, due>>

Close(c) ==
  /\ box[c] = "left"
  /\ \A b \in Letters : c \notin due[b]
  /\ box' = [box EXCEPT ![c] = "closed"]
  /\ queue' = [queue EXCEPT ![c] = <<>>]
  /\ read' = [read EXCEPT ![c] = <<>>]
  /\ UNCHANGED <<posted, due>>

Next ==
  \/ \E c \in Boxes : Open(c) \/ Read(c) \/ Leave(c) \/ Close(c)
  \/ \E b \in Letters : Post(b) \/ \E c \in Boxes : Put(b, c)

Spec == Init /\ [][Next]_vars
=============================================================================
