---------------------------- MODULE HubRefinement ----------------------------
(***************************************************************************)
(* SSEHub implements Mailboxes.  A mailbox is open while its handler can   *)
(* still write to the client, and taken until the handler's deferred       *)
(* Unsubscribe; its queue is the channel's buffer.                         *)
(***************************************************************************)
EXTENDS SSEHub

BoxOf(label) ==
  CASE label \in {"idle", "refused"} -> "new"
    [] label \in {"greet", "loop"} -> "open"
    [] label = "leave" -> "left"
    [] OTHER -> "closed"

boxBar    == [c \in Conns |-> BoxOf(pc[c])]
postedBar == {b \in Posts : bpc[b] # "idle"}

Mail == INSTANCE Mailboxes
          WITH Boxes <- Conns, Letters <- Posts, Capacity <- Buffer,
               box <- boxBar, queue <- buf, read <- seen, posted <- postedBar, due <- todo

\* Subscribe, Unsubscribe, Broadcast, Stream and Stop together behave like
\* mailboxes: the limits count the streams there are, an event is due once at
\* the streams registered when it is broadcast, and a stream writes what its
\* channel took, in that order and without gaps.
ImplementsMailboxes == Mail!Spec
=============================================================================
