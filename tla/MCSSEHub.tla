------------------------------- MODULE MCSSEHub ------------------------------
(***************************************************************************)
(* Model-checking instance of SSEHub: three streams of one user, of whom   *)
(* two are let in at a time, two events for that user and one for another. *)
(* The capacities differ so that two events are enough to fill one channel *)
(* and to wait one behind the other in the next.                           *)
(***************************************************************************)
EXTENDS HubRefinement, TLC

CONSTANTS u1, u2, c1, c2, c3, b1, b2, b3

MCUserOf == (b3 :> u2) @@ [x \in (Conns \cup Posts) \ {b3} |-> u1]
MCBuffer == (c1 :> 1) @@ [c \in Conns \ {c1} |-> 2]

\* A client that went away gives its slot back, also when broadcasts find its
\* channel full: neither a failed write nor a sender in the hub keeps Stream from
\* its deferred Unsubscribe.
GoneIsReleased == ReleasedWhenGone(c1)

\* A channel with two events waiting drains: Stream's loop comes back for the
\* second, whatever the broadcasts do meanwhile.
BufferDrains == Drains(c2)
=============================================================================
