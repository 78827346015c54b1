----------------------------- MODULE RateLimiter -----------------------------
(***************************************************************************)
(* The sliding-window limiters of handler/ratelimit.go.  RateLimiter.Allow *)
(* (keyed on API keys and users) and IPRateLimiter.Exceeded (keyed on IPs) *)
(* are the same algorithm under one mutex each: a call is one step.  An    *)
(* absent key and an empty list behave alike and are both <<>>.            *)
(***************************************************************************)
EXTENDS Integers, Sequences, FiniteSets

CONSTANTS
  Keys,      \* IP addresses, "apikey:..." or "user:..." strings
  Limit,     \* requests per window
  Window,    \* its length, in ticks of the clock
  MaxTime    \* bound: how far the clock runs

ASSUME LimiterAssumption ==
  /\ Limit \in Nat \ {0} /\ Window \in Nat \ {0} /\ MaxTime \in Nat

VARIABLES
  now,      \* time.Now()
  windows,  \* key -> timestamps kept
  passed    \* key -> timestamps of all requests let through (history)

limiterVars == <<windows, passed>>

LimiterTypeOK ==
  /\ now \in 0 .. MaxTime
  /\ windows \in [Keys -> Seq(0 .. MaxTime)]
  /\ passed \in [Keys -> Seq(0 .. MaxTime)]

LimiterInit ==
  /\ now = 0
  /\ windows = [k \in Keys |-> <<>>]
  /\ passed = [k \in Keys |-> <<>>]

\* A timestamp counts while it is after the cutoff.
InWindow(t) == t > now - Window

\* "Slide the window: discard timestamps older than the cutoff": the loop over
\* the timestamps, valid[i] what it has kept of the first i.
Slide(prev) ==
  LET valid[i \in 0 .. Len(prev)] ==
        IF i = 0 THEN <<>>
        ELSE IF InWindow(prev[i]) THEN Append(valid[i - 1], prev[i]) ELSE valid[i - 1]
  IN  valid[Len(prev)]

Recent(k) == Slide(windows[k])

\* Below the limit: the request is recorded and goes on.
Admit(k) ==
  LET valid == Recent(k) IN
  /\ Len(valid) < Limit
  /\ windows' = [windows EXCEPT ![k] = Append(valid, now)]
  /\ passed' = [passed EXCEPT ![k] = Append(@, now)]

\* The request recorded before the limit is looked at.
Refuse_Recorded(k) ==
  /\ Len(Recent(k)) >= Limit
  /\ windows' = [windows EXCEPT ![k] = Append(Recent(k), now)]
  /\ UNCHANGED passed

\* At the limit: 429, nothing recorded.
Refuse(k) ==
  LET valid == Recent(k) IN
  /\ Len(valid) >= Limit
  /\ windows' = [windows EXCEPT ![k] = valid]
  /\ UNCHANGED passed

\* The eviction that looks for one old timestamp instead of all.
Cleanup_AnyOld ==
  /\ windows' = [k \in Keys |->
       IF \A i \in DOMAIN windows[k] : InWindow(windows[k][i]) THEN windows[k] ELSE <<>>]
  /\ UNCHANGED passed

\* The ticker of cleanup evicts the keys all of whose timestamps are old.
Cleanup ==
  /\ windows' = [k \in Keys |->
       IF \E i \in DOMAIN windows[k] : InWindow(windows[k][i]) THEN windows[k] ELSE <<>>]
  /\ UNCHANGED passed

Tick == now < MaxTime /\ now' = now + 1 /\ UNCHANGED limiterVars

-----------------------------------------------------------------------------
\* In any window, wherever it starts, a key gets at most Limit requests
\* through, whatever the cleanup evicted meanwhile: Limit requests later at
\* least a whole window has passed.
WindowBound ==
  \A k \in Keys : \A i \in DOMAIN passed[k] :
    i + Limit \in DOMAIN passed[k] => passed[k][i + Limit] - passed[k][i] >= Window

\* What Allow compares with the limit is the number of requests it let through
\* in the last window, no more and no less: nobody is refused for an old
\* request, and no eviction or earlier refusal makes it forget a recent one.
CountExact ==
  \A k \in Keys :
    Len(Recent(k)) = Cardinality({i \in DOMAIN passed[k] : InWindow(passed[k][i])})
=============================================================================
