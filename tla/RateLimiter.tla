---------------------------- MODULE RateLimiter ----------------------------
(***************************************************************************)
(* services/rate_limit.py: a fixed-window counter in Redis for every       *)
(* operation of a client.  The requests here are those of one client; the  *)
(* keys of another are other keys.  A request reads the clock to choose    *)
(* its key, waits for Redis, and reads the clock again to say when to come *)
(* back: time may pass, and a window end, between any two of these.        *)
(*                                                                         *)
(*   now            int(time.time())                                       *)
(*   operation[r]   the operation of request r, never changed              *)
(*   asked[r]       how far check() of r is, and its result                *)
(*   window[r]      window_start, the last part of the key r is counted in *)
(*   count[r]       what INCR answered                                     *)
(*   late           the requests that reached Redis after their window     *)
(*   retry_at[r]    the second at which retry_after_seconds will be over   *)
(*   counter[k]     the value of key k in Redis, 0 if it does not exist    *)
(*   expires[k]     the second at which Redis drops k                      *)
(***************************************************************************)
EXTENDS Integers, FiniteSets

CONSTANTS
  Request,
  Traffic,        \* the functions from Request to Operation considered
  Limit,          \* the budget of each operation
  Window,         \* rate_limit_window_seconds
  LastSecond      \* bound: the clock stops here

Operation == {"text_submission", "url_submission", "image_submission", "video_submission"}

ASSUME LimiterAssumption ==
  /\ IsFiniteSet(Request)
  /\ Traffic \subseteq [Request -> Operation]
  /\ Limit \in [Operation -> Nat]
  /\ Window \in Nat \ {0}
  /\ LastSecond \in Nat

VARIABLES now, operation, asked, window, count, late, retry_at, counter, expires

clock == <<now>>
checks == <<asked, window, count, late, retry_at>>
redis == <<counter, expires>>
limiter == <<clock, operation, checks, redis>>

\* window_start of a second, and the keys there can be.
WindowOf(t) == t \div Window
Key == Operation \X (0 .. WindowOf(LastSecond))
KeyOf(r) == <<operation[r], window[r]>>

LimiterTypeOK ==
  /\ now \in Nat
  /\ operation \in [Request -> Operation]
  /\ asked \in [Request -> {"no", "dated", "counted", "allowed", "refused", "unavailable"}]
  /\ window \in [Request -> Nat]
  /\ count \in [Request -> Nat]
  /\ late \subseteq Request
  /\ retry_at \in [Request -> Nat]
  /\ counter \in [Key -> Nat]
  /\ expires \in [Key -> Nat]

LimiterInit ==
  /\ now = 0
  /\ operation \in Traffic
  /\ asked = [r \in Request |-> "no"]
  /\ window = [r \in Request |-> 0]
  /\ count = [r \in Request |-> 0]
  /\ late = {}
  /\ retry_at = [r \in Request |-> 0]
  /\ counter = [k \in Key |-> 0]
  /\ expires = [k \in Key |-> 0]

\* check() of r has yet to return.
Pending(r) == asked[r] \in {"no", "dated", "counted"}

-----------------------------------------------------------------------------
\* A second passes; Redis drops the keys whose time is up.
Tick ==
  /\ now < LastSecond
  /\ now' = now + 1
  /\ counter' = [k \in Key |-> IF expires[k] <= now + 1 THEN 0 ELSE counter[k]]
  /\ expires' = [k \in Key |-> IF expires[k] <= now + 1 THEN 0 ELSE expires[k]]
  /\ UNCHANGED <<operation, checks>>

ReadClock(r) ==
  /\ asked[r] = "no"
  /\ asked' = [asked EXCEPT ![r] = "dated"]
  /\ window' = [window EXCEPT ![r] = WindowOf(now)]
  /\ UNCHANGED <<clock, operation, count, late, retry_at, redis>>

\* Fault: the key is dropped within its window.
Increment_short(k) ==
  /\ counter' = [counter EXCEPT ![k] = @ + 1]
  /\ expires' = [expires EXCEPT ![k] = now + 1]

\* INCR and EXPIRE, which Redis carries out as one transaction.
Increment(k) ==
  /\ counter' = [counter EXCEPT ![k] = @ + 1]
  /\ expires' = [expires EXCEPT ![k] = now + Window]

Count(r) ==
  /\ asked[r] = "dated"
  /\ Increment(KeyOf(r))
  /\ count' = [count EXCEPT ![r] = counter[KeyOf(r)] + 1]
  /\ asked' = [asked EXCEPT ![r] = "counted"]
  /\ late' = IF WindowOf(now) = window[r] THEN late ELSE late \cup {r}
  /\ UNCHANGED <<clock, operation, window, retry_at>>

Allowed(r) == count[r] <= Limit[operation[r]]

\* Fault: the seconds that have passed instead of those that remain.
ResetAfter_elapsed == now % Window

ResetAfter == Window - (now % Window)

\* check() returns, and enforce() raises if the budget is used up.
Judge(r) ==
  /\ asked[r] = "counted"
  /\ IF Allowed(r)
     THEN /\ asked' = [asked EXCEPT ![r] = "allowed"]
          /\ UNCHANGED retry_at
     ELSE /\ asked' = [asked EXCEPT ![r] = "refused"]
          /\ retry_at' = [retry_at EXCEPT ![r] = now + ResetAfter]
  /\ UNCHANGED <<clock, operation, window, count, late, redis>>

\* "Fail open": the exception may come from a transaction that Redis has
\* carried out or from one that it has not.
Unavailable(r) ==
  /\ asked[r] = "dated"
  /\ asked' = [asked EXCEPT ![r] = "unavailable"]
  /\ Increment(KeyOf(r)) \/ UNCHANGED redis
  /\ UNCHANGED <<clock, operation, window, count, late, retry_at>>

LimiterNext == Tick \/ \E r \in Request : ReadClock(r) \/ Count(r) \/ Judge(r) \/ Unavailable(r)

LimiterSpec == LimiterInit /\ [][LimiterNext]_limiter

-----------------------------------------------------------------------------
(* Properties *)

\* The requests of a window that Redis counted in time and check() allowed.
Admitted(o, w) ==
  {r \in Request \ late : operation[r] = o /\ window[r] = w /\ asked[r] = "allowed"}

\* However requests, window ends, key expiry and failures of Redis interleave,
\* a window admits no more than its budget (rate_limit.py:113).  Two kinds of
\* requests are not held to it: those let through while Redis was unavailable,
\* and those that reached Redis after their window, whose key may be gone.
LimitHolds ==
  \A r \in Request : Cardinality(Admitted(operation[r], window[r])) <= Limit[operation[r]]

\* A client that was refused and waits as long as it was told is in a later
\* window than the one that was full, and need not wait longer than a window,
\* although the clock was read anew to tell it (rate_limit.py:112).
RetryIsWorthIt ==
  \A r \in Request : asked[r] = "refused" =>
    WindowOf(retry_at[r]) > window[r] /\ retry_at[r] <= now + Window

\* "a key can never outlive its window" (rate_limit.py:98-99).
KeyDiesWithItsWindow == \A k \in Key : counter[k] > 0 => WindowOf(now) <= k[2]
=============================================================================
