---------------------------- MODULE IntakeProofs ----------------------------
(***************************************************************************)
(* For any number of requests, files and budgets, and any length of the    *)
(* window: the rate limiter keeps its budget and tells the truth about     *)
(* when to come back; the handlers drive it as its module says, and what   *)
(* they write to three stores one after the other is consistent wherever   *)
(* they break.                                                             *)
(***************************************************************************)
EXTENDS Intake, FiniteSetTheorems, TLAPS

(* The limiter.  The key of a window is not dropped in its window            *)
(* (KeyLives), so INCR never gives two requests counted in time the same     *)
(* number (Distinct), and at most Limit numbers are within the budget.       *)

\* The requests Redis counted within the window they are charged to.
InTime(r) == r \notin late /\ asked[r] \in {"counted", "allowed", "refused"}

Bounded ==
  /\ now <= LastSecond
  /\ \A r \in Request : window[r] \in 0 .. WindowOf(now)

KeyLives ==
  \A r \in Request : InTime(r) /\ WindowOf(now) = window[r] =>
    /\ count[r] <= counter[KeyOf(r)]
    /\ window[r] * Window + Window <= expires[KeyOf(r)]

Distinct ==
  \A r, s \in Request :
    InTime(r) /\ InTime(s) /\ KeyOf(r) = KeyOf(s) /\ r # s => count[r] # count[s]

Numbered ==
  \A r \in Request : /\ InTime(r) => count[r] >= 1
                     /\ asked[r] = "allowed" => Allowed(r)

LimiterInv == LimiterTypeOK /\ Bounded /\ KeyLives /\ Distinct /\ Numbered

\* A second lies in its window, and windows are in the order of their seconds.
LEMMA Windows ==
  ASSUME NEW t \in Nat
  PROVE  /\ WindowOf(t) \in Nat
         /\ WindowOf(t) * Window <= t
         /\ t < WindowOf(t) * Window + Window
  BY LimiterAssumption DEF WindowOf

LEMMA WindowsGrow ==
  ASSUME NEW t \in Nat, NEW u \in Nat, t <= u
  PROVE  WindowOf(t) <= WindowOf(u)
<1> DEFINE q == WindowOf(t)
<1>1. q \in Nat /\ q * Window <= u
  BY Windows, LimiterAssumption
<1> QED
  BY <1>1, LimiterAssumption DEF WindowOf

LEMMA KeysExist ==
  ASSUME LimiterTypeOK, Bounded, NEW r \in Request
  PROVE  KeyOf(r) \in Key
<1>1. WindowOf(now) <= WindowOf(LastSecond)
  BY WindowsGrow, LimiterAssumption DEF LimiterTypeOK, Bounded
<1> QED
  BY <1>1, Windows, LimiterAssumption DEF LimiterTypeOK, Bounded, KeyOf, Key

\* What an INCR does to the invariant: the key that is counted in lives on, and
\* its number is larger than any given so far.
LEMMA Counting ==
  ASSUME LimiterInv, NEW r \in Request, Increment(KeyOf(r))
  PROVE  /\ counter' \in [Key -> Nat]
         /\ expires' \in [Key -> Nat]
         /\ \A k \in Key : counter[k] <= counter'[k]
         /\ counter'[KeyOf(r)] = counter[KeyOf(r)] + 1
         /\ expires'[KeyOf(r)] = now + Window
         /\ \A k \in Key : k # KeyOf(r) => expires'[k] = expires[k]
<1>1. KeyOf(r) \in Key
  BY KeysExist DEF LimiterInv
<1> QED
  BY <1>1, LimiterAssumption DEF LimiterInv, LimiterTypeOK, Increment

LEMMA LimiterStarts == LimiterInit => LimiterInv
<1> SUFFICES ASSUME LimiterInit PROVE LimiterInv
  OBVIOUS
<1>1. 0 \in 0 .. WindowOf(now)
  BY Windows DEF LimiterInit
<1> QED
  BY <1>1, LimiterAssumption
  DEF LimiterInit, LimiterInv, LimiterTypeOK, Bounded, KeyLives, Distinct, Numbered, InTime

LEMMA LimiterGoesOn == LimiterInv /\ [LimiterNext]_limiter => LimiterInv'
<1> SUFFICES ASSUME LimiterInv, [LimiterNext]_limiter PROVE LimiterInv'
  OBVIOUS
<1> USE LimiterAssumption
<1>t. LimiterTypeOK /\ Bounded /\ KeyLives /\ Distinct /\ Numbered
  BY DEF LimiterInv
<1>w. /\ WindowOf(now) \in Nat
      /\ WindowOf(now) * Window <= now
      /\ now < WindowOf(now) * Window + Window
  BY <1>t, Windows DEF LimiterTypeOK
<1>1. CASE Tick
  <2>1. now' = now + 1 /\ now' \in Nat /\ now' <= LastSecond
    BY <1>1, <1>t DEF Tick, LimiterTypeOK
  <2>2. /\ WindowOf(now) <= WindowOf(now')
        /\ WindowOf(now') \in Nat
        /\ now' < WindowOf(now') * Window + Window
    BY <1>t, <2>1, Windows, WindowsGrow DEF LimiterTypeOK
  <2>3. UNCHANGED <<operation, asked, window, count, late, retry_at>>
    BY <1>1 DEF Tick, checks
  <2>4. LimiterTypeOK'
    BY <1>1, <1>t, <2>1, <2>3 DEF Tick, LimiterTypeOK
  <2>5. Bounded'
    BY <1>t, <2>1, <2>2, <2>3, <2>4 DEF Bounded, LimiterTypeOK, WindowOf
  <2>6. KeyLives'
    <3> SUFFICES ASSUME NEW r \in Request, InTime(r)', WindowOf(now)' = window'[r]
                 PROVE  /\ count'[r] <= counter'[KeyOf(r)']
                        /\ window'[r] * Window + Window <= expires'[KeyOf(r)']
      BY DEF KeyLives
    <3>1. InTime(r) /\ KeyOf(r)' = KeyOf(r) /\ KeyOf(r) \in Key
      BY <1>t, <2>3, KeysExist DEF InTime, KeyOf
    <3>2. WindowOf(now') = window[r] /\ WindowOf(now) = window[r]
      <4>1. WindowOf(now') = window[r]
        BY <2>3 DEF WindowOf
      <4>2. window[r] \in Nat /\ window[r] <= WindowOf(now)
        BY <1>t, <1>w DEF Bounded
      <4>3. ASSUME NEW a \in Nat, NEW b \in Nat, NEW c \in Nat, a <= b, b <= c, c = a PROVE b = a
        BY <4>3
      <4> QED
        BY <4>1, <4>2, <4>3, <2>2, <1>w
    <3>3. now + 1 < expires[KeyOf(r)]
      <4>1. window[r] * Window + Window <= expires[KeyOf(r)]
        BY <1>t, <3>1, <3>2 DEF KeyLives
      <4>2. now + 1 < window[r] * Window + Window
        BY <2>1, <2>2, <3>2
      <4>3. expires[KeyOf(r)] \in Nat /\ window[r] \in Nat /\ now \in Nat
        BY <1>t, <3>1 DEF LimiterTypeOK
      <4> QED
        BY <4>1, <4>2, <4>3
    <3>4. ~(expires[KeyOf(r)] <= now + 1)
      BY <3>1, <3>3, <1>t DEF LimiterTypeOK
    <3>5. counter'[KeyOf(r)] = counter[KeyOf(r)] /\ expires'[KeyOf(r)] = expires[KeyOf(r)]
      BY <1>1, <3>1, <3>4 DEF Tick
    <3> QED
      BY <1>t, <2>3, <3>1, <3>2, <3>5 DEF KeyLives
  <2> QED
    BY <1>t, <2>3, <2>4, <2>5, <2>6 DEF LimiterInv, Distinct, Numbered, InTime, KeyOf, Allowed
<1>2. ASSUME NEW r \in Request, ReadClock(r) PROVE LimiterInv'
  <2>1. /\ asked[r] = "no" /\ asked' = [asked EXCEPT ![r] = "dated"]
        /\ window' = [window EXCEPT ![r] = WindowOf(now)]
        /\ UNCHANGED <<now, operation, count, late, retry_at, counter, expires>>
    BY <1>2 DEF ReadClock, clock, redis
  <2>2. \A s \in Request : InTime(s)' => InTime(s) /\ s # r /\ KeyOf(s)' = KeyOf(s) /\ window'[s] = window[s]
    BY <2>1, <1>t DEF InTime, KeyOf, LimiterTypeOK
  <2>3. LimiterTypeOK'
    BY <1>t, <1>w, <2>1 DEF LimiterTypeOK
  <2>4. Bounded'
    BY <1>t, <1>w, <2>1 DEF Bounded, LimiterTypeOK, WindowOf
  <2>5. KeyLives'
    BY <1>t, <2>1, <2>2 DEF KeyLives, WindowOf
  <2>6. Distinct'
    BY <1>t, <2>1, <2>2 DEF Distinct
  <2>7. Numbered'
    BY <1>t, <2>1, <2>2 DEF Numbered, Allowed, LimiterTypeOK
  <2> QED
    BY <2>3, <2>4, <2>5, <2>6, <2>7 DEF LimiterInv
<1>3. ASSUME NEW r \in Request, Count(r) PROVE LimiterInv'
  <2>1. /\ asked[r] = "dated" /\ asked' = [asked EXCEPT ![r] = "counted"]
        /\ count' = [count EXCEPT ![r] = counter[KeyOf(r)] + 1]
        /\ late' = IF WindowOf(now) = window[r] THEN late ELSE late \cup {r}
        /\ Increment(KeyOf(r))
        /\ UNCHANGED <<now, operation, window, retry_at>>
    BY <1>3 DEF Count, clock
  <2>2. /\ counter' \in [Key -> Nat] /\ expires' \in [Key -> Nat]
        /\ \A k \in Key : counter[k] <= counter'[k]
        /\ counter'[KeyOf(r)] = counter[KeyOf(r)] + 1
        /\ expires'[KeyOf(r)] = now + Window
        /\ \A k \in Key : k # KeyOf(r) => expires'[k] = expires[k]
    BY <2>1, Counting
  <2>3. \A s \in Request : KeyOf(s) \in Key /\ KeyOf(s)' = KeyOf(s)
    BY <1>t, <2>1, KeysExist DEF KeyOf
  <2>4. \A s \in Request : s # r /\ InTime(s)' => InTime(s) /\ count'[s] = count[s]
    BY <1>t, <2>1 DEF InTime, LimiterTypeOK
  <2>5. InTime(r)' => WindowOf(now) = window[r]
    BY <1>t, <2>1 DEF InTime
  <2>6. count'[r] = counter[KeyOf(r)] + 1 /\ counter[KeyOf(r)] \in Nat
    BY <1>t, <2>1, <2>3 DEF LimiterTypeOK
  <2>7. LimiterTypeOK'
    BY <1>t, <2>1, <2>2, <2>6 DEF LimiterTypeOK
  <2>8. Bounded'
    BY <1>t, <2>1 DEF Bounded, WindowOf
  <2>9. KeyLives'
    <3> SUFFICES ASSUME NEW s \in Request, InTime(s)', WindowOf(now) = window[s]
                 PROVE  /\ count'[s] <= counter'[KeyOf(s)]
                        /\ window[s] * Window + Window <= expires'[KeyOf(s)]
      BY <2>1, <2>3 DEF KeyLives, WindowOf
    <3>1. window[s] * Window + Window <= now + Window
      BY <1>w, <1>t DEF LimiterTypeOK
    <3>2. CASE s = r
      BY <3>1, <3>2, <2>2, <2>6
    <3>3. CASE s # r
      <4>1. InTime(s) /\ count'[s] = count[s] /\ KeyOf(s) \in Key
        BY <3>3, <2>3, <2>4
      <4>2. /\ count[s] <= counter[KeyOf(s)]
            /\ window[s] * Window + Window <= expires[KeyOf(s)]
        BY <4>1, <1>t DEF KeyLives
      <4>3. count[s] \in Nat /\ counter[KeyOf(s)] \in Nat /\ counter'[KeyOf(s)] \in Nat
        BY <4>1, <2>2, <1>t DEF LimiterTypeOK
      <4>4. count'[s] <= counter'[KeyOf(s)]
        BY <4>1, <4>2, <4>3, <2>2
      <4>5. window[s] * Window + Window <= expires'[KeyOf(s)]
        BY <3>1, <4>1, <4>2, <2>2
      <4> QED
        BY <4>4, <4>5
    <3> QED
      BY <3>2, <3>3
  <2>10. Distinct'
    <3>1. ASSUME NEW s \in Request, s # r, InTime(s)', InTime(r)', KeyOf(s) = KeyOf(r)
          PROVE  count'[s] # count'[r]
      <4>1. InTime(s) /\ count'[s] = count[s] /\ WindowOf(now) = window[s]
        BY <3>1, <2>4, <2>5 DEF KeyOf
      <4>2. count[s] <= counter[KeyOf(r)]
        BY <4>1, <3>1, <1>t DEF KeyLives
      <4>3. count[s] \in Nat
        BY <1>t DEF LimiterTypeOK
      <4> QED
        BY <4>1, <4>2, <4>3, <2>6
    <3> QED
      BY <3>1, <2>3, <2>4, <1>t DEF Distinct
  <2>11. Numbered'
    BY <1>t, <2>1, <2>4, <2>6 DEF Numbered, Allowed, LimiterTypeOK
  <2> QED
    BY <2>7, <2>8, <2>9, <2>10, <2>11 DEF LimiterInv
<1>4. ASSUME NEW r \in Request, Judge(r) PROVE LimiterInv'
  <2>1. /\ asked[r] = "counted"
        /\ \/ Allowed(r) /\ asked' = [asked EXCEPT ![r] = "allowed"] /\ retry_at' = retry_at
           \/ /\ asked' = [asked EXCEPT ![r] = "refused"]
              /\ retry_at' = [retry_at EXCEPT ![r] = now + ResetAfter]
        /\ UNCHANGED <<now, operation, window, count, late, counter, expires>>
    BY <1>4 DEF Judge, clock, redis
  <2>2. \A s \in Request : InTime(s)' <=> InTime(s)
    BY <2>1, <1>t DEF InTime, LimiterTypeOK
  <2>3. now + ResetAfter \in Nat
    BY <1>t DEF ResetAfter, LimiterTypeOK
  <2>4. LimiterTypeOK'
    BY <1>t, <2>1, <2>3 DEF LimiterTypeOK
  <2>5. Bounded' /\ KeyLives' /\ Distinct'
    BY <1>t, <2>1, <2>2 DEF Bounded, KeyLives, Distinct, WindowOf, KeyOf
  <2>6. Numbered'
    BY <1>t, <2>1, <2>2 DEF Numbered, Allowed, LimiterTypeOK
  <2> QED
    BY <2>4, <2>5, <2>6 DEF LimiterInv
<1>5. ASSUME NEW r \in Request, Unavailable(r) PROVE LimiterInv'
  <2>1. /\ asked[r] = "dated" /\ asked' = [asked EXCEPT ![r] = "unavailable"]
        /\ Increment(KeyOf(r)) \/ UNCHANGED <<counter, expires>>
        /\ UNCHANGED <<now, operation, window, count, late, retry_at>>
    BY <1>5 DEF Unavailable, clock, redis
  <2>2. /\ counter' \in [Key -> Nat] /\ expires' \in [Key -> Nat]
        /\ \A k \in Key : counter[k] <= counter'[k]
        /\ \A k \in Key : expires'[k] \in {expires[k], now + Window}
    BY <2>1, <1>t, Counting DEF LimiterTypeOK
  <2>3. \A s \in Request : InTime(s)' => InTime(s)
    BY <2>1, <1>t DEF InTime, LimiterTypeOK
  <2>4. \A s \in Request : KeyOf(s) \in Key /\ KeyOf(s)' = KeyOf(s)
    BY <1>t, <2>1, KeysExist DEF KeyOf
  <2>5. LimiterTypeOK'
    BY <1>t, <2>1, <2>2 DEF LimiterTypeOK
  <2>6. KeyLives'
    <3> SUFFICES ASSUME NEW s \in Request, InTime(s), WindowOf(now) = window[s]
                 PROVE  /\ count[s] <= counter'[KeyOf(s)]
                        /\ window[s] * Window + Window <= expires'[KeyOf(s)]
      BY <2>1, <2>3, <2>4 DEF KeyLives, WindowOf
    <3>1. window[s] * Window + Window <= now + Window
      BY <1>w, <1>t DEF LimiterTypeOK
    <3>2. /\ count[s] <= counter[KeyOf(s)]
          /\ window[s] * Window + Window <= expires[KeyOf(s)]
      BY <1>t DEF KeyLives
    <3>3. count[s] \in Nat /\ counter[KeyOf(s)] \in Nat /\ counter'[KeyOf(s)] \in Nat
      BY <2>2, <2>4, <1>t DEF LimiterTypeOK
    <3>4. count[s] <= counter'[KeyOf(s)]
      BY <3>2, <3>3, <2>2, <2>4
    <3>5. window[s] * Window + Window <= expires'[KeyOf(s)]
      BY <3>1, <3>2, <2>2, <2>4
    <3> QED
      BY <3>4, <3>5
  <2>7. Bounded' /\ Distinct' /\ Numbered'
    BY <1>t, <2>1, <2>3, <2>4 DEF Bounded, Distinct, Numbered, Allowed, WindowOf, LimiterTypeOK
  <2> QED
    BY <2>5, <2>6, <2>7 DEF LimiterInv
<1>6. CASE UNCHANGED limiter
  BY <1>t, <1>6 DEF limiter, clock, checks, redis, LimiterInv, LimiterTypeOK, Bounded,
     KeyLives, Distinct, Numbered, InTime, KeyOf, Allowed, WindowOf
<1> QED
  BY <1>1, <1>2, <1>3, <1>4, <1>5, <1>6 DEF LimiterNext

LEMMA LimiterInvariant == LimiterSpec => []LimiterInv
  BY LimiterStarts, LimiterGoesOn, PTL DEF LimiterSpec

-----------------------------------------------------------------------------
\* The numbers of the requests admitted in a window are different and none is
\* larger than the budget.
LEMMA BudgetHolds == LimiterInv => LimitHolds
<1> SUFFICES ASSUME LimiterInv, NEW r \in Request
             PROVE  Cardinality(Admitted(operation[r], window[r])) <= Limit[operation[r]]
  BY DEF LimitHolds
<1> DEFINE A == Admitted(operation[r], window[r])
           n == Limit[operation[r]]
           number == [s \in A |-> count[s]]
<1>1. n \in Nat
  BY LimiterAssumption DEF LimiterInv, LimiterTypeOK
<1>2. \A s \in A : s \in Request /\ InTime(s) /\ KeyOf(s) = <<operation[r], window[r]>> /\ count[s] \in 1 .. n
  BY <1>1 DEF LimiterInv, LimiterTypeOK, Numbered, Admitted, InTime, KeyOf, Allowed
<1>3. number \in Injection(A, 1 .. n)
  <2>1. \A s, u \in A : number[s] = number[u] => s = u
    BY <1>2 DEF LimiterInv, Distinct
  <2> QED
    BY <1>2, <2>1 DEF Injection, IsInjective
<1> HIDE DEF A, n, number
<1>4. IsFiniteSet(1 .. n) /\ Cardinality(1 .. n) = n
  <2>1. 1 \in Int /\ n \in Int
    BY <1>1
  <2>2. IsFiniteSet(1 .. n) /\ Cardinality(1 .. n) = IF 1 > n THEN 0 ELSE n - 1 + 1
    BY <2>1, FS_Interval
  <2> QED
    BY <1>1, <2>2
<1>5. Cardinality(A) <= n
  BY <1>3, <1>4, FS_Injection
<1> QED
  BY <1>5 DEF A, n

\* No window admits more than its budget (rate_limit.py:94-113), for any number
\* of requests and any budgets.
THEOREM LimitIsHeld == LimiterSpec => []LimitHolds
  BY LimiterInvariant, BudgetHolds, PTL

\* The seconds a client is told end with the window of the clock reading they
\* are computed from.
LEMMA NextWindow ==
  ASSUME NEW t \in Nat
  PROVE  /\ t + (Window - (t % Window)) \in Nat
         /\ t + (Window - (t % Window)) <= t + Window
         /\ WindowOf(t) < WindowOf(t + (Window - (t % Window)))
<1> USE LimiterAssumption
<1> DEFINE q == t \div Window
<1>1. q \in Nat /\ t % Window \in 0 .. Window - 1 /\ t = q * Window + (t % Window)
  OBVIOUS
<1>2. t + (Window - (t % Window)) = (q + 1) * Window
  BY <1>1
<1>3. q + 1 <= ((q + 1) * Window) \div Window
  BY <1>1
<1> QED
  BY <1>1, <1>2, <1>3 DEF WindowOf

\* Who was refused is told a time at which its window is over (rate_limit.py:112).
THEOREM RetryIsTrue == LimiterSpec => []RetryIsWorthIt
<1>1. LimiterInit => RetryIsWorthIt
  BY DEF LimiterInit, RetryIsWorthIt
<1>2. LimiterInv /\ RetryIsWorthIt /\ [LimiterNext]_limiter => RetryIsWorthIt'
  <2> SUFFICES ASSUME LimiterInv, RetryIsWorthIt, [LimiterNext]_limiter, NEW r \in Request, asked'[r] = "refused"
               PROVE  WindowOf(retry_at'[r]) > window'[r] /\ retry_at'[r] <= now' + Window
    BY DEF RetryIsWorthIt, WindowOf
  <2> USE LimiterAssumption
  <2>t. LimiterTypeOK /\ Bounded
    BY DEF LimiterInv
  <2>1. CASE asked[r] = "refused"
    <3>1. retry_at'[r] = retry_at[r] /\ window'[r] = window[r] /\ now' >= now /\ now' \in Nat
      BY <2>1, <2>t DEF LimiterNext, Tick, ReadClock, Count, Judge, Unavailable, limiter, clock,
         checks, redis, LimiterTypeOK
    <3> QED
      BY <2>1, <3>1, <2>t DEF RetryIsWorthIt, LimiterTypeOK
  <2>2. CASE asked[r] # "refused"
    <3>1. Judge(r) /\ retry_at'[r] = now + ResetAfter /\ window'[r] = window[r] /\ now' = now
      BY <2>2, <2>t DEF LimiterNext, Tick, ReadClock, Count, Judge, Unavailable, limiter, clock,
         checks, redis, LimiterTypeOK
    <3> QED
      BY <3>1, <2>t, NextWindow, Windows DEF ResetAfter, Bounded, LimiterTypeOK
  <2> QED
    BY <2>1, <2>2
<1> QED
  BY <1>1, <1>2, LimiterInvariant, PTL DEF LimiterSpec

-----------------------------------------------------------------------------
(* The handlers *)

\* What is known of a request by the point its handler has reached.
Progress(r) ==
  /\ at[r] = "admitted" /\ r \in Uploads => file[r] \in Files /\ Passes(Validated(r, file[r]))
  /\ at[r] = "stored" => r \in Uploads
  /\ at[r] \in {"new", "admitted"} => object[r] = "none"
  /\ at[r] \in {"stored", "flushed", "enqueued", "answered", "ended"} /\ r \in Uploads
       => object[r] # "none"
  /\ at[r] \in {"enqueued", "answered", "ended"} => job[r] # "none"
  /\ at[r] \in {"new", "admitted", "stored", "flushed"} => ~record[r] /\ answer[r] = "none"
  /\ at[r] = "enqueued" => answer[r] = "none"
  /\ at[r] = "answered" => AnswersFirst

\* The stores at every point, past the handler's end included.
Backed(r) == record[r] => job[r] # "none" /\ (r \in Uploads => object[r] # "none")
Kept(r) ==
  object[r] # "none" =>
    r \in Uploads /\ file[r] \in Files /\ Passes(Validated(r, file[r])) /\ object[r] = Validated(r, file[r])
Honest(r) == answer[r] = "accepted" /\ ~AnswersFirst => record[r]

IntakeInv == TypeOK /\ \A r \in Request : Progress(r) /\ Backed(r) /\ Kept(r) /\ Honest(r)

\* What a validator lets through has the type its bytes tell.
LEMMA PassedIsTyped ==
  ASSUME NEW r \in Request, NEW f \in Files, Passes(Validated(r, f)), r \in Uploads
  PROVE  /\ Validated(r, f) = detect_content_type(f)
         /\ Validated(r, f) \in ALLOWED_IMAGE_TYPES \cup ALLOWED_VIDEO_TYPES
         /\ Validated(r, f) # "none"
  BY DEF Passes, Error, Validated, validate_image_upload, validate_video_upload,
     ALLOWED_IMAGE_TYPES, ALLOWED_VIDEO_TYPES

LEMMA IntakeStarts == Init => IntakeInv
<1> SUFFICES ASSUME Init PROVE IntakeInv
  OBVIOUS
<1>1. LimiterTypeOK
  BY LimiterStarts DEF Init, LimiterInv
<1> QED
  BY <1>1 DEF Init, IntakeInv, TypeOK, Point, Progress, Backed, Kept, Honest

\* Every step of the limiter's variables is a step of the limiter.
LEMMA IntakeStepsLimiter == [Next]_vars => [LimiterNext]_limiter
  BY DEF Next, vars, Wait, Serve, Ask, Enforce, Admit, Reject, StoreMedia, Flush, Enqueue,
     AnswerEarly, Commit, Break, Reserve, ProcessJob, Poll, LimiterNext

\* The requests are served by the limiter as its own module has it, so what is
\* proved of the limiter holds of the service (submissions.py:66-135, deps.py:48).
THEOREM IntakeUsesLimiter == Spec => LimiterSpec
<1>1. Init => LimiterInit
  BY DEF Init
<1> QED
  BY <1>1, IntakeStepsLimiter, PTL DEF Spec, LimiterSpec

\* The budget of a window holds with the handlers around the limiter.
THEOREM SubmissionsWithinLimit == Spec => []LimitHolds
  BY IntakeUsesLimiter, LimitIsHeld, PTL

\* So does the truth about when to come back.
THEOREM SubmittersMayReturn == Spec => []RetryIsWorthIt
  BY IntakeUsesLimiter, RetryIsTrue, PTL

LEMMA OperationStays == [Next]_vars => operation' = operation
<1> SUFFICES ASSUME [Next]_vars PROVE operation' = operation
  OBVIOUS
<1>1. [LimiterNext]_limiter
  BY IntakeStepsLimiter
<1> QED
  BY <1>1 DEF LimiterNext, Tick, ReadClock, Count, Judge, Unavailable, limiter

LEMMA IntakeGoesOn ==
  LimiterInv /\ LimiterTypeOK' /\ IntakeInv /\ [Next]_vars => IntakeInv'
<1> SUFFICES ASSUME LimiterInv, LimiterTypeOK', IntakeInv, [Next]_vars PROVE IntakeInv'
  OBVIOUS
<1>o. operation' = operation
  BY OperationStays
<1>t. TypeOK /\ \A r \in Request : Progress(r) /\ Backed(r) /\ Kept(r) /\ Honest(r)
  BY DEF IntakeInv
<1> USE DEF TypeOK, Progress, Backed, Kept, Honest, Uploads, AnswersFirst
<1>1. CASE UNCHANGED <<handler, stores, readers>>
  BY <1>1, <1>o, <1>t DEF handler, stores, readers, IntakeInv, Validated
<1>2. ASSUME NEW r \in Request, Enforce(r), ~Allowed(r) PROVE IntakeInv'
  BY <1>2, <1>o, <1>t DEF Enforce, Goto, Tell, Point, stores, readers, IntakeInv, Validated
<1>3. ASSUME NEW r \in Request, Reject(r) PROVE IntakeInv'
  BY <1>3, <1>o, <1>t DEF Reject, Cleared, Goto, Tell, Point, stores, readers, IntakeInv, Validated
<1>4. ASSUME NEW r \in Request, Admit(r) PROVE IntakeInv'
  BY <1>4, <1>o, <1>t DEF Admit, Cleared, Goto, Point, stores, readers, IntakeInv, Validated
<1>5. ASSUME NEW r \in Request, StoreMedia(r) PROVE IntakeInv'
  <2>1. /\ Validated(r, file[r]) \in ALLOWED_IMAGE_TYPES \cup ALLOWED_VIDEO_TYPES
        /\ Validated(r, file[r]) # "none"
    BY <1>5, <1>t, PassedIsTyped DEF StoreMedia
  <2> QED
    BY <2>1, <1>5, <1>o, <1>t DEF StoreMedia, Goto, Point, readers, IntakeInv, Validated
<1>6. ASSUME NEW r \in Request, Flush(r) PROVE IntakeInv'
  BY <1>6, <1>o, <1>t DEF Flush, Goto, Point, stores, readers, IntakeInv, Validated
<1>7. ASSUME NEW r \in Request, Enqueue(r) PROVE IntakeInv'
  BY <1>7, <1>o, <1>t DEF Enqueue, Goto, Point, readers, IntakeInv, Validated
<1>8. ASSUME NEW r \in Request, AnswerEarly(r) PROVE IntakeInv'
  BY <1>8, <1>o, <1>t DEF AnswerEarly, Goto, Tell, Point, stores, readers, IntakeInv, Validated
<1>9. ASSUME NEW r \in Request, Commit(r) PROVE IntakeInv'
  BY <1>9, <1>o, <1>t DEF Commit, Goto, Tell, Point, readers, IntakeInv, Validated
<1>10. ASSUME NEW r \in Request, Break(r) PROVE IntakeInv'
  <2>1. at[r] = "admitted" /\ r \in Uploads =>
          /\ Validated(r, file[r]) \in ALLOWED_IMAGE_TYPES \cup ALLOWED_VIDEO_TYPES
          /\ Validated(r, file[r]) # "none"
    BY <1>t, PassedIsTyped
  <2>2. /\ at[r] \notin {"new", "ended", "failed"}
        /\ answer' = [answer EXCEPT ![r] = IF answer[r] = "accepted" THEN "accepted" ELSE "broken"]
        /\ at' = [at EXCEPT ![r] = "failed"]
        /\ UNCHANGED <<where, file, outcome, polled>>
    BY <1>10 DEF Break, Tell, Goto, readers
  <2> USE <2>1, <2>2, <1>o, <1>t DEF Point, IntakeInv, Validated
  <2>3. CASE UNCHANGED <<object, record, job>>
    BY <2>3
  <2>4. CASE /\ at[r] = "admitted" /\ r \in Uploads
             /\ object' = [object EXCEPT ![r] = Validated(r, file[r])]
             /\ UNCHANGED <<record, job>>
    BY <2>4
  <2>5. CASE /\ at[r] = "flushed"
             /\ job' = [job EXCEPT ![r] = "queued"]
             /\ UNCHANGED <<object, record>>
    BY <2>5
  <2>6. CASE /\ at[r] = IF AnswersFirst THEN "answered" ELSE "enqueued"
             /\ record' = [record EXCEPT ![r] = TRUE]
             /\ UNCHANGED <<object, job>>
    BY <2>6
  <2> QED
    BY <1>10, <2>3, <2>4, <2>5, <2>6 DEF Break, stores
<1>11. ASSUME NEW r \in Request, Reserve(r) PROVE IntakeInv'
  BY <1>11, <1>o, <1>t DEF Reserve, handler, readers, IntakeInv, Validated
<1>12. ASSUME NEW r \in Request, ProcessJob(r) PROVE IntakeInv'
  BY <1>12, <1>o, <1>t DEF ProcessJob, handler, IntakeInv, Validated
<1>13. ASSUME NEW r \in Request, Poll(r) PROVE IntakeInv'
  BY <1>13, <1>o, <1>t DEF Poll, handler, stores, IntakeInv, Validated
<1>14. \/ UNCHANGED <<handler, stores, readers>>
       \/ \E r \in Request :
            \/ Enforce(r) /\ ~Allowed(r)
            \/ Reject(r) \/ Admit(r) \/ StoreMedia(r) \/ Flush(r) \/ Enqueue(r) \/ AnswerEarly(r) \/ Commit(r) \/ Break(r) \/ Reserve(r)
            \/ ProcessJob(r) \/ Poll(r)
  BY DEF Next, vars, Wait, Serve, Ask, Enforce, handler, stores, readers
<1> QED
  BY <1>1, <1>2, <1>3, <1>4, <1>5, <1>6, <1>7, <1>8, <1>9, <1>10, <1>11, <1>12, <1>13, <1>14

LEMMA IntakeInvariant == Spec => []IntakeInv
<1>1. LimiterInv => LimiterTypeOK
  BY DEF LimiterInv
<1> QED
  BY <1>1, IntakeStarts, IntakeGoesOn, IntakeUsesLimiter, LimiterInvariant, PTL DEF Spec

\* The rows of requests, their handlers and the limiter keep their types.
THEOREM IntakeTypes == Spec => []TypeOK
<1>1. IntakeInv => TypeOK
  BY DEF IntakeInv
<1> QED
  BY <1>1, IntakeInvariant, PTL

\* A committed verification has its job and its bytes, wherever handlers break
\* (submissions.py:38, submission_service.py:171-187, session.py:94).
THEOREM RecordsAreBacked == Spec => []RecordIsBacked
<1>1. IntakeInv => RecordIsBacked
  BY DEF IntakeInv, Backed, RecordIsBacked
<1> QED
  BY <1>1, IntakeInvariant, PTL

\* What a validator lets through is what the store's readers may count on.
LEMMA PassedIsSafe ==
  ASSUME NEW r \in Request, NEW f \in Files, Passes(Validated(r, f)), r \in Uploads
  PROVE  /\ operation[r] = "image_submission" =>
              /\ Validated(r, f) \in ALLOWED_IMAGE_TYPES
              /\ f.size \in 1 .. MaxImageBytes
              /\ f.width * f.height <= MaxImagePixels
         /\ operation[r] = "video_submission" =>
              Validated(r, f) \in ALLOWED_VIDEO_TYPES /\ f.size \in 1 .. MaxVideoBytes
<1>1. f.size \in Nat /\ f.width \in Nat /\ f.height \in Nat
  BY IntakeAssumption DEF Upload
<1>2. {MaxImageBytes, MaxVideoBytes, MaxImageDimension, MaxImagePixels} \subseteq Nat
  BY UploadAssumption
<1>3. CASE operation[r] = "image_submission"
  <2>1. f.size <= MaxImageBytes /\ Passes(validate_image_upload(f)) /\ Validated(r, f) = validate_image_upload(f)
    BY <1>3, <1>1, <1>2 DEF Validated, Passes, Error
  <2>2. /\ f.size # 0
        /\ detect_content_type(f) \in ALLOWED_IMAGE_TYPES
        /\ Passes(_probe_image_dimensions(f))
        /\ validate_image_upload(f) = detect_content_type(f)
    BY <2>1 DEF validate_image_upload, Passes, Error
  <2>3. ~(f.width * f.height > MaxImagePixels)
    BY <2>2 DEF _probe_image_dimensions, Passes, Error
  <2>4. f.width * f.height <= MaxImagePixels
    BY <2>3, <1>1, <1>2
  <2> QED
    BY <1>3, <2>1, <2>2, <2>4, <1>1, <1>2
<1>4. CASE operation[r] # "image_submission"
  BY <1>4, <1>1, <1>2 DEF Validated, Passes, Error, validate_video_upload
<1> QED
  BY <1>3, <1>4

\* Whatever is in the object store has the type its bytes tell, is of the kind
\* its handler accepts, and can be decoded within the pixel budget
\* (upload_validation.py:101-228, submission_service.py:171).
THEOREM StoredIsSafe == Spec => []StoredIsChecked
<1>1. IntakeInv => StoredIsChecked
  BY PassedIsSafe, PassedIsTyped DEF IntakeInv, Kept, StoredIsChecked
<1> QED
  BY <1>1, IntakeInvariant, PTL

\* Whoever was told 202 has a record, where the response waits for the commit.
THEOREM AcceptedAreStored == Spec => []AcceptedIsStored
<1>1. IntakeInv => AcceptedIsStored
  BY DEF IntakeInv, Honest, AcceptedIsStored
<1> QED
  BY <1>1, IntakeInvariant, PTL
=============================================================================
