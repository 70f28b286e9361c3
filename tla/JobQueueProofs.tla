--------------------------- MODULE JobQueueProofs ---------------------------
(***************************************************************************)
(* What holds of the job queue for every set of jobs and processes, every  *)
(* retry budget and every number of slow jobs; that it implements          *)
(* at-least-once delivery as long as no process dies between the two Redis *)
(* commands of one method, by the inductive invariant that a job that is   *)
(* not settled is anchored; and that the worker loop uses the queue as its *)
(* methods allow, with the Redis lock keeping two workers from running the *)
(* pipeline for one verification as long as no job outlives its lease.     *)
(***************************************************************************)
EXTENDS WorkerLoop, SequenceTheorems, TLAPS

LEMMA RetriedIsEntry == \A e \in Entry : Retried(e) \in Entry
  BY DEF Entry, Retried

\* One case per action, as in all the proofs below.
LEMMA TypeStep ==
  ASSUME TypeOK, [QNext]_qvars
  PROVE  TypeOK'
<1> USE QueueAssumption DEF Entry, Listed, Lease, Down, Up, Holds, PC, BetweenCommands
<1>1. ASSUME NEW j \in Job, Enqueue(j) PROVE TypeOK'
  <2>1. [job |-> j, attempt |-> 1] \in Entry
    OBVIOUS
  <2>2. pending' \in Seq(Entry)
    BY <1>1, <2>1, AppendProperties DEF TypeOK, Enqueue
  <2> QED BY <1>1, <2>2 DEF TypeOK, Enqueue, clients
<1>2. ASSUME NEW c \in Consumer, Claim(c) PROVE TypeOK'
  <2>1. Head(pending) \in Entry /\ Tail(pending) \in Seq(Entry)
    <3> HIDE DEF Entry
    <3> QED BY <1>2, HeadTailProperties DEF TypeOK, Claim
  <2>2. At(Head(pending), "none") \in Listed
    BY <2>1 DEF At
  <2> QED BY <1>2, <2>1, <2>2 DEF TypeOK, Claim, history
<1>3. ASSUME NEW c \in Consumer, DropBare(c) PROVE TypeOK'
  BY <1>3 DEF TypeOK, DropBare, history
<1>4. ASSUME NEW c \in Consumer, WriteLease(c) PROVE TypeOK'
  <2>1. hand[c] \in Entry /\ At(hand[c], "live") \in Listed
    BY <1>4 DEF TypeOK, WriteLease, At
  <2>2. delivered' \in [Job -> Nat]
    BY <1>4, <2>1 DEF TypeOK, WriteLease
  <2> QED BY <1>4, <2>1, <2>2 DEF TypeOK, WriteLease
<1>5. ASSUME NEW c \in Consumer, Complete(c) PROVE TypeOK'
  <2>1. hand[c] \in Entry
    BY <1>5 DEF TypeOK, Complete
  <2> QED BY <1>5, <2>1 DEF TypeOK, Complete, Unlist
<1>6. ASSUME NEW c \in Consumer, CompleteUnanswered(c) PROVE TypeOK'
  <2>1. hand[c] \in Entry
    BY <1>6 DEF TypeOK, CompleteUnanswered
  <2>2. processing' \in [Consumer -> SUBSET Listed] /\ settled' \in SUBSET Job
    BY <1>6, <2>1 DEF TypeOK, CompleteUnanswered, Unlist
  <2>3. /\ pc' = [pc EXCEPT ![c] = "unacked"]
        /\ UNCHANGED <<pending, dead, hand, source, slow, delivered, submitted>>
    BY <1>6 DEF CompleteUnanswered
  <2> QED BY <2>1, <2>2, <2>3 DEF TypeOK
<1>7. ASSUME NEW c \in Consumer, NEW r \in BOOLEAN, FailDrop(c, r) PROVE TypeOK'
  <2>1. hand[c] \in Entry /\ Fate(hand[c], r) \in {"requeue", "exhausted", "not_retryable"}
    BY <1>7 DEF TypeOK, FailDrop, Fate
  <2> QED BY <1>7, <2>1 DEF TypeOK, FailDrop, Unlist, history
<1>8. ASSUME NEW c \in Consumer, FailRequeue(c) PROVE TypeOK'
  <2>1. Retried(hand[c]) \in Entry
    BY <1>8, RetriedIsEntry DEF TypeOK, FailRequeue
  <2>2. pending' \in Seq(Entry)
    BY <1>8, <2>1, AppendProperties DEF TypeOK, FailRequeue
  <2> QED BY <1>8, <2>2 DEF TypeOK, FailRequeue, history
<1>9. ASSUME NEW c \in Consumer, FailBury(c) PROVE TypeOK'
  <2>1. hand[c] \in Entry
    BY <1>9 DEF TypeOK, FailBury
  <2> QED BY <1>9, <2>1 DEF TypeOK, FailBury, DeadLetter
<1>10. ASSUME NEW c \in Consumer, NEW d \in Consumer, ReapRead(c, d) PROVE TypeOK'
  BY <1>10 DEF TypeOK, ReapRead, lists, history
<1>11. ASSUME NEW c \in Consumer, ReapDrop(c) PROVE TypeOK'
  BY <1>11 DEF TypeOK, ReapDrop, history
<1>12. ASSUME NEW c \in Consumer, ReapRequeue(c) PROVE TypeOK'
  <2>1. Retried(hand[c]) \in Entry
    BY <1>12, RetriedIsEntry DEF TypeOK, ReapRequeue
  <2>2. pending' \in Seq(Entry)
    BY <1>12, <2>1, AppendProperties DEF TypeOK, ReapRequeue
  <2> QED BY <1>12, <2>2 DEF TypeOK, ReapRequeue, history
<1>13. ASSUME NEW c \in Consumer, ExpireLease(c) PROVE TypeOK'
  <2>1. slow' \in 0..MaxSlow
    BY <1>13 DEF TypeOK, ExpireLease
  <2>2. \A e \in Listed : At(e, "expired") \in Listed
    BY DEF At
  <2> QED BY <1>13, <2>1, <2>2 DEF TypeOK, ExpireLease, clients
<1>14. ASSUME NEW c \in Consumer, Stop(c) PROVE TypeOK'
  BY <1>14 DEF TypeOK, Stop, lists, history
<1>16. ASSUME NEW c \in Consumer, Crash(c) PROVE TypeOK'
  BY <1>16 DEF TypeOK, Crash, lists, history
<1>15. CASE UNCHANGED qvars
  BY <1>15 DEF TypeOK, qvars, lists, clients, history
<1> QED
  BY <1>1, <1>2, <1>3, <1>4, <1>5, <1>6, <1>7, <1>8, <1>9, <1>10, <1>11, <1>12,
     <1>13, <1>14, <1>15, <1>16 DEF QNext, Work

\* The queue's data stay well typed: in particular a process inside a method
\* always has a real entry in hand (queue.py:118-211).
THEOREM QueueTypes == QSpec => []TypeOK
<1>1. QInit => TypeOK
  BY QueueAssumption
     DEF QInit, TypeOK, Entry, Listed, Holds, Down, PC
<1> QED
  BY <1>1, TypeStep, PTL DEF QSpec

-----------------------------------------------------------------------------
(* Retry accounting *)

LEMMA AppendIndexes ==
  ASSUME NEW S, NEW s \in Seq(S), NEW e \in S, NEW i \in DOMAIN Append(s, e)
  PROVE  Append(s, e)[i] = e \/ (i \in DOMAIN s /\ Append(s, e)[i] = s[i])
OBVIOUS

LEMMA TailIndexes ==
  ASSUME NEW S, NEW s \in Seq(S), s # <<>>
  PROVE  /\ 1 \in DOMAIN s /\ s[1] = Head(s)
         /\ \A i \in DOMAIN Tail(s) : i + 1 \in DOMAIN s /\ Tail(s)[i] = s[i + 1]
         /\ \A i \in DOMAIN s : i = 1 \/ (i - 1 \in DOMAIN Tail(s) /\ Tail(s)[i - 1] = s[i])
OBVIOUS

LEMMA AttemptsStep ==
  ASSUME TypeOK, AttemptsCounted, [QNext]_qvars
  PROVE  AttemptsCounted'
<1> USE QueueAssumption
<1> USE DEF PendingCounted, ListedCounted, HeldCounted, DeadCounted, Holds, Down
<1>a. \A c \in Consumer : Holds(c) =>
        /\ hand[c] \in Entry
        /\ hand[c].job \in Job /\ hand[c].attempt \in Nat /\ hand[c].attempt > 0
  BY DEF TypeOK, Entry
<1>b. \A c \in Consumer : \A e \in processing[c] : e.job \in Job /\ e.attempt \in Nat
  BY DEF TypeOK, Listed
<1>c. \A i \in DOMAIN pending :
        pending[i] \in Entry /\ pending[i].job \in Job /\ pending[i].attempt \in Nat
  <2> SUFFICES ASSUME NEW i \in DOMAIN pending
               PROVE  pending[i] \in Entry /\ pending[i].job \in Job /\ pending[i].attempt \in Nat
    OBVIOUS
  <2>1. pending[i] \in Entry
    BY DEF TypeOK
  <2> QED BY <2>1 DEF Entry
<1>d. \A d \in dead : d.job \in Job /\ d.attempt \in Nat
  BY DEF TypeOK, DeadLetter
<1>e. \A j \in Job : delivered[j] \in Nat
  BY DEF TypeOK
<1>t. /\ \A c \in Consumer : Holds(c) =>
            /\ hand[c] \in Entry
            /\ hand[c].job \in Job /\ hand[c].attempt \in Nat /\ hand[c].attempt > 0
      /\ \A c \in Consumer : \A e \in processing[c] : e.job \in Job /\ e.attempt \in Nat
      /\ \A i \in DOMAIN pending :
            pending[i] \in Entry /\ pending[i].job \in Job /\ pending[i].attempt \in Nat
      /\ \A d \in dead : d.job \in Job /\ d.attempt \in Nat
      /\ \A j \in Job : delivered[j] \in Nat
  BY <1>a, <1>b, <1>c, <1>d, <1>e
<1>1. ASSUME NEW j \in Job, Enqueue(j) PROVE AttemptsCounted'
  <2>1. [job |-> j, attempt |-> 1] \in Entry
    BY DEF Entry
  <2>2. PendingCounted'
    BY <1>1, <1>t, <2>1, AppendIndexes DEF TypeOK, Enqueue, AttemptsCounted
  <2> QED BY <1>1, <2>2 DEF Enqueue, AttemptsCounted, clients
<1>2. ASSUME NEW c \in Consumer, Claim(c) PROVE AttemptsCounted'
  <2>1. pending[1] = Head(pending) /\ 1 \in DOMAIN pending
    BY <1>2, TailIndexes DEF TypeOK, Claim
  <2>2. PendingCounted'
    BY <1>2, TailIndexes DEF TypeOK, Claim, AttemptsCounted, history
  <2>3. ListedCounted'
    BY <1>2, <1>t, <2>1 DEF TypeOK, Claim, AttemptsCounted, history, At
  <2>4. HeldCounted' /\ DeadCounted'
    BY <1>2, <1>t, <2>1 DEF TypeOK, Claim, AttemptsCounted, history
  <2> QED BY <2>2, <2>3, <2>4 DEF AttemptsCounted
<1>3. ASSUME NEW c \in Consumer, DropBare(c) PROVE AttemptsCounted'
  BY <1>3, <1>t DEF TypeOK, DropBare, AttemptsCounted, history
<1>4. ASSUME NEW c \in Consumer, WriteLease(c) PROVE AttemptsCounted'
  <2>1. \A j \in Job : delivered'[j] >= delivered[j] /\ delivered'[j] \in Nat
    BY <1>4, <1>t DEF TypeOK, WriteLease
  <2>2. hand[c].attempt <= delivered'[hand[c].job]
    BY <1>4, <1>t DEF TypeOK, WriteLease, AttemptsCounted
  <2>3. PendingCounted' /\ DeadCounted'
    BY <1>4, <1>t, <2>1 DEF TypeOK, WriteLease, AttemptsCounted
  <2>4. ListedCounted'
    <3> SUFFICES ASSUME NEW d \in Consumer, NEW e \in processing'[d]
                 PROVE  e.attempt <= delivered'[e.job] + (IF e.lease = "none" THEN 1 ELSE 0)
      OBVIOUS
    <3>1. e \in processing[d] \/ (e.job = hand[c].job /\ e.attempt = hand[c].attempt)
      BY <1>4 DEF TypeOK, WriteLease, At
    <3>2. ASSUME e \in processing[d]
          PROVE  e.attempt <= delivered[e.job] + (IF e.lease = "none" THEN 1 ELSE 0)
      BY <3>2 DEF AttemptsCounted
    <3>3. hand[c].attempt \in Nat /\ delivered'[hand[c].job] \in Nat
      BY <1>4, <1>t, <2>1 DEF WriteLease
    <3> QED BY <3>1, <3>2, <3>3, <2>1, <2>2, <1>t
  <2>5. HeldCounted'
    BY <1>4, <1>t, <2>1, <2>2 DEF TypeOK, WriteLease, AttemptsCounted
  <2> QED BY <2>3, <2>4, <2>5 DEF AttemptsCounted
<1>5. ASSUME NEW c \in Consumer, Complete(c) PROVE AttemptsCounted'
  BY <1>5, <1>t DEF TypeOK, Complete, Unlist, AttemptsCounted
<1>6. ASSUME NEW c \in Consumer, CompleteUnanswered(c) PROVE AttemptsCounted'
  <2>1. ListedCounted'
    BY <1>6, <1>t DEF TypeOK, CompleteUnanswered, Unlist, AttemptsCounted
  <2>2. PendingCounted' /\ HeldCounted' /\ DeadCounted'
    BY <1>6, <1>t DEF TypeOK, CompleteUnanswered, AttemptsCounted
  <2> QED BY <2>1, <2>2 DEF AttemptsCounted
<1>7. ASSUME NEW c \in Consumer, NEW r \in BOOLEAN, FailDrop(c, r) PROVE AttemptsCounted'
  <2>1. ListedCounted' /\ PendingCounted'
    BY <1>7, <1>t DEF TypeOK, FailDrop, Unlist, AttemptsCounted, history
  <2>2. /\ Fate(hand[c], r) \in {"requeue", "exhausted", "not_retryable"}
        /\ Fate(hand[c], r) = "exhausted" => hand[c].attempt >= MaxRetries
    BY <1>7, <1>t DEF TypeOK, FailDrop, Fate
  <2>3. HeldCounted' /\ DeadCounted'
    BY <1>7, <1>t, <2>2 DEF TypeOK, FailDrop, AttemptsCounted, history
  <2> QED BY <2>1, <2>3 DEF AttemptsCounted
<1>8. ASSUME NEW c \in Consumer, FailRequeue(c) PROVE AttemptsCounted'
  <2>1. hand[c] \in Entry /\ hand[c].attempt <= delivered[hand[c].job]
    <3>1. Holds(c) /\ pc[c] \notin {"claimed", "unlisted"}
      BY <1>8 DEF FailRequeue
    <3> QED BY <3>1, <1>a, <1>e DEF AttemptsCounted
  <2>r. /\ Retried(hand[c]) \in Entry
        /\ Retried(hand[c]).attempt <= delivered[Retried(hand[c]).job] + 1
    BY <2>1, <1>t, RetriedIsEntry DEF Retried, Entry
  <2>2. PendingCounted'
    BY <1>8, <1>t, <2>r, AppendIndexes DEF TypeOK, FailRequeue, AttemptsCounted, history
  <2>3. ListedCounted' /\ HeldCounted' /\ DeadCounted'
    BY <1>8, <1>t DEF TypeOK, FailRequeue, AttemptsCounted, history
  <2> QED BY <2>2, <2>3 DEF AttemptsCounted
<1>9. ASSUME NEW c \in Consumer, FailBury(c) PROVE AttemptsCounted'
  <2>e. /\ hand[c].attempt <= delivered[hand[c].job]
        /\ pc[c] = "exhausted" => hand[c].attempt >= MaxRetries
    <3>1. Holds(c) /\ pc[c] \notin {"claimed", "unlisted"}
      BY <1>9 DEF FailBury
    <3> QED BY <3>1, <1>a, <1>e DEF AttemptsCounted
  <2>1. DeadCounted'
    BY <1>9, <2>e DEF TypeOK, FailBury, AttemptsCounted
  <2>2. PendingCounted' /\ ListedCounted' /\ HeldCounted'
    BY <1>9, <1>t DEF TypeOK, FailBury, AttemptsCounted
  <2> QED BY <2>1, <2>2 DEF AttemptsCounted
<1>10. ASSUME NEW c \in Consumer, NEW d \in Consumer, ReapRead(c, d) PROVE AttemptsCounted'
  BY <1>10, <1>t DEF TypeOK, ReapRead, AttemptsCounted, lists, history
<1>11. ASSUME NEW c \in Consumer, ReapDrop(c) PROVE AttemptsCounted'
  BY <1>11, <1>t DEF TypeOK, ReapDrop, AttemptsCounted, history
<1>12. ASSUME NEW c \in Consumer, ReapRequeue(c) PROVE AttemptsCounted'
  <2>1. hand[c] \in Entry /\ hand[c].attempt <= delivered[hand[c].job]
    <3>1. Holds(c) /\ pc[c] \notin {"claimed", "unlisted"}
      BY <1>12 DEF ReapRequeue
    <3> QED BY <3>1, <1>a, <1>e DEF AttemptsCounted
  <2>r. /\ Retried(hand[c]) \in Entry
        /\ Retried(hand[c]).attempt <= delivered[Retried(hand[c]).job] + 1
    BY <2>1, <1>t, RetriedIsEntry DEF Retried, Entry
  <2>2. PendingCounted'
    BY <1>12, <1>t, <2>r, AppendIndexes DEF TypeOK, ReapRequeue, AttemptsCounted, history
  <2>3. ListedCounted' /\ HeldCounted' /\ DeadCounted'
    BY <1>12, <1>t DEF TypeOK, ReapRequeue, AttemptsCounted, history
  <2> QED BY <2>2, <2>3 DEF AttemptsCounted
<1>13. ASSUME NEW c \in Consumer, ExpireLease(c) PROVE AttemptsCounted'
  <2>1. ListedCounted'
    BY <1>13, <1>t DEF TypeOK, ExpireLease, AttemptsCounted, At
  <2>2. PendingCounted' /\ HeldCounted' /\ DeadCounted'
    BY <1>13, <1>t DEF TypeOK, ExpireLease, AttemptsCounted, clients
  <2> QED BY <2>1, <2>2 DEF AttemptsCounted
<1>14. ASSUME NEW c \in Consumer, Stop(c) PROVE AttemptsCounted'
  BY <1>14, <1>t DEF TypeOK, Stop, AttemptsCounted, lists, history
<1>15. ASSUME NEW c \in Consumer, Crash(c) PROVE AttemptsCounted'
  BY <1>15, <1>t DEF TypeOK, Crash, AttemptsCounted, lists, history
<1>16. CASE UNCHANGED qvars
  BY <1>16 DEF AttemptsCounted, qvars, lists, clients, history
<1> QED
  BY <1>1, <1>2, <1>3, <1>4, <1>5, <1>6, <1>7, <1>8, <1>9, <1>10, <1>11, <1>12,
     <1>13, <1>14, <1>15, <1>16 DEF QNext, Work

\* Attempt numbers never run ahead of the deliveries they count (queue.py:159,
\* 180, 206), whatever processes die, reap or are slow.
THEOREM AttemptsAreCounted == QSpec => []AttemptsCounted
<1>1. QInit => AttemptsCounted
  BY DEF QInit, AttemptsCounted, PendingCounted, ListedCounted, HeldCounted,
         DeadCounted, Holds, Down
<1> QED
  BY <1>1, AttemptsStep, QueueTypes, PTL DEF QSpec

\* No retryable job is dead-lettered as exhausted before workers received it
\* MaxRetries times (queue.py:159-170).
THEOREM RetryBudget == QSpec => []RetryBudgetHonoured
<1>1. TypeOK /\ AttemptsCounted => RetryBudgetHonoured
  BY QueueAssumption
     DEF TypeOK, AttemptsCounted, DeadCounted, RetryBudgetHonoured, DeadLetter
<1> QED
  BY <1>1, QueueTypes, AttemptsAreCounted, PTL

-----------------------------------------------------------------------------
(* Work in flight *)

LEMMA InFlightStep ==
  ASSUME TypeOK, InFlightIsRecoverable, [QNext]_qvars
  PROVE  InFlightIsRecoverable'
<1>1. ASSUME NEW j \in Job, Enqueue(j) PROVE InFlightIsRecoverable'
  BY <1>1 DEF TypeOK, InFlightIsRecoverable, At, Up, Down, Enqueue, clients
<1>2. ASSUME NEW c \in Consumer, Claim(c) PROVE InFlightIsRecoverable'
  BY <1>2 DEF TypeOK, InFlightIsRecoverable, At, Up, Down, Claim, history
<1>3. ASSUME NEW c \in Consumer, DropBare(c) PROVE InFlightIsRecoverable'
  BY <1>3 DEF TypeOK, InFlightIsRecoverable, At, Up, Down, DropBare, history
<1>4. ASSUME NEW c \in Consumer, WriteLease(c) PROVE InFlightIsRecoverable'
  BY <1>4 DEF TypeOK, InFlightIsRecoverable, At, Up, Down, WriteLease
<1>5. ASSUME NEW c \in Consumer, Complete(c) PROVE InFlightIsRecoverable'
  BY <1>5 DEF TypeOK, InFlightIsRecoverable, At, Up, Down, Complete, Unlist
<1>6. ASSUME NEW c \in Consumer, CompleteUnanswered(c) PROVE InFlightIsRecoverable'
  BY <1>6 DEF TypeOK, InFlightIsRecoverable, At, Up, Down, CompleteUnanswered, Unlist
<1>7. ASSUME NEW c \in Consumer, NEW r \in BOOLEAN, FailDrop(c, r) PROVE InFlightIsRecoverable'
  BY <1>7 DEF TypeOK, InFlightIsRecoverable, At, Up, Down, FailDrop, Unlist, Fate, history
<1>8. ASSUME NEW c \in Consumer, FailRequeue(c) PROVE InFlightIsRecoverable'
  BY <1>8 DEF TypeOK, InFlightIsRecoverable, At, Up, Down, FailRequeue, history
<1>9. ASSUME NEW c \in Consumer, FailBury(c) PROVE InFlightIsRecoverable'
  BY <1>9 DEF TypeOK, InFlightIsRecoverable, At, Up, Down, FailBury
<1>10. ASSUME NEW c \in Consumer, NEW d \in Consumer, ReapRead(c, d) PROVE InFlightIsRecoverable'
  BY <1>10 DEF TypeOK, InFlightIsRecoverable, At, Up, Down, ReapRead, lists, history
<1>11. ASSUME NEW c \in Consumer, ReapDrop(c) PROVE InFlightIsRecoverable'
  BY <1>11 DEF TypeOK, InFlightIsRecoverable, At, Up, Down, ReapDrop, history
<1>12. ASSUME NEW c \in Consumer, ReapRequeue(c) PROVE InFlightIsRecoverable'
  BY <1>12 DEF TypeOK, InFlightIsRecoverable, At, Up, Down, ReapRequeue, history
<1>13. ASSUME NEW c \in Consumer, ExpireLease(c) PROVE InFlightIsRecoverable'
  BY <1>13 DEF TypeOK, InFlightIsRecoverable, At, Up, Down, ExpireLease, clients
<1>14. ASSUME NEW c \in Consumer, Stop(c) PROVE InFlightIsRecoverable'
  BY <1>14 DEF TypeOK, InFlightIsRecoverable, At, Up, Down, Stop, lists, history
<1>15. ASSUME NEW c \in Consumer, Crash(c) PROVE InFlightIsRecoverable'
  BY <1>15 DEF TypeOK, InFlightIsRecoverable, At, Up, Down, Crash, lists, history
<1>16. CASE UNCHANGED qvars
  BY <1>16 DEF TypeOK, InFlightIsRecoverable, At, Up, Down, qvars, lists, clients, history
<1> QED
  BY <1>1, <1>2, <1>3, <1>4, <1>5, <1>6, <1>7, <1>8, <1>9, <1>10, <1>11, <1>12,
     <1>13, <1>14, <1>15, <1>16 DEF QNext, Work

\* Whatever the reapers do, a job in work stays listed with a live lease under
\* its worker until the worker settles it, as long as none outlived its lease
\* (queue.py:133-135, 204-205).
THEOREM InFlightRecoverable == QSpec => []InFlightIsRecoverable
<1>1. QInit => InFlightIsRecoverable
  BY DEF QInit, InFlightIsRecoverable
<1> QED
  BY <1>1, InFlightStep, QueueTypes, PTL DEF QSpec

LEMMA ReapsStep ==
  ASSUME TypeOK, ReapsOnlyTheDead, [QNext]_qvars
  PROVE  ReapsOnlyTheDead'
<1>1. ASSUME NEW j \in Job, Enqueue(j) PROVE ReapsOnlyTheDead'
  BY <1>1 DEF TypeOK, ReapsOnlyTheDead, At, Up, Down, Enqueue, clients
<1>2. ASSUME NEW c \in Consumer, Claim(c) PROVE ReapsOnlyTheDead'
  BY <1>2 DEF TypeOK, ReapsOnlyTheDead, At, Up, Down, Claim, history
<1>3. ASSUME NEW c \in Consumer, DropBare(c) PROVE ReapsOnlyTheDead'
  BY <1>3 DEF TypeOK, ReapsOnlyTheDead, At, Up, Down, DropBare, history
<1>4. ASSUME NEW c \in Consumer, WriteLease(c) PROVE ReapsOnlyTheDead'
  BY <1>4 DEF TypeOK, ReapsOnlyTheDead, At, Up, Down, WriteLease
<1>5. ASSUME NEW c \in Consumer, Complete(c) PROVE ReapsOnlyTheDead'
  BY <1>5 DEF TypeOK, ReapsOnlyTheDead, At, Up, Down, Complete, Unlist
<1>6. ASSUME NEW c \in Consumer, CompleteUnanswered(c) PROVE ReapsOnlyTheDead'
  BY <1>6 DEF TypeOK, ReapsOnlyTheDead, At, Up, Down, CompleteUnanswered, Unlist
<1>7. ASSUME NEW c \in Consumer, NEW r \in BOOLEAN, FailDrop(c, r) PROVE ReapsOnlyTheDead'
  BY <1>7 DEF TypeOK, ReapsOnlyTheDead, At, Up, Down, FailDrop, Unlist, Fate, history
<1>8. ASSUME NEW c \in Consumer, FailRequeue(c) PROVE ReapsOnlyTheDead'
  BY <1>8 DEF TypeOK, ReapsOnlyTheDead, At, Up, Down, FailRequeue, history
<1>9. ASSUME NEW c \in Consumer, FailBury(c) PROVE ReapsOnlyTheDead'
  BY <1>9 DEF TypeOK, ReapsOnlyTheDead, At, Up, Down, FailBury
<1>10. ASSUME NEW c \in Consumer, NEW d \in Consumer, ReapRead(c, d) PROVE ReapsOnlyTheDead'
  BY <1>10 DEF TypeOK, ReapsOnlyTheDead, At, Up, Down, ReapRead, lists, history
<1>11. ASSUME NEW c \in Consumer, ReapDrop(c) PROVE ReapsOnlyTheDead'
  BY <1>11 DEF TypeOK, ReapsOnlyTheDead, At, Up, Down, ReapDrop, history
<1>12. ASSUME NEW c \in Consumer, ReapRequeue(c) PROVE ReapsOnlyTheDead'
  BY <1>12 DEF TypeOK, ReapsOnlyTheDead, At, Up, Down, ReapRequeue, history
<1>13. ASSUME NEW c \in Consumer, ExpireLease(c) PROVE ReapsOnlyTheDead'
  BY <1>13 DEF TypeOK, ReapsOnlyTheDead, At, Up, Down, ExpireLease, clients
<1>14. ASSUME NEW c \in Consumer, Stop(c) PROVE ReapsOnlyTheDead'
  BY <1>14 DEF TypeOK, ReapsOnlyTheDead, At, Up, Down, Stop, lists, history
<1>15. ASSUME NEW c \in Consumer, Crash(c) PROVE ReapsOnlyTheDead'
  BY <1>15 DEF TypeOK, ReapsOnlyTheDead, At, Up, Down, Crash, lists, history
<1>16. CASE UNCHANGED qvars
  BY <1>16 DEF TypeOK, ReapsOnlyTheDead, At, Up, Down, qvars, lists, clients, history
<1> QED
  BY <1>1, <1>2, <1>3, <1>4, <1>5, <1>6, <1>7, <1>8, <1>9, <1>10, <1>11, <1>12,
     <1>13, <1>14, <1>15, <1>16 DEF QNext, Work

\* No process reaps the list of a live one while no job outlived its lease
\* (queue.py:92-94, 204).
THEOREM ReapsDeadOnly == QSpec => []ReapsOnlyTheDead
<1>1. QInit => ReapsOnlyTheDead
  BY DEF QInit, ReapsOnlyTheDead
<1> QED
  BY <1>1, ReapsStep, QueueTypes, PTL DEF QSpec

OneListed == OneInFlight /\ ListsMatchHands

LEMMA OneListedStep ==
  ASSUME TypeOK, OneListed, [QNext]_qvars
  PROVE  OneListed'
<1>1. ASSUME NEW j \in Job, Enqueue(j) PROVE OneListed'
  BY <1>1 DEF TypeOK, OneListed, OneInFlight, ListsMatchHands, At, Up, Down, Enqueue, clients
<1>2. ASSUME NEW c \in Consumer, Claim(c) PROVE OneListed'
  BY <1>2 DEF TypeOK, OneListed, OneInFlight, ListsMatchHands, At, Up, Down, Claim, history
<1>3. ASSUME NEW c \in Consumer, DropBare(c) PROVE OneListed'
  BY <1>3 DEF TypeOK, OneListed, OneInFlight, ListsMatchHands, At, Up, Down, DropBare, history
<1>4. ASSUME NEW c \in Consumer, WriteLease(c) PROVE OneListed'
  BY <1>4 DEF TypeOK, OneListed, OneInFlight, ListsMatchHands, At, Up, Down, WriteLease
<1>5. ASSUME NEW c \in Consumer, Complete(c) PROVE OneListed'
  BY <1>5 DEF TypeOK, OneListed, OneInFlight, ListsMatchHands, At, Up, Down, Complete, Unlist
<1>6. ASSUME NEW c \in Consumer, CompleteUnanswered(c) PROVE OneListed'
  BY <1>6 DEF TypeOK, OneListed, OneInFlight, ListsMatchHands, At, Up, Down, CompleteUnanswered, Unlist
<1>7. ASSUME NEW c \in Consumer, NEW r \in BOOLEAN, FailDrop(c, r) PROVE OneListed'
  BY <1>7 DEF TypeOK, OneListed, OneInFlight, ListsMatchHands, At, Up, Down, FailDrop, Unlist, Fate, history
<1>8. ASSUME NEW c \in Consumer, FailRequeue(c) PROVE OneListed'
  BY <1>8 DEF TypeOK, OneListed, OneInFlight, ListsMatchHands, At, Up, Down, FailRequeue, history
<1>9. ASSUME NEW c \in Consumer, FailBury(c) PROVE OneListed'
  BY <1>9 DEF TypeOK, OneListed, OneInFlight, ListsMatchHands, At, Up, Down, FailBury
<1>10. ASSUME NEW c \in Consumer, NEW d \in Consumer, ReapRead(c, d) PROVE OneListed'
  BY <1>10 DEF TypeOK, OneListed, OneInFlight, ListsMatchHands, At, Up, Down, ReapRead, lists, history
<1>11. ASSUME NEW c \in Consumer, ReapDrop(c) PROVE OneListed'
  BY <1>11 DEF TypeOK, OneListed, OneInFlight, ListsMatchHands, At, Up, Down, ReapDrop, history
<1>12. ASSUME NEW c \in Consumer, ReapRequeue(c) PROVE OneListed'
  BY <1>12 DEF TypeOK, OneListed, OneInFlight, ListsMatchHands, At, Up, Down, ReapRequeue, history
<1>13. ASSUME NEW c \in Consumer, ExpireLease(c) PROVE OneListed'
  BY <1>13 DEF TypeOK, OneListed, OneInFlight, ListsMatchHands, At, Up, Down, ExpireLease, clients
<1>14. ASSUME NEW c \in Consumer, Stop(c) PROVE OneListed'
  BY <1>14 DEF TypeOK, OneListed, OneInFlight, ListsMatchHands, At, Up, Down, Stop, lists, history
<1>15. ASSUME NEW c \in Consumer, Crash(c) PROVE OneListed'
  BY <1>15 DEF TypeOK, OneListed, OneInFlight, ListsMatchHands, At, Up, Down, Crash, lists, history
<1>16. CASE UNCHANGED qvars
  BY <1>16 DEF TypeOK, OneListed, OneInFlight, ListsMatchHands, At, Up, Down, qvars, lists, clients, history
<1> QED
  BY <1>1, <1>2, <1>3, <1>4, <1>5, <1>6, <1>7, <1>8, <1>9, <1>10, <1>11, <1>12,
     <1>13, <1>14, <1>15, <1>16 DEF QNext, Work

\* A processing list never accumulates entries, whatever replies are lost and
\* whoever reaps (queue.py:134, 142, 157).
THEOREM OneEntryPerList == QSpec => []OneInFlight
<1>1. QInit => OneListed
  BY DEF QInit, OneListed, OneInFlight, ListsMatchHands
<1>2. OneListed => OneInFlight
  BY DEF OneListed
<1> QED
  BY <1>1, <1>2, OneListedStep, QueueTypes, PTL DEF QSpec

-----------------------------------------------------------------------------
(* The promise of the queue *)

\* The producer's enqueue() is the only source of jobs.
OnlySubmitted == Owed \cup settled \subseteq submitted

\* A step about job k leaves every other job where it was.
OthersPending(k) == \A j \in Job \ {k} : InPending(j)' <=> InPending(j)
OthersListed(k) == \A j \in Job \ {k} : InProcessing(j)' <=> InProcessing(j)
OthersHeld(k) == \A j \in Job \ {k} : /\ InHand(j)' <=> InHand(j)
                                      /\ InTransit(j)' <=> InTransit(j)

\* How the promise sees a step of the queue about job k, or about none.
Moves(k) ==
  /\ k \in Owed \/ k = None
  /\ OthersPending(k) /\ OthersListed(k) /\ OthersHeld(k)
  /\ settled' = settled \/ (k \in Job /\ settled' = settled \cup {k})
  /\ k \in Job /\ k \in settled \cup Anchored => k \in settled' \cup Anchored'
  /\ submitted' = submitted

-----------------------------------------------------------------------------
(* What one command does to the places where a job may be *)

LEMMA AppendPending ==
  ASSUME pending \in Seq(Entry), NEW e \in Entry, pending' = Append(pending, e)
  PROVE  OthersPending(e.job) /\ InPending(e.job)'
<1>1. \A i \in DOMAIN pending : i \in DOMAIN pending' /\ pending'[i] = pending[i]
  OBVIOUS
<1>2. \E i \in DOMAIN pending' : pending'[i] = e
  <2>1. Len(pending) + 1 \in DOMAIN pending' /\ pending'[Len(pending) + 1] = e
    OBVIOUS
  <2> QED BY <2>1
<1>3. \A i \in DOMAIN pending' : pending'[i] = e \/ (i \in DOMAIN pending /\ pending'[i] = pending[i])
  BY AppendIndexes
<1> QED BY <1>1, <1>2, <1>3 DEF OthersPending, InPending

LEMMA TailPending ==
  ASSUME pending \in Seq(Entry), pending # <<>>, pending' = Tail(pending)
  PROVE  OthersPending(Head(pending).job) /\ InPending(Head(pending).job)
<1>1. 1 \in DOMAIN pending /\ pending[1] = Head(pending)
  BY TailIndexes
<1>2. \A i \in DOMAIN pending' : i + 1 \in DOMAIN pending /\ pending'[i] = pending[i + 1]
  BY TailIndexes
<1>3. \A i \in DOMAIN pending : i = 1 \/ (i - 1 \in DOMAIN pending' /\ pending'[i - 1] = pending[i])
  BY TailIndexes
<1> QED BY <1>1, <1>2, <1>3 DEF OthersPending, InPending

LEMMA ListGrows ==
  ASSUME processing \in [Consumer -> SUBSET Listed], NEW c \in Consumer, NEW x,
         processing' = [processing EXCEPT ![c] = @ \cup {x}]
  PROVE  OthersListed(x.job) /\ InProcessing(x.job)'
BY DEF OthersListed, InProcessing

LEMMA ListShrinks ==
  ASSUME processing \in [Consumer -> SUBSET Listed], NEW c \in Consumer, NEW k, NEW X,
         processing' = [processing EXCEPT ![c] = @ \ X], \A x \in X : x.job = k
  PROVE  OthersListed(k)
BY DEF OthersListed, InProcessing

LEMMA ListRewritten ==
  ASSUME processing \in [Consumer -> SUBSET Listed], NEW c \in Consumer, NEW x, NEW y,
         processing' = [processing EXCEPT ![c] = (@ \ {x}) \cup {y}], x.job = y.job
  PROVE  OthersListed(x.job) /\ InProcessing(x.job)'
BY DEF OthersListed, InProcessing

LEMMA UnlistTouches ==
  ASSUME processing \in [Consumer -> SUBSET Listed], NEW c \in Consumer, NEW k,
         hand[c].job = k, Unlist(c)
  PROVE  OthersListed(k)
<1>1. PICK X : X = {At(hand[c], l) : l \in {"live", "expired"}}
  OBVIOUS
<1>2. \A x \in X : x.job = k
  BY <1>1 DEF At
<1> QED BY <1>1, <1>2, ListShrinks DEF Unlist

LEMMA HandTouched ==
  ASSUME NEW c \in Consumer, NEW k,
         \A d \in Consumer \ {c} : pc'[d] = pc[d] /\ hand'[d] = hand[d],
         Holds(c) => hand[c].job = k,
         Holds(c)' => hand'[c].job = k
  PROVE  OthersHeld(k)
BY DEF OthersHeld, InHand, InTransit, Holds, BetweenCommands, Down

-----------------------------------------------------------------------------
(* Every command moves at most one job *)

LEMMA CommandMoves ==
  ASSUME TypeOK, ~CrashGaps, NEW c \in Consumer,
         Work(c) \/ ExpireLease(c) \/ Stop(c) \/ Crash(c)
  PROVE  \E k \in Job \cup {None} : Moves(k)
<1> USE QueueAssumption
<1>x. PICK x, h : x = hand[c] /\ h = x.job
  OBVIOUS
<1>h. Holds(c) => x \in Entry /\ h \in Job /\ h \in Owed
  BY <1>x DEF TypeOK, Entry, Owed, InHand
<1>l. \A l : At(x, l).job = h
  BY <1>x DEF At
<1>t. /\ pending \in Seq(Entry)
      /\ processing \in [Consumer -> SUBSET Listed]
      /\ pc \in [Consumer -> PC]
      /\ hand \in [Consumer -> Entry \cup {NoEntry}]
      /\ settled \subseteq Job
  BY DEF TypeOK
<1>1. ASSUME Claim(c) PROVE \E k \in Job : Moves(k)
  <2>0. PICK e, k : e = Head(pending) /\ k = e.job
    OBVIOUS
  <2>h. e \in Entry
    BY <1>1, <1>t, <2>0, HeadTailProperties DEF Claim
  <2>1. k \in Job /\ At(e, "none").job = k
    BY <2>0, <2>h DEF Entry, At
  <2>2. OthersPending(k) /\ k \in Owed
    BY <1>1, <1>t, <2>0, <2>1, TailPending DEF Claim, Owed
  <2>3. OthersListed(k) /\ InProcessing(k)'
    BY <1>1, <1>t, <2>0, <2>1, ListGrows DEF Claim
  <2>4. OthersHeld(k)
    BY <1>1, <1>t, <2>0, HandTouched DEF Claim, Holds
  <2>5. k \in Anchored'
    BY <2>1, <2>3 DEF Anchored
  <2> QED BY <1>1, <2>1, <2>2, <2>3, <2>4, <2>5 DEF Moves, Claim, history
<1>2. ASSUME DropBare(c) PROVE h \in Job /\ Moves(h)
  <2>1. h \in Job /\ h \in Owed
    BY <1>2, <1>h DEF DropBare, Holds, Down
  <2>2. OthersPending(h)
    BY <1>2 DEF DropBare, OthersPending, InPending
  <2>3. OthersListed(h)
    <3>1. \A y \in {At(x, "none")} : y.job = h
      BY <1>l
    <3> QED BY <1>2, <1>t, <1>x, <3>1, ListShrinks DEF DropBare
  <2>4. OthersHeld(h)
    BY <1>2, <1>t, <1>x, HandTouched DEF DropBare
  <2>5. h \in Anchored'
    BY <1>2, <1>t, <1>x, <2>1 DEF DropBare, Anchored, InTransit, BetweenCommands
  <2> QED BY <1>2, <2>1, <2>2, <2>3, <2>4, <2>5 DEF Moves, DropBare, history
<1>3. ASSUME WriteLease(c) PROVE h \in Job /\ Moves(h)
  <2>1. h \in Job /\ h \in Owed
    BY <1>3, <1>h DEF WriteLease, Holds, Down
  <2>2. OthersPending(h)
    BY <1>3 DEF WriteLease, OthersPending, InPending
  <2>3. OthersListed(h) /\ InProcessing(h)'
    BY <1>3, <1>t, <1>x, <1>l, ListGrows DEF WriteLease
  <2>4. OthersHeld(h)
    BY <1>3, <1>t, <1>x, HandTouched DEF WriteLease
  <2>5. h \in Anchored'
    BY <2>1, <2>3 DEF Anchored
  <2> QED BY <1>3, <2>1, <2>2, <2>3, <2>4, <2>5 DEF Moves, WriteLease
<1>4. ASSUME Complete(c) PROVE h \in Job /\ Moves(h)
  <2>1. h \in Job /\ h \in Owed
    BY <1>4, <1>h DEF Complete, Holds, Down
  <2>2. OthersPending(h)
    BY <1>4 DEF Complete, OthersPending, InPending
  <2>3. OthersListed(h)
    BY <1>4, <1>t, <1>x, <1>l, UnlistTouches DEF Complete
  <2>4. OthersHeld(h)
    BY <1>4, <1>t, <1>x, HandTouched DEF Complete, Holds
  <2> QED BY <1>4, <1>x, <2>1, <2>2, <2>3, <2>4 DEF Moves, Complete
<1>5. ASSUME CompleteUnanswered(c) PROVE h \in Job /\ Moves(h)
  <2>1. h \in Job /\ h \in Owed
    BY <1>5, <1>h DEF CompleteUnanswered, Holds, Down
  <2>2. OthersPending(h)
    BY <1>5 DEF CompleteUnanswered, OthersPending, InPending
  <2>3. OthersListed(h)
    <3>1. CASE UNCHANGED processing
      BY <3>1 DEF OthersListed, InProcessing
    <3>2. CASE Unlist(c)
      BY <3>2, <1>t, <1>x, <1>l, UnlistTouches
    <3> QED BY <1>5, <3>1, <3>2 DEF CompleteUnanswered
  <2>4. OthersHeld(h)
    BY <1>5, <1>t, <1>x, HandTouched DEF CompleteUnanswered
  <2>5. h \in settled \cup Anchored => h \in settled' \cup Anchored'
    <3>1. CASE UNCHANGED <<processing, settled>>
      <4>1. InTransit(h) => InTransit(h)'
        BY <1>5, <1>t DEF CompleteUnanswered, InTransit, BetweenCommands
      <4> QED BY <1>5, <3>1, <4>1 DEF CompleteUnanswered, Anchored, InPending, InProcessing
    <3>2. CASE settled' = settled \cup {h}
      BY <3>2
    <3> QED BY <1>5, <1>x, <3>1, <3>2 DEF CompleteUnanswered
  <2> QED BY <1>5, <1>x, <2>1, <2>2, <2>3, <2>4, <2>5 DEF Moves, CompleteUnanswered
<1>6. ASSUME NEW r \in BOOLEAN, FailDrop(c, r) PROVE h \in Job /\ Moves(h)
  <2>1. h \in Job /\ h \in Owed
    BY <1>6, <1>h DEF FailDrop, Holds, Down
  <2>2. OthersPending(h)
    BY <1>6 DEF FailDrop, OthersPending, InPending
  <2>3. OthersListed(h)
    BY <1>6, <1>t, <1>x, <1>l, UnlistTouches DEF FailDrop
  <2>4. OthersHeld(h)
    BY <1>6, <1>t, <1>x, HandTouched DEF FailDrop
  <2>5. h \in Anchored'
    BY <1>6, <1>t, <1>x, <2>1 DEF FailDrop, Fate, Anchored, InTransit, BetweenCommands
  <2> QED BY <1>6, <2>1, <2>2, <2>3, <2>4, <2>5 DEF Moves, FailDrop, history
<1>7. ASSUME FailRequeue(c) PROVE h \in Job /\ Moves(h)
  <2>1. x \in Entry /\ h \in Job /\ h \in Owed
    BY <1>7, <1>h DEF FailRequeue, Holds, Down
  <2>2. Retried(x) \in Entry /\ Retried(x).job = h
    BY <1>x, <2>1, RetriedIsEntry DEF Retried
  <2>3. OthersPending(h) /\ InPending(h)'
    BY <1>7, <1>t, <1>x, <2>2, AppendPending DEF FailRequeue
  <2>4. OthersListed(h)
    BY <1>7 DEF FailRequeue, OthersListed, InProcessing
  <2>5. OthersHeld(h)
    BY <1>7, <1>t, <1>x, HandTouched DEF FailRequeue, Holds
  <2> QED BY <1>7, <2>1, <2>3, <2>4, <2>5 DEF Moves, FailRequeue, history, Anchored
<1>8. ASSUME FailBury(c) PROVE h \in Job /\ Moves(h)
  <2>1. h \in Job /\ h \in Owed
    BY <1>8, <1>h DEF FailBury, Holds, Down
  <2>2. OthersPending(h) /\ OthersListed(h)
    BY <1>8 DEF FailBury, OthersPending, InPending, OthersListed, InProcessing
  <2>3. OthersHeld(h)
    BY <1>8, <1>t, <1>x, HandTouched DEF FailBury, Holds
  <2> QED BY <1>8, <1>x, <2>1, <2>2, <2>3 DEF Moves, FailBury
<1>9. ASSUME NEW d \in Consumer, ReapRead(c, d) PROVE \E k \in Job : Moves(k)
  <2>1. PICK e \in processing[d] :
          hand' = [hand EXCEPT ![c] = [job |-> e.job, attempt |-> e.attempt]]
    BY <1>9 DEF ReapRead
  <2>2. e.job \in Job /\ e.job \in Owed /\ InProcessing(e.job)
    BY <1>t DEF Listed, Owed, InProcessing
  <2>3. OthersPending(e.job) /\ OthersListed(e.job)
    BY <1>9 DEF ReapRead, lists, OthersPending, InPending, OthersListed, InProcessing
  <2>4. OthersHeld(e.job)
    BY <1>9, <1>t, <2>1, HandTouched DEF ReapRead, Holds
  <2>5. e.job \in Anchored'
    BY <1>9, <2>2 DEF ReapRead, lists, Anchored, InProcessing
  <2> QED BY <1>9, <2>2, <2>3, <2>4, <2>5 DEF Moves, ReapRead, history
<1>10. ASSUME ReapDrop(c) PROVE h \in Job /\ Moves(h)
  <2>1. h \in Job /\ h \in Owed /\ source[c] \in Consumer
    BY <1>10, <1>h DEF ReapDrop, Holds, Down, TypeOK
  <2>2. OthersPending(h)
    BY <1>10 DEF ReapDrop, OthersPending, InPending
  <2>3. OthersListed(h)
    <3>1. \A y \in {At(x, "expired")} : y.job = h
      BY <1>l
    <3>2. PICK d \in Consumer : d = source[c]
      BY <2>1
    <3> QED BY <1>10, <1>t, <1>x, <3>1, <3>2, ListShrinks DEF ReapDrop
  <2>4. OthersHeld(h)
    BY <1>10, <1>t, <1>x, HandTouched DEF ReapDrop
  <2>5. h \in Anchored'
    BY <1>10, <1>t, <1>x, <2>1 DEF ReapDrop, Anchored, InTransit, BetweenCommands
  <2> QED BY <1>10, <2>1, <2>2, <2>3, <2>4, <2>5 DEF Moves, ReapDrop, history
<1>11. ASSUME ReapRequeue(c) PROVE h \in Job /\ Moves(h)
  <2>1. x \in Entry /\ h \in Job /\ h \in Owed
    BY <1>11, <1>h DEF ReapRequeue, Holds, Down
  <2>2. Retried(x) \in Entry /\ Retried(x).job = h
    BY <1>x, <2>1, RetriedIsEntry DEF Retried
  <2>3. OthersPending(h) /\ InPending(h)'
    BY <1>11, <1>t, <1>x, <2>2, AppendPending DEF ReapRequeue
  <2>4. OthersListed(h)
    BY <1>11 DEF ReapRequeue, OthersListed, InProcessing
  <2>5. OthersHeld(h)
    BY <1>11, <1>t, <1>x, HandTouched DEF ReapRequeue, Holds
  <2> QED BY <1>11, <2>1, <2>3, <2>4, <2>5 DEF Moves, ReapRequeue, history, Anchored
<1>12. ASSUME ExpireLease(c) PROVE \E k \in Job : Moves(k)
  <2>1. PICK e \in processing[c] :
          processing' = [processing EXCEPT ![c] = (@ \ {e}) \cup {At(e, "expired")}]
    BY <1>12 DEF ExpireLease
  <2>2. e.job \in Job /\ e.job \in Owed
    BY <1>t DEF Listed, Owed, InProcessing
  <2>3. OthersPending(e.job) /\ OthersHeld(e.job)
    BY <1>12 DEF ExpireLease, clients, OthersPending, InPending, OthersHeld, InHand,
                 InTransit, Holds
  <2>4. OthersListed(e.job) /\ InProcessing(e.job)'
    <3>1. At(e, "expired").job = e.job
      BY DEF At
    <3> QED BY <1>t, <2>1, <3>1, ListRewritten
  <2>5. e.job \in Anchored'
    BY <2>2, <2>4 DEF Anchored
  <2> QED BY <1>12, <2>2, <2>3, <2>4, <2>5 DEF Moves, ExpireLease
<1>13. ASSUME Stop(c) PROVE Moves(None)
  <2>1. OthersPending(None) /\ OthersListed(None)
    BY <1>13 DEF Stop, lists, OthersPending, InPending, OthersListed, InProcessing
  <2>2. OthersHeld(None)
    BY <1>13, <1>t, HandTouched DEF Stop, Holds, Down
  <2> QED BY <1>13, <2>1, <2>2 DEF Moves, Stop, history
<1>14. ASSUME Crash(c) PROVE \E k \in Job \cup {None} : Moves(k)
  <2>0. PICK k : k = IF Holds(c) THEN h ELSE None
    OBVIOUS
  <2>1. k \in Job \cup {None} /\ (k \in Owed \/ k = None)
    BY <1>h, <2>0
  <2>2. OthersPending(k) /\ OthersListed(k)
    BY <1>14 DEF Crash, lists, OthersPending, InPending, OthersListed, InProcessing
  <2>3. OthersHeld(k)
    <3>1. ~Holds(c)'
      BY <1>14, <1>t DEF Crash, Holds, Down
    <3>2. \A d \in Consumer \ {c} : pc'[d] = pc[d] /\ hand'[d] = hand[d]
      BY <1>14, <1>t DEF Crash
    <3> QED BY <1>x, <2>0, <3>1, <3>2, HandTouched
  <2>4. \A j \in Job : j \in Anchored => j \in Anchored'
    <3>1. \A j \in Job : InTransit(j) => InTransit(j)'
      BY <1>14, <1>t DEF Crash, InTransit
    <3> QED BY <1>14, <3>1 DEF Crash, lists, Anchored, InPending, InProcessing
  <2>5. UNCHANGED <<settled, submitted>>
    BY <1>14 DEF Crash, history
  <2>6. Moves(k)
    BY <2>1, <2>2, <2>3, <2>4, <2>5 DEF Moves
  <2> QED BY <2>1, <2>6
<1> QED
  BY <1>1, <1>2, <1>3, <1>4, <1>5, <1>6, <1>7, <1>8, <1>9, <1>10, <1>11, <1>12,
     <1>13, <1>14 DEF Work

-----------------------------------------------------------------------------
(* The invariant and the refinement *)

LEMMA AnchoredIsOwed == Anchored \subseteq Owed
BY DEF Anchored, Owed, InTransit, InHand, Holds, Down, BetweenCommands

LEMMA MovesOne ==
  ASSUME NEW k, Moves(k)
  PROVE  \A j \in Job \ {k} : /\ j \in Owed' <=> j \in Owed
                              /\ j \in Anchored' <=> j \in Anchored
BY DEF Moves, OthersPending, OthersListed, OthersHeld, Owed, Anchored

Books == OnlySubmitted /\ (submitted \subseteq settled \cup Anchored)

LEMMA SubmitStep ==
  ASSUME TypeOK, Books, NEW j \in Job, Enqueue(j)
  PROVE  Books' /\ Promise!Submit(j)
<1>1. PICK e \in Entry : e.job = j /\ pending' = Append(pending, e)
  BY QueueAssumption DEF Enqueue, Entry
<1>2. OthersPending(j) /\ InPending(j)'
  BY <1>1, AppendPending DEF TypeOK
<1>3. OthersListed(j) /\ OthersHeld(j)
  BY DEF Enqueue, clients, OthersListed, InProcessing, OthersHeld, InHand, InTransit, Holds
<1>4. \A i \in Job \ {j} : /\ i \in Owed' <=> i \in Owed
                           /\ i \in Anchored' <=> i \in Anchored
  BY <1>2, <1>3 DEF OthersPending, OthersListed, OthersHeld, Owed, Anchored
<1>5. j \in Owed' /\ j \in Anchored' /\ j \notin Owed \cup settled
  BY <1>2 DEF Owed, Anchored, Books, OnlySubmitted, Enqueue
<1>6. Owed \subseteq Job /\ Owed' \subseteq Job /\ Anchored \subseteq Job
  BY DEF Owed, Anchored
<1>7. Owed' = Owed \cup {j}
  BY <1>4, <1>5, <1>6
<1>8. submitted' = submitted \cup {j} /\ settled' = settled
  BY DEF Enqueue
<1>9. Books'
  BY <1>4, <1>5, <1>6, <1>7, <1>8 DEF Books, OnlySubmitted, TypeOK
<1> QED BY <1>5, <1>7, <1>8, <1>9 DEF Promise!Submit

LEMMA MoveStep ==
  ASSUME TypeOK, Books, NEW k \in Job \cup {None}, Moves(k)
  PROVE  Books' /\ [Promise!Next]_(Promise!vars)
<1>1. \A j \in Job \ {k} : /\ j \in Owed' <=> j \in Owed
                           /\ j \in Anchored' <=> j \in Anchored
  BY MovesOne
<1>2. /\ Owed \subseteq Job /\ Owed' \subseteq Job /\ Anchored \subseteq Owed
      /\ Anchored' \subseteq Owed' /\ settled \subseteq Job
  <2>1. Anchored' \subseteq Owed'
    BY DEF Anchored, Owed, InTransit, InHand, Holds, Down, BetweenCommands
  <2> QED BY <2>1, AnchoredIsOwed DEF Owed, TypeOK
<1>3. CASE k = None
  <2>1. k \notin Job
    BY <1>3, QueueAssumption
  <2>2. Owed' = Owed /\ settled' = settled
    BY <1>1, <1>2, <2>1 DEF Moves
  <2>3. Anchored \subseteq Anchored'
    BY <1>1, <1>2, <2>1
  <2> QED BY <2>2, <2>3 DEF Books, OnlySubmitted, Moves, Promise!vars
<1>4. CASE k \in Job /\ k \in Owed
  <2>1. Owed' = Owed \/ Owed' = Owed \ {k}
    BY <1>1, <1>2, <1>4
  <2>2. k \in settled \cup Anchored
    BY <1>4 DEF Books, OnlySubmitted
  <2>3. k \in settled' \cup Anchored'
    BY <1>4, <2>2 DEF Moves
  <2>4. Books'
    BY <1>1, <1>2, <1>4, <2>1, <2>3 DEF Books, OnlySubmitted, Moves
  <2>5. CASE settled' = settled \cup {k}
    BY <1>4, <2>1, <2>4, <2>5 DEF Promise!Next, Promise!Settle
  <2>6. CASE settled' = settled /\ Owed' = Owed
    BY <2>4, <2>6 DEF Promise!vars
  <2>7. CASE settled' = settled /\ k \notin Owed'
    <3>1. k \in settled
      BY <1>2, <2>3, <2>7
    <3>2. Promise!Forget(k)
      BY <1>4, <2>1, <2>7, <3>1 DEF Promise!Forget
    <3> QED BY <1>4, <2>4, <3>2 DEF Promise!Next
  <2> QED BY <1>4, <2>1, <2>5, <2>6, <2>7 DEF Moves
<1> QED BY <1>3, <1>4 DEF Moves

LEMMA BooksStep ==
  ASSUME TypeOK, ~CrashGaps, Books, [QNext]_qvars
  PROVE  Books' /\ [Promise!Next]_(Promise!vars)
<1>1. ASSUME NEW j \in Job, Enqueue(j) PROVE Books' /\ [Promise!Next]_(Promise!vars)
  BY <1>1, SubmitStep DEF Promise!Next
<1>2. ASSUME NEW c \in Consumer, Work(c) \/ ExpireLease(c) \/ Stop(c) \/ Crash(c)
      PROVE  Books' /\ [Promise!Next]_(Promise!vars)
  BY <1>2, CommandMoves, MoveStep
<1>3. CASE UNCHANGED qvars
  BY <1>3 DEF qvars, lists, clients, history, Books, OnlySubmitted, Owed, Anchored, InPending,
              InProcessing, InHand, InTransit, Holds, Promise!vars
<1> QED BY <1>1, <1>2, <1>3 DEF QNext

LEMMA BooksInit == QInit => Books /\ Promise!Init
BY DEF QInit, Books, OnlySubmitted, Owed, InPending, InProcessing, InHand, Holds, Promise!Init

\* The death of a worker or of a reaper loses no job: what is not settled is
\* listed, or about to be listed by a process that will not die before it is
\* (queue.py:7-11, 188-211).
THEOREM NothingUnanchored == QSpec => []UnsettledIsAnchored
<1>1. CASE CrashGaps
  <2>1. UnsettledIsAnchored
    BY <1>1 DEF UnsettledIsAnchored
  <2> QED BY <2>1, PTL
<1>2. CASE ~CrashGaps
  <2>1. TypeOK /\ Books /\ [QNext]_qvars => Books'
    BY <1>2, BooksStep
  <2>2. Books => UnsettledIsAnchored
    BY DEF Books, UnsettledIsAnchored
  <2> QED BY <2>1, <2>2, BooksInit, QueueTypes, PTL DEF QSpec
<1> QED BY <1>1, <1>2

\* The lists, leases and reapers implement at-least-once delivery
\* (queue.py:1-11) as long as no process dies between two commands of a method.
THEOREM QueueKeepsPromise ==
  ASSUME ~CrashGaps
  PROVE  QSpec => ImplementsAtLeastOnce
<1>1. TypeOK /\ Books /\ [QNext]_qvars => Books' /\ [Promise!Next]_(Promise!vars)
  BY BooksStep
<1> QED BY <1>1, BooksInit, QueueTypes, PTL DEF QSpec, ImplementsAtLeastOnce, Promise!Spec

-----------------------------------------------------------------------------
(* The worker loop *)

LEMMA WorkerStepIsQueueStep ==
  ASSUME [WorkerNext]_allvars
  PROVE  [QNext]_qvars
<1>1. ASSUME NEW j \in Job, Submit(j) \/ Commit(j) \/ LockEnds(j) PROVE [QNext]_qvars
  BY <1>1 DEF Submit, Commit, LockEnds, QNext
<1>2. ASSUME NEW c \in Consumer, Reserve(c) \/ Reap(c) PROVE [QNext]_qvars
  BY <1>2 DEF Reserve, Reap, QNext, Work
<1>3. ASSUME NEW c \in Consumer, SkipDuplicate(c) \/ Ack(c) \/ AckUnanswered(c) PROVE [QNext]_qvars
  BY <1>3 DEF SkipDuplicate, Ack, AckUnanswered, QNext, Work
<1>4. ASSUME NEW c \in Consumer, Fail(c) \/ Settle(c) PROVE [QNext]_qvars
  BY <1>4 DEF Fail, Settle, QNext, Work
<1>5. ASSUME NEW c \in Consumer,
             \/ Acquire(c) \/ AlreadyProcessing(c)
             \/ MissingRecord(c) \/ StartRun(c) \/ FinishRun(c)
             \/ (\E r \in BOOLEAN : Raise(c, r)) \/ Release(c)
      PROVE  UNCHANGED qvars
  BY <1>5 DEF Acquire, AlreadyProcessing, MissingRecord, StartRun, FinishRun, Raise, Release
<1>6. ASSUME NEW c \in Consumer, LeaseEnds(c) \/ Shutdown(c) \/ Die(c) PROVE [QNext]_qvars
  BY <1>6 DEF LeaseEnds, Shutdown, Die, QNext
<1>7. CASE UNCHANGED allvars
  BY <1>7 DEF allvars
<1> QED
  BY <1>1, <1>2, <1>3, <1>4, <1>5, <1>6, <1>7 DEF WorkerNext, WorkerStep

\* run_worker() drives the queue only through enqueue, reserve, complete, fail
\* and reap_expired, in an order they allow (worker.py:109-158), so everything
\* proved of the queue holds of the workers.
THEOREM WorkerUsesQueue == WorkerSpec => UsesQueueProperly
<1>1. WorkerInit => QInit
  BY DEF WorkerInit
<1> QED
  BY <1>1, WorkerStepIsQueueStep, PTL DEF WorkerSpec, QSpec, UsesQueueProperly

-----------------------------------------------------------------------------
(* The lock *)

\* Types of the worker's own variables, and: the loop is left exactly when the
\* process is down.
LoopTypes ==
  /\ phase \in [Consumer -> Phase]
  /\ vid \in [Consumer -> Job \cup {None}]
  /\ \A c \in Consumer : phase[c] \in Guarded => vid[c] \in Job
  /\ lock \in [Job -> Consumer \cup {None}]
  /\ ver \in [Job -> {"QUEUED", "RUNNING"} \cup Finished]
  /\ stored \subseteq Job
  /\ missed \in [Job -> SUBSET Cause]
  /\ \A c \in Consumer : phase[c] = "down" <=> ~Up(c)

LockInv == LoopTypes /\ LockGuardsRun

LEMMA LockStep ==
  ASSUME TypeOK, LockInv, [WorkerNext]_allvars
  PROVE  LockInv'
<1> USE QueueAssumption DEF LoopTypes, Phase, Guarded, InPipeline, Up, Down, Finished, Goto, rows
<1>1. ASSUME NEW c \in Consumer, Reserve(c) PROVE LockInv'
  BY <1>1 DEF TypeOK, LockInv, LockGuardsRun, Reserve, Claim, DropBare, WriteLease, wvars, history
<1>2. ASSUME NEW c \in Consumer, Reap(c) PROVE LockInv'
  <2>1. /\ UNCHANGED <<slow, phase, vid, lock, rows, missed>>
        /\ \E p \in {"reaping", "reaped", "idle"} : pc' = [pc EXCEPT ![c] = p]
        /\ pc[c] \in {"reaping", "reaped", "idle"}
    BY <1>2 DEF Reap, ReapRead, ReapDrop, ReapRequeue, wvars, history
  <2> QED BY <2>1 DEF TypeOK, LockInv, LockGuardsRun
<1>3. ASSUME NEW c \in Consumer, Acquire(c) PROVE LockInv'
  BY <1>3 DEF TypeOK, LockInv, LockGuardsRun, Acquire, qvars, clients, history, Holds, Entry
<1>4. ASSUME NEW c \in Consumer, AlreadyProcessing(c) PROVE LockInv'
  BY <1>4 DEF TypeOK, LockInv, LockGuardsRun, AlreadyProcessing, Unattended, Cause, qvars, clients, history
<1>5. ASSUME NEW c \in Consumer, SkipDuplicate(c) PROVE LockInv'
  BY <1>5 DEF TypeOK, LockInv, LockGuardsRun, SkipDuplicate, Complete
<1>6. ASSUME NEW c \in Consumer, StartRun(c) PROVE LockInv'
  <2>1. /\ phase[c] = "locked" /\ phase' = [phase EXCEPT ![c] = "running"]
        /\ UNCHANGED <<pc, slow, vid, lock, stored, missed>>
    BY <1>6 DEF StartRun, qvars, clients, history
  <2>2. ver' \in [Job -> {"QUEUED", "RUNNING"} \cup Finished]
    BY <1>6 DEF LockInv, StartRun
  <2> QED BY <2>1, <2>2 DEF TypeOK, LockInv, LockGuardsRun
<1>7. ASSUME NEW c \in Consumer, FinishRun(c) PROVE LockInv'
  BY <1>7 DEF TypeOK, LockInv, LockGuardsRun, FinishRun, qvars, clients, history
<1>8. ASSUME NEW c \in Consumer, NEW r \in BOOLEAN, Raise(c, r) PROVE LockInv'
  BY <1>8 DEF TypeOK, LockInv, LockGuardsRun, Raise, qvars, clients, history
<1>9. ASSUME NEW c \in Consumer, Ack(c) PROVE LockInv'
  BY <1>9 DEF TypeOK, LockInv, LockGuardsRun, Ack, Complete
<1>10. ASSUME NEW c \in Consumer, AckUnanswered(c) PROVE LockInv'
  BY <1>10 DEF TypeOK, LockInv, LockGuardsRun, AckUnanswered, CompleteUnanswered
<1>11. ASSUME NEW c \in Consumer, Fail(c) PROVE LockInv'
  BY <1>11 DEF TypeOK, LockInv, LockGuardsRun, Fail, FailDrop, Fate, history
<1>12. ASSUME NEW c \in Consumer, Settle(c) PROVE LockInv'
  BY <1>12 DEF TypeOK, LockInv, LockGuardsRun, Settle, FailRequeue, FailBury, history
<1>13. ASSUME NEW c \in Consumer, Release(c) PROVE LockInv'
  BY <1>13 DEF TypeOK, LockInv, LockGuardsRun, Release, qvars, clients, history
<1>14. ASSUME NEW c \in Consumer, LeaseEnds(c) PROVE LockInv'
  BY <1>14 DEF TypeOK, LockInv, LockGuardsRun, LeaseEnds, ExpireLease, wvars, clients
<1>15. ASSUME NEW c \in Consumer, Shutdown(c) PROVE LockInv'
  BY <1>15 DEF TypeOK, LockInv, LockGuardsRun, Shutdown, Stop, history
<1>16. ASSUME NEW c \in Consumer, Die(c) PROVE LockInv'
  BY <1>16 DEF TypeOK, LockInv, LockGuardsRun, Die, Crash, history
<1>17. ASSUME NEW j \in Job, Submit(j) PROVE LockInv'
  BY <1>17 DEF TypeOK, LockInv, LockGuardsRun, Submit, Enqueue, wvars, clients
<1>18. ASSUME NEW j \in Job, LockEnds(j) PROVE LockInv'
  BY <1>18 DEF TypeOK, LockInv, LockGuardsRun, LockEnds, qvars, clients, history
<1>19. ASSUME NEW c \in Consumer, MissingRecord(c) PROVE LockInv'
  BY <1>19 DEF TypeOK, LockInv, LockGuardsRun, MissingRecord, Cause, qvars, clients, history
<1>20. ASSUME NEW j \in Job, Commit(j) PROVE LockInv'
  BY <1>20 DEF TypeOK, LockInv, LockGuardsRun, Commit, qvars, clients, history
<1>21. CASE UNCHANGED allvars
  BY <1>21 DEF LockInv, LockGuardsRun, allvars, qvars, clients, history, wvars
<1> QED
  BY <1>1, <1>2, <1>3, <1>4, <1>5, <1>6, <1>7, <1>8, <1>9, <1>10,
     <1>11, <1>12, <1>13, <1>14, <1>15, <1>16, <1>17, <1>18, <1>19, <1>20,
     <1>21 DEF WorkerNext, WorkerStep

LEMMA LockInvariant == WorkerSpec => [](TypeOK /\ LockInv)
<1>1. WorkerInit => LockInv
  BY DEF WorkerInit, QInit, LockInv, LoopTypes, LockGuardsRun, Phase, Guarded, Up, Down
<1> QED
  BY <1>1, LockStep, WorkerUsesQueue, QueueTypes, PTL DEF WorkerSpec, UsesQueueProperly

\* A worker inside the guarded section owns the lock, so the DEL of its finally
\* clause deletes its own lock (worker.py:127-157, queue.py:241-246).
THEOREM LockProtects == WorkerSpec => []LockGuardsRun
BY LockInvariant, PTL DEF LockInv

\* The worker's data stay well typed.
THEOREM WorkerTypes == WorkerSpec => []WorkerTypeOK
<1>1. TypeOK /\ LockInv => WorkerTypeOK
  BY DEF LockInv, LoopTypes, WorkerTypeOK
<1> QED BY <1>1, LockInvariant, PTL

\* No two workers run the pipeline for one verification at a time while no job
\* has outlived its lease (queue.py:229-234), for any number of workers.
THEOREM ExclusiveRuns == WorkerSpec => []NoOverlap
<1>1. LockInv => NoOverlap
  BY DEF LockInv, LockGuardsRun, NoOverlap, Guarded, InPipeline
<1> QED BY <1>1, LockInvariant, PTL

\* The workers, too, lose no job as long as none dies between two commands of a
\* method of the queue.
THEOREM WorkersKeepPromise ==
  ASSUME ~CrashGaps
  PROVE  WorkerSpec => ImplementsAtLeastOnce
BY WorkerUsesQueue, QueueKeepsPromise DEF UsesQueueProperly
=============================================================================
