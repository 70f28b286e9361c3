----------------------------- MODULE WorkerLoop -----------------------------
(***************************************************************************)
(* The worker process of workers/worker.py and the IdempotencyGuard of     *)
(* workers/queue.py, composed with the queue.  Each iteration of           *)
(* run_worker() reaps or reserves, takes the Redis lock of the             *)
(* verification, runs the pipeline, settles the job, and deletes the lock. *)
(*                                                                         *)
(*   phase   where run_worker() is outside the queue's methods             *)
(*   vid     its local verification_public_id (a job is enqueued once per  *)
(*           verification, so the job id stands for it)                    *)
(*   lock    the key lock:verification:<id>.  Redis stores "1": the owner  *)
(*           recorded here is a ghost that only the TTL refers to, and     *)
(*           release() deletes the key without looking at it               *)
(*   ver     the Verification.status, committed once j is in stored        *)
(*   stored  the verifications whose rows the API has committed            *)
(*   missed  history: why deliveries of a job were acknowledged unprocessed *)
(*           although no other worker was going to process it              *)
(***************************************************************************)
EXTENDS JobQueue

VARIABLES phase, vid, lock, ver, stored, missed

rows == <<ver, stored>>
wvars == <<phase, vid, lock, rows, missed>>
allvars == <<qvars, wvars>>

\* Phases in which the worker believes it holds the lock.
Guarded == {"locked", "running", "ran", "raised_retry", "raised_final", "failing", "release"}
\* Phases in which process_job() runs.
InPipeline == {"locked", "running"}
Phase == Guarded \cup {"poll", "skip", "down"}
Finished == {"COMPLETED", "FAILED"}

\* The lock was set by a process that is down; its owner had pushed the job back
\* for a retry, or settled it, but not released the lock yet; the record was not
\* there.
Cause == {"owner_is_dead", "owner_is_through", "record_is_missing"}

WorkerTypeOK ==
  /\ TypeOK
  /\ phase \in [Consumer -> Phase]
  /\ vid \in [Consumer -> Job \cup {None}]
  /\ \A c \in Consumer : phase[c] \in Guarded => vid[c] \in Job
  /\ lock \in [Job -> Consumer \cup {None}]
  /\ ver \in [Job -> {"QUEUED", "RUNNING"} \cup Finished]
  /\ stored \subseteq Job
  /\ missed \in [Job -> SUBSET Cause]

WorkerInit ==
  /\ QInit
  /\ phase = [c \in Consumer |-> "poll"]
  /\ vid = [c \in Consumer |-> None]
  /\ lock = [j \in Job |-> None]
  /\ ver = [j \in Job |-> "QUEUED"]
  /\ stored = {}
  /\ missed = [j \in Job |-> {}]

Goto(c, p) == phase' = [phase EXCEPT ![c] = p]

-----------------------------------------------------------------------------
(* The top of the loop: reap_expired() once a minute, then reserve() *)

Reserve(c) ==
  /\ phase[c] = "poll"
  /\ Claim(c) \/ DropBare(c) \/ WriteLease(c)
  /\ UNCHANGED wvars

Reap(c) ==
  /\ phase[c] = "poll"
  /\ (\E d \in Consumer : ReapRead(c, d)) \/ ReapDrop(c) \/ ReapRequeue(c)
  /\ UNCHANGED wvars

-----------------------------------------------------------------------------
(* The guard: SET NX EX.  When it fails the job is acknowledged unprocessed. *)

Acquire_unchecked(c) ==
  /\ phase[c] = "poll"
  /\ pc[c] = "working"
  /\ lock' = [lock EXCEPT ![hand[c].job] = c]
  /\ vid' = [vid EXCEPT ![c] = hand[c].job]
  /\ Goto(c, "locked")
  /\ UNCHANGED <<qvars, rows, missed>>

Acquire(c) ==
  /\ phase[c] = "poll"
  /\ pc[c] = "working"
  /\ lock[hand[c].job] = None
  /\ lock' = [lock EXCEPT ![hand[c].job] = c]
  /\ vid' = [vid EXCEPT ![c] = hand[c].job]
  /\ Goto(c, "locked")
  /\ UNCHANGED <<qvars, rows, missed>>

\* What is wrong with a lock that makes its owner's job a duplicate.
Unattended(owner) ==
  {cause \in {"owner_is_dead"} : ~Up(owner)} \cup {cause \in {"owner_is_through"} : phase[owner] = "release"}

AlreadyProcessing(c) ==
  /\ phase[c] = "poll"
  /\ pc[c] = "working"
  /\ lock[hand[c].job] # None
  /\ missed' = [missed EXCEPT ![hand[c].job] = @ \cup Unattended(lock[hand[c].job])]
  /\ Goto(c, "skip")
  /\ UNCHANGED <<qvars, vid, lock, rows>>

SkipDuplicate_unacked(c) ==
  /\ phase[c] = "skip"
  /\ pc' = [pc EXCEPT ![c] = "idle"]
  /\ hand' = [hand EXCEPT ![c] = NoEntry]
  /\ Goto(c, "poll")
  /\ UNCHANGED <<lists, source, history, vid, lock, rows, missed>>

SkipDuplicate(c) ==
  /\ phase[c] = "skip"
  /\ Complete(c)
  /\ Goto(c, "poll")
  /\ UNCHANGED <<vid, lock, rows, missed>>

-----------------------------------------------------------------------------
(* process_job: the pipeline commits RUNNING with its first stage and a      *)
(* final status at its end; the stages in between are VerificationPipeline's. *)

\* A worker that is faster than the API's commit finds no record, and returns.
MissingRecord(c) ==
  /\ phase[c] = "locked"
  /\ vid[c] \notin stored
  /\ missed' = [missed EXCEPT ![vid[c]] = @ \cup {"record_is_missing"}]
  /\ Goto(c, "ran")
  /\ UNCHANGED <<qvars, vid, lock, rows>>

\* A run with no stage left to do never publishes RUNNING.
StartRun(c) ==
  /\ phase[c] = "locked"
  /\ vid[c] \in stored
  /\ \/ ver' = [ver EXCEPT ![vid[c]] = "RUNNING"]
     \/ ver[vid[c]] = "COMPLETED" /\ UNCHANGED ver
  /\ Goto(c, "running")
  /\ UNCHANGED <<qvars, vid, lock, stored, missed>>

FinishRun(c) ==
  /\ phase[c] = "running"
  /\ \E s \in Finished :
       /\ ver[vid[c]] = "COMPLETED" => s = "COMPLETED"
       /\ ver' = [ver EXCEPT ![vid[c]] = s]
  /\ Goto(c, "ran")
  /\ UNCHANGED <<qvars, vid, lock, stored, missed>>

\* An exception leaves process_job(): the session rolls back what it had not
\* committed, and is_transient_failure() decides about the retry.
Raise(c, retryable) ==
  /\ phase[c] \in InPipeline
  /\ Goto(c, IF retryable THEN "raised_retry" ELSE "raised_final")
  /\ UNCHANGED <<qvars, vid, lock, rows, missed>>

-----------------------------------------------------------------------------
(* Settling the job, and the finally clause *)

Ack(c) ==
  /\ phase[c] = "ran"
  /\ Complete(c)
  /\ Goto(c, "release")
  /\ UNCHANGED <<vid, lock, rows, missed>>

\* redis.ConnectionError is no OSError, so it counts as deterministic.
AckUnanswered(c) ==
  /\ phase[c] = "ran"
  /\ CompleteUnanswered(c)
  /\ Goto(c, "raised_final")
  /\ UNCHANGED <<vid, lock, rows, missed>>

Fail(c) ==
  /\ phase[c] \in {"raised_retry", "raised_final"}
  /\ FailDrop(c, phase[c] = "raised_retry")
  /\ Goto(c, "failing")
  /\ UNCHANGED <<vid, lock, rows, missed>>

Settle(c) ==
  /\ phase[c] = "failing"
  /\ FailRequeue(c) \/ FailBury(c)
  /\ Goto(c, "release")
  /\ UNCHANGED <<vid, lock, rows, missed>>

Release_skipped(c) ==
  /\ phase[c] = "release"
  /\ vid' = [vid EXCEPT ![c] = None]
  /\ Goto(c, "poll")
  /\ UNCHANGED <<qvars, lock, rows, missed>>

Release(c) ==
  /\ phase[c] = "release"
  /\ lock' = [lock EXCEPT ![vid[c]] = None]
  /\ vid' = [vid EXCEPT ![c] = None]
  /\ Goto(c, "poll")
  /\ UNCHANGED <<qvars, rows, missed>>

-----------------------------------------------------------------------------
(* The environment *)

\* A handler enqueues first and commits afterwards, or breaks and never does.
Submit(j) == Enqueue(j) /\ UNCHANGED wvars

Commit(j) ==
  /\ j \in submitted \ stored
  /\ stored' = stored \cup {j}
  /\ UNCHANGED <<qvars, phase, vid, lock, ver, missed>>

LeaseEnds(c) == ExpireLease(c) /\ UNCHANGED wvars

\* The lock's TTL equals the lease and starts after it, so it never ends first;
\* under a live owner it ends only when jobs outlive their leases.
LockEnds_early(j) ==
  /\ lock[j] # None
  /\ lock' = [lock EXCEPT ![j] = None]
  /\ UNCHANGED <<qvars, phase, vid, rows, missed>>

LockEnds(j) ==
  /\ lock[j] # None
  /\ \A e \in processing[lock[j]] : e.job = j => e.lease # "live"
  /\ Up(lock[j]) => slow > 0
  /\ lock' = [lock EXCEPT ![j] = None]
  /\ UNCHANGED <<qvars, phase, vid, rows, missed>>

Shutdown(c) ==
  /\ phase[c] = "poll"
  /\ Stop(c)
  /\ Goto(c, "down")
  /\ UNCHANGED <<vid, lock, rows, missed>>

\* When it is fail() that raises, the finally clause still runs.
Die(c) ==
  /\ Crash(c)
  /\ \/ UNCHANGED lock
     \/ /\ phase[c] \in {"raised_retry", "raised_final", "failing"}
        /\ lock' = [lock EXCEPT ![vid[c]] = None]
  /\ vid' = [vid EXCEPT ![c] = None]
  /\ Goto(c, "down")
  /\ UNCHANGED <<rows, missed>>

WorkerStep(c) ==
  \/ Reserve(c) \/ Reap(c)
  \/ Acquire(c) \/ AlreadyProcessing(c) \/ SkipDuplicate(c)
  \/ MissingRecord(c) \/ StartRun(c) \/ FinishRun(c) \/ \E r \in BOOLEAN : Raise(c, r)
  \/ Ack(c) \/ AckUnanswered(c) \/ Fail(c) \/ Settle(c) \/ Release(c)

WorkerNext ==
  \/ \E j \in Job : Submit(j) \/ Commit(j) \/ LockEnds(j)
  \/ \E c \in Consumer : WorkerStep(c) \/ LeaseEnds(c) \/ Shutdown(c) \/ Die(c)

WorkerSpec == WorkerInit /\ [][WorkerNext]_allvars

\* As in the queue; a lock whose owner is gone is dropped by Redis in time.
WorkerFairness ==
  /\ \A c \in Consumer :
       /\ WF_allvars(WorkerStep(c))
       /\ SF_allvars(Reap(c))
       /\ WF_allvars(~Up(c) /\ LeaseEnds(c))
  /\ \A j \in Job : WF_allvars((lock[j] # None /\ ~Up(lock[j])) /\ LockEnds(j))

FairWorkerSpec == WorkerSpec /\ WorkerFairness

-----------------------------------------------------------------------------
(* Properties *)

\* While no job has outlived its lease, a worker inside the guarded section owns
\* the lock, so its unconditional DEL removes its own lock and nobody else's
\* (queue.py:241-246, worker.py:127-157).
LockGuardsRun ==
  slow = 0 =>
    \A c \in Consumer : phase[c] \in Guarded => lock[vid[c]] = c

\* While no job has outlived its lease, no two workers run the pipeline for one
\* verification, whatever crashes, double reaps and redeliveries there were.
NoOverlap ==
  slow = 0 =>
    \A c, d \in Consumer :
      phase[c] \in InPipeline /\ phase[d] \in InPipeline /\ vid[c] = vid[d] => c = d

\* The worker uses the queue only through its methods, in the order they allow:
\* every queue property carries over.
UsesQueueProperly == QSpec

Resolved(j) == ver[j] \in Finished \/ \E d \in dead : d.job = j

\* However process_job() ends - it returns, raises, is cut off by a death or loses
\* the reply to complete() - and whichever copies of the job are reaped and run:
\* a submitted verification reaches a final status, or its job the dead letters.
\* What the code gives away is named: a delivery that was acknowledged unprocessed
\* for one of the causes, or a job that has outlived its lease (worker.py:109-158,
\* queue.py:188-193).  A death between two commands of the queue is left to the
\* constant CrashGaps, as in the queue.
EventuallyResolved ==
  \A j \in Job : (j \in submitted) ~> (Resolved(j) \/ missed[j] # {} \/ slow > 0)

\* "A crashed worker's job must not be stranded." (backend/tests/test_queue.py:84)
CrashedIsNotStranded ==
  \A j \in Job :
    (j \in submitted) ~> (Resolved(j) \/ missed[j] \ {"owner_is_dead"} # {} \/ slow > 0)

\* fail() makes the retry, and nothing keeps it from being run (queue.py:144-186).
RetryIsRun ==
  \A j \in Job :
    (j \in submitted) ~> (Resolved(j) \/ missed[j] \ {"owner_is_through"} # {} \/ slow > 0)

\* "Nothing to retry: the record is gone." (worker.py:68): what is committed is run.
MissingMeansGone ==
  \A j \in Job :
    (j \in stored) ~> (Resolved(j) \/ missed[j] \ {"record_is_missing"} # {} \/ slow > 0)

\* No verification stays locked for ever, whoever dies holding the lock.
LockIsFreed == \A j \in Job : (lock[j] # None) ~> (lock[j] = None)

\* "Prevents duplicate concurrent processing of the same verification"
\* (queue.py:229), with no condition on how long a job takes.
NeverConcurrent ==
  \A c, d \in Consumer :
    phase[c] \in InPipeline /\ phase[d] \in InPipeline /\ vid[c] = vid[d] => c = d

\* "The pipeline records its own failure state" (worker.py:145): a job that is
\* given up has a verification in a final status.
FailureIsRecorded == \A d \in dead : ver[d.job] \in Finished
=============================================================================
