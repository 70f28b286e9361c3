------------------------------ MODULE JobQueue ------------------------------
(***************************************************************************)
(* The Redis job queue of workers/queue.py, one action per Redis command.  *)
(* Redis runs each command atomically; everything between two commands of  *)
(* one Python method interleaves with the commands of other processes, and *)
(* a process may die there.                                                *)
(*                                                                         *)
(*   pending      the list queue:<name>:pending; LPUSH appends here at the *)
(*                end and RPOP takes the head, so the order is FIFO        *)
(*   processing   one list per consumer id; a process gets a fresh id when *)
(*                it starts, so a Consumer is one life of one process      *)
(*   dead         the dead-letter list                                     *)
(*   pc, hand     where a process is in reserve / complete / fail /        *)
(*                reap_expired, and the Job object its memory holds        *)
(*   source       the processing list a reaper read its entry from         *)
(*                                                                         *)
(* A lease is the time stamp reserve() writes into the list entry.  Only   *)
(* whether it was written and whether it has passed can be told apart, so  *)
(* it is "none", "live" or "expired", and time passes in ExpireLease.      *)
(***************************************************************************)
EXTENDS Naturals, Sequences, FiniteSets

CONSTANTS
  Job,          \* job ids; one verification is enqueued once, so also its id
  Consumer,     \* process lives
  Mortal,       \* those that may be shut down or die
  None,         \* no job in hand, no list being read
  MaxRetries,   \* settings.job_max_retries
  MaxSlow,      \* how often a job may outlive its lease under a live worker
  CrashGaps     \* TRUE: a process may die between two commands of a method

ASSUME QueueAssumption ==
  /\ MaxRetries \in Nat \ {0}
  /\ MaxSlow \in Nat
  /\ CrashGaps \in BOOLEAN
  /\ None \notin Consumer \cup Job
  /\ Mortal \subseteq Consumer

VARIABLES pending, processing, dead, pc, hand, source,
          slow,        \* leases that expired under a live worker so far
          delivered,   \* history: how often reserve() returned the job
          submitted,   \* history: jobs enqueue() was called for
          settled      \* history: jobs completed or dead-lettered

lists == <<pending, processing, dead>>
clients == <<pc, hand, source>>
history == <<slow, delivered, submitted, settled>>
qvars == <<lists, clients, history>>

Entry == [job : Job, attempt : Nat \ {0}]
Lease == {"none", "live", "expired"}
Listed == [job : Job, attempt : Nat \ {0}, lease : Lease]
DeadLetter == [job : Job, attempt : Nat \ {0}, why : {"exhausted", "not_retryable"}]

\* Control points inside a method.  In the gap states the job is in no list
\* (or in one without a lease) and only the process's memory accounts for it.
BetweenCommands == {"claimed", "unlisted", "requeue", "exhausted", "not_retryable", "reaped"}
PC == BetweenCommands \cup {"idle", "working", "unacked", "reaping", "stopped", "crashed"}

Down == {"stopped", "crashed"}
Up(c) == pc[c] \notin Down

\* c is inside a method or a job, with a Job object in memory.
Holds(c) == pc[c] \notin Down \cup {"idle"}

NoEntry == [job |-> None, attempt |-> 0]
At(e, l) == [job |-> e.job, attempt |-> e.attempt, lease |-> l]
Retried_twice(e) == [job |-> e.job, attempt |-> e.attempt + 2]
Retried(e) == [job |-> e.job, attempt |-> e.attempt + 1]

TypeOK ==
  /\ pending \in Seq(Entry)
  /\ processing \in [Consumer -> SUBSET Listed]
  /\ dead \in SUBSET DeadLetter
  /\ pc \in [Consumer -> PC]
  /\ hand \in [Consumer -> Entry \cup {NoEntry}]
  /\ \A c \in Consumer : Holds(c) => hand[c] \in Entry
  /\ source \in [Consumer -> Consumer \cup {None}]
  /\ \A c \in Consumer : pc[c] = "reaping" => source[c] \in Consumer
  /\ slow \in 0..MaxSlow
  /\ delivered \in [Job -> Nat]
  /\ submitted \in SUBSET Job
  /\ settled \in SUBSET Job

QInit ==
  /\ pending = <<>>
  /\ processing = [c \in Consumer |-> {}]
  /\ dead = {}
  /\ pc = [c \in Consumer |-> "idle"]
  /\ hand = [c \in Consumer |-> NoEntry]
  /\ source = [c \in Consumer |-> None]
  /\ slow = 0
  /\ delivered = [j \in Job |-> 0]
  /\ submitted = {}
  /\ settled = {}

-----------------------------------------------------------------------------
(* enqueue *)

Enqueue(j) ==
  /\ j \notin submitted
  /\ pending' = Append(pending, [job |-> j, attempt |-> 1])
  /\ submitted' = submitted \cup {j}
  /\ UNCHANGED <<processing, dead, clients, slow, delivered, settled>>

-----------------------------------------------------------------------------
(* reserve: BRPOPLPUSH, then LREM of the bare entry, then LPUSH of the     *)
(* entry with its lease.  A timeout with an empty list changes nothing.    *)

Claim(c) ==
  /\ pc[c] = "idle"
  /\ pending # <<>>
  /\ hand' = [hand EXCEPT ![c] = Head(pending)]
  /\ pending' = Tail(pending)
  /\ processing' = [processing EXCEPT ![c] = @ \cup {At(Head(pending), "none")}]
  /\ pc' = [pc EXCEPT ![c] = "claimed"]
  /\ UNCHANGED <<dead, source, history>>

DropBare(c) ==
  /\ pc[c] = "claimed"
  /\ processing' = [processing EXCEPT ![c] = @ \ {At(hand[c], "none")}]
  /\ pc' = [pc EXCEPT ![c] = "unlisted"]
  /\ UNCHANGED <<pending, dead, hand, source, history>>

WriteLease_unstamped(c) ==
  /\ pc[c] = "unlisted"
  /\ processing' = [processing EXCEPT ![c] = @ \cup {At(hand[c], "none")}]
  /\ pc' = [pc EXCEPT ![c] = "working"]
  /\ delivered' = [delivered EXCEPT ![hand[c].job] = @ + 1]
  /\ UNCHANGED <<pending, dead, hand, source, slow, submitted, settled>>

WriteLease(c) ==
  /\ pc[c] = "unlisted"
  /\ processing' = [processing EXCEPT ![c] = @ \cup {At(hand[c], "live")}]
  /\ pc' = [pc EXCEPT ![c] = "working"]
  /\ delivered' = [delivered EXCEPT ![hand[c].job] = @ + 1]
  /\ UNCHANGED <<pending, dead, hand, source, slow, submitted, settled>>

-----------------------------------------------------------------------------
(* complete and fail *)

\* LREM of the entry the worker wrote, whatever became of its lease.
Unlist(c) ==
  processing' = [processing EXCEPT ![c] = @ \ {At(hand[c], l) : l \in {"live", "expired"}}]

Complete(c) ==
  /\ pc[c] = "working"
  /\ Unlist(c)
  /\ pc' = [pc EXCEPT ![c] = "idle"]
  /\ hand' = [hand EXCEPT ![c] = NoEntry]
  /\ settled' = settled \cup {hand[c].job}
  /\ UNCHANGED <<pending, dead, source, slow, delivered, submitted>>

\* The connection breaks during complete(): Redis may or may not have run the
\* LREM, and the exception reaches the worker, which calls fail().
CompleteUnanswered(c) ==
  /\ pc[c] = "working"
  /\ \/ Unlist(c) /\ settled' = settled \cup {hand[c].job}
     \/ UNCHANGED <<processing, settled>>
  /\ pc' = [pc EXCEPT ![c] = "unacked"]
  /\ UNCHANGED <<pending, dead, hand, source, slow, delivered, submitted>>

Fate_early(e, retryable) ==
  IF ~retryable THEN "not_retryable"
  ELSE IF e.attempt + 1 >= MaxRetries THEN "exhausted" ELSE "requeue"

\* The branch fail() takes after its LREM.
Fate(e, retryable) ==
  IF ~retryable THEN "not_retryable"
  ELSE IF e.attempt >= MaxRetries THEN "exhausted" ELSE "requeue"

FailDrop(c, retryable) ==
  /\ pc[c] \in {"working", "unacked"}
  /\ pc[c] = "unacked" => ~retryable
  /\ Unlist(c)
  /\ pc' = [pc EXCEPT ![c] = Fate(hand[c], retryable)]
  /\ UNCHANGED <<pending, dead, hand, source, history>>

FailRequeue_dropped(c) ==
  /\ pc[c] = "requeue"
  /\ pc' = [pc EXCEPT ![c] = "idle"]
  /\ hand' = [hand EXCEPT ![c] = NoEntry]
  /\ UNCHANGED <<pending, processing, dead, source, history>>

FailRequeue(c) ==
  /\ pc[c] = "requeue"
  /\ pending' = Append(pending, Retried(hand[c]))
  /\ pc' = [pc EXCEPT ![c] = "idle"]
  /\ hand' = [hand EXCEPT ![c] = NoEntry]
  /\ UNCHANGED <<processing, dead, source, history>>

FailBury(c) ==
  /\ pc[c] \in {"exhausted", "not_retryable"}
  /\ dead' = dead \cup {[job |-> hand[c].job, attempt |-> hand[c].attempt, why |-> pc[c]]}
  /\ settled' = settled \cup {hand[c].job}
  /\ pc' = [pc EXCEPT ![c] = "idle"]
  /\ hand' = [hand EXCEPT ![c] = NoEntry]
  /\ UNCHANGED <<pending, processing, source, slow, delivered, submitted>>

-----------------------------------------------------------------------------
(* reap_expired: LRANGE of one processing list, then for an expired entry  *)
(* LREM and LPUSH.  The reaper does not look at how many entries its LREM  *)
(* removed, so what it read may be stale by the time it acts on it.        *)

ReapRead_own_list(c, d) ==
  /\ pc[c] = "idle"
  /\ d = c
  /\ \E e \in processing[d] :
        /\ e.lease = "expired"
        /\ hand' = [hand EXCEPT ![c] = [job |-> e.job, attempt |-> e.attempt]]
  /\ source' = [source EXCEPT ![c] = d]
  /\ pc' = [pc EXCEPT ![c] = "reaping"]
  /\ UNCHANGED <<lists, history>>

ReapRead_unexpired(c, d) ==
  /\ pc[c] = "idle"
  /\ \E e \in processing[d] :
        /\ e.lease # "none"
        /\ hand' = [hand EXCEPT ![c] = [job |-> e.job, attempt |-> e.attempt]]
  /\ source' = [source EXCEPT ![c] = d]
  /\ pc' = [pc EXCEPT ![c] = "reaping"]
  /\ UNCHANGED <<lists, history>>

ReapRead(c, d) ==
  /\ pc[c] = "idle"
  /\ \E e \in processing[d] :
        /\ e.lease = "expired"
        /\ hand' = [hand EXCEPT ![c] = [job |-> e.job, attempt |-> e.attempt]]
  /\ source' = [source EXCEPT ![c] = d]
  /\ pc' = [pc EXCEPT ![c] = "reaping"]
  /\ UNCHANGED <<lists, history>>

ReapDrop(c) ==
  /\ pc[c] = "reaping"
  /\ processing' = [processing EXCEPT ![source[c]] = @ \ {At(hand[c], "expired")}]
  /\ pc' = [pc EXCEPT ![c] = "reaped"]
  /\ UNCHANGED <<pending, dead, hand, source, history>>

ReapRequeue(c) ==
  /\ pc[c] = "reaped"
  /\ pending' = Append(pending, Retried(hand[c]))
  /\ pc' = [pc EXCEPT ![c] = "idle"]
  /\ hand' = [hand EXCEPT ![c] = NoEntry]
  /\ source' = [source EXCEPT ![c] = None]
  /\ UNCHANGED <<processing, dead, history>>

-----------------------------------------------------------------------------
(* The environment: time, shutdown, death *)

\* A lease expires.  Under a live process only MaxSlow times.
ExpireLease(c) ==
  /\ \E e \in processing[c] :
        /\ e.lease = "live"
        /\ processing' = [processing EXCEPT ![c] = (@ \ {e}) \cup {At(e, "expired")}]
  /\ IF Up(c) THEN slow < MaxSlow /\ slow' = slow + 1 ELSE UNCHANGED slow
  /\ UNCHANGED <<pending, dead, clients, delivered, submitted, settled>>

\* SIGTERM: the loop leaves between two jobs.
Stop(c) ==
  /\ pc[c] = "idle"
  /\ c \in Mortal
  /\ pc' = [pc EXCEPT ![c] = "stopped"]
  /\ UNCHANGED <<lists, hand, source, history>>

\* SIGKILL, OOM, power, or a Redis error that leaves the loop.
Crash(c) ==
  /\ Up(c)
  /\ c \in Mortal
  /\ pc[c] \in BetweenCommands => CrashGaps
  /\ pc' = [pc EXCEPT ![c] = "crashed"]
  /\ hand' = [hand EXCEPT ![c] = NoEntry]
  /\ source' = [source EXCEPT ![c] = None]
  /\ UNCHANGED <<lists, history>>

Work(c) ==
  \/ Claim(c) \/ DropBare(c) \/ WriteLease(c)
  \/ Complete(c) \/ CompleteUnanswered(c)
  \/ \E r \in BOOLEAN : FailDrop(c, r)
  \/ FailRequeue(c) \/ FailBury(c)
  \/ \E d \in Consumer : ReapRead(c, d)
  \/ ReapDrop(c) \/ ReapRequeue(c)

QNext ==
  \/ \E j \in Job : Enqueue(j)
  \/ \E c \in Consumer : Work(c) \/ ExpireLease(c) \/ Stop(c) \/ Crash(c)

QSpec == QInit /\ [][QNext]_qvars

\* A process that is up goes on; a loop that keeps turning reaps once a minute
\* (worker.py:114), hence strong fairness for it; time passes.
QFairness ==
  \A c \in Consumer :
    /\ WF_qvars(Work(c))
    /\ SF_qvars(\E d \in Consumer : ReapRead(c, d))
    /\ WF_qvars(~Up(c) /\ ExpireLease(c))

FairQSpec == QSpec /\ QFairness

-----------------------------------------------------------------------------
(* Safety *)

PendingCounted ==
  \A i \in DOMAIN pending : pending[i].attempt <= delivered[pending[i].job] + 1

ListedCounted ==
  \A c \in Consumer : \A e \in processing[c] :
    e.attempt <= delivered[e.job] + (IF e.lease = "none" THEN 1 ELSE 0)

HeldCounted ==
  \A c \in Consumer : Holds(c) =>
    hand[c].attempt <= delivered[hand[c].job]
                         + (IF pc[c] \in {"claimed", "unlisted"} THEN 1 ELSE 0)

DeadCounted ==
  /\ \A c \in Consumer : pc[c] = "exhausted" => hand[c].attempt >= MaxRetries
  /\ \A d \in dead : /\ d.attempt <= delivered[d.job]
                     /\ d.why = "exhausted" => d.attempt >= MaxRetries

\* An entry's attempt number never runs ahead of the deliveries it stands for:
\* fail and reap_expired each count one attempt per hand-out, also when two
\* reapers requeue the same entry or a slow worker outlives its lease
\* (queue.py:159, 180, 206).
AttemptsCounted == PendingCounted /\ ListedCounted /\ HeldCounted /\ DeadCounted

\* A retryable job is given up as exhausted only after workers really received
\* it MaxRetries times: lost replies, stale reaps and duplicate requeues never
\* eat into its budget (queue.py:159; docs/VERIFICATION_PIPELINE.md:63-66).
RetryBudgetHonoured ==
  \A d \in dead : d.why = "exhausted" => delivered[d.job] >= MaxRetries

\* While no job has outlived its lease, a worker's job stays listed with its
\* lease under that worker's id until the worker itself settles it, whatever
\* stale entries the reapers remove meanwhile; so if the worker dies, the reaper
\* finds it (queue.py:133-135, 204-205).
InFlightIsRecoverable ==
  slow = 0 =>
    \A c \in Consumer : pc[c] = "working" => At(hand[c], "live") \in processing[c]

\* A processing list never accumulates: whatever was left by lost replies, slow
\* jobs and reapers is gone before its consumer reserves again, so an LRANGE
\* shows a reaper at most one entry (queue.py:134, 142, 157, 197).
OneInFlight == \A c \in Consumer : \A e, f \in processing[c] : e = f

\* What makes OneInFlight inductive: the list of a process that is up holds at
\* most the entry its own memory has written there.
ListsMatchHands ==
  \A c \in Consumer : Up(c) =>
    CASE pc[c] = "claimed" -> processing[c] \subseteq {At(hand[c], "none")}
      [] pc[c] \in {"working", "unacked"} ->
           processing[c] \subseteq {At(hand[c], l) : l \in {"live", "expired"}}
      [] OTHER -> processing[c] = {}

\* While no job has outlived its lease, only dead processes have expired entries,
\* and only their lists are being reaped: "concurrent workers do not reclaim each
\* other's in-flight jobs" (queue.py:92-94, 204).
ReapsOnlyTheDead ==
  slow = 0 =>
    /\ \A c \in Consumer : Up(c) => \A e \in processing[c] : e.lease # "expired"
    /\ \A c \in Consumer : pc[c] = "reaping" => ~Up(source[c])

-----------------------------------------------------------------------------
(* The promise to the producer *)

InPending(j) == \E i \in DOMAIN pending : pending[i].job = j
InProcessing(j) == \E c \in Consumer : \E e \in processing[c] : e.job = j
InHand(j) == \E c \in Consumer : Holds(c) /\ hand[c].job = j
Owed == {j \in Job : InPending(j) \/ InProcessing(j) \/ InHand(j)}

Promise == INSTANCE AtLeastOnce WITH owed <- Owed, settled <- settled

\* The lists implement at-least-once delivery: a job leaves them only after a
\* worker settled it, whatever processes die, reap or outlive their leases, as
\* long as none dies between two commands of one method (queue.py:7-11).
ImplementsAtLeastOnce == Promise!Spec

\* A job is anchored while Redis lists it or a process is between the two
\* commands that move it.  A worker that merely runs the job, or a reaper that
\* merely read its entry, does not count: it may die without a trace.
InTransit(j) == \E c \in Consumer : pc[c] \in BetweenCommands /\ hand[c].job = j
Anchored == {j \in Job : InPending(j) \/ InProcessing(j) \/ InTransit(j)}

\* As long as no process dies between two commands of one method, a job that is
\* not settled is anchored, so the death of no worker and no reaper loses it
\* (queue.py:7-11, 188-211).
UnsettledIsAnchored == ~CrashGaps => submitted \subseteq settled \cup Anchored

\* The same promise as the module docstring words it, "a job is never lost if a
\* worker dies mid-flight" (queue.py:8-9).
NeverLost == \A j \in submitted : j \in settled \cup Owed

\* Deliveries are bounded, "bounded retries" (queue.py:4; tests/test_queue.py:69
\* "A poison job must not loop forever").
BoundedRetries == \A j \in Job : delivered[j] <= MaxRetries

\* Every job is settled in the end and leaves all lists, although workers die
\* holding it and reapers race each other (queue.py:188-211).
EventuallySettled ==
  \A j \in Job : (j \in submitted) ~> (j \in settled /\ j \notin Owed)

\* "Without this, a crashed worker's jobs would sit in its processing list
\* forever" (queue.py:191-192): with the reaper they do not.
ReaperEmptiesDeadLists ==
  \A c \in Consumer : ~Up(c) ~> (processing[c] = {})
=============================================================================
