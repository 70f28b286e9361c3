# ProofSignal in TLA+

ProofSignal checks claims: a client submits a text, a URL, an image or a video;
the API stores it and queues a job; a worker takes the job through twelve
stages; the client polls a status and at the end reads a report. This directory
models the parts of that path where order, concurrency and failure decide
whether the result can be trusted. Source paths below are relative to `src/`,
and `queue.py:134` stands for `backend/app/workers/queue.py:134` and so on.

Contents: [the system](#the-system), [the modules](#the-modules),
[the runs](#the-runs), [fairness](#fairness), [the proofs](#the-proofs),
[where code and documents disagree](#where-code-and-documents-disagree),
[not modelled](#what-is-not-modelled), [the plan](#the-plan).

## The system

| part | state it keeps | operations |
|---|---|---|
| **API intake** (`api/submissions.py`, `services/submission_service.py`, `db/session.py`) | none of its own; writes the object store, the Redis queue and PostgreSQL | one POST handler per kind of submission: rate limit, validate, store bytes, flush rows, enqueue, answer, commit |
| **job queue** (`workers/queue.py`) | Redis lists: `pending`, one `processing` list per consumer, the dead letters | `enqueue`, `reserve`, `complete`, `fail`, `reap_expired` |
| **idempotency guard** (`queue.py:228-246`) | a Redis key per verification with a TTL | `acquire` (SET NX EX), `release` (DEL) |
| **worker** (`workers/worker.py`) | the job in memory, the moment of its last reap | `run_worker`: reap, reserve, guard, `process_job`, settle, release |
| **pipeline** (`verification/pipeline.py`, `stages.py`) | rows of `verifications` and `verification_stages`; an in-memory context per delivery | `run`, twelve stage handlers, `_complete`, `_fail` |
| **evidence store** (`retrieval/pipeline_ops.py`) | `sources`, `retrieved_documents`, shared by all verifications, and `evidence` rows | look up or insert a source and a document, cluster evidence by origin |
| **feed provider** (`retrieval/feeds.py`, `site_search.py`) | a process-wide TTL cache of mutable items | `search` over concurrently fetched feeds and over publishers' sites |
| **safe fetch** (`security/safe_fetch.py`, `url_validation.py`, `retrieval/article.py`) | none | validate the URL, resolve the host, check who answers, read up to a limit, on every redirect hop |
| **passage classification** (`retrieval/evidence.py`) | none | choose passages of an article and label them by overlap, figures and markers; a language model may relabel them |
| **scoring** (`verification/scoring.py`) | none | verdict, confidence and cap from classified evidence |
| **rate limiter** (`services/rate_limit.py`) | a Redis counter per client, operation and window, with a TTL | read the clock, count, admit or refuse with the seconds to wait; fail open |
| **upload validation** (`security/upload_validation.py`) | none | size, signature, declared type, markup, dimensions |
| **report and status API** (`api/verifications.py`) | none | reads committed rows: the verification first, what belongs to it later |
| **web client** (`apps/web/src`) | the page's copy of the report, two cached queries | server part of the page, poll the status, switch to the report |

How they interact. The API talks to the worker through the queue and the
database only, and nothing makes the two writes atomic. Workers meet in Redis
(lists, locks) and in PostgreSQL (rows shared by verifications). A job that is
delivered again meets the stage rows that earlier deliveries committed, but not
their memory. Pollers see what is committed, at any moment.

`docs/ARCHITECTURE.md` draws one worker process and `docs/ROADMAP.md:56` has more of
them for later, but the code is written for several (`queue.py:92-94`, the
guard, the reaper), and a restarted worker already is a second consumer next to
the list its predecessor left. The models have several.

What is hard here, with the lines, is the list `hazards` of `PROJECT.json`. The
main ones are: a process dies between two Redis commands; two reapers or a
reaper and a slow worker act on one entry; a lock and a lease run out at about the
same time; a delivery dies in the middle of the pipeline and another resumes it
with an empty memory; two runs store the same publishers and documents in long
transactions; the API's three writes are cut short, or are overtaken by
a worker; a window ends between two readings of the clock; the items in the feed
cache are written by one search while another still uses them; a name resolves
differently each time it is asked for; a page reads a verification in pieces while
the worker commits.

What makes each part correct:

- queue: no submitted job disappears unsettled; attempts count deliveries and
  nothing else; a job that is given up had its retries; reapers take from the
  dead only; dead workers' lists are emptied; every job is settled in the end.
- worker and guard: one run per verification at a time; a worker deletes its own
  lock only; every verification ends; no lock stays for ever.
- pipeline: finished stages are never repeated; verdict, stage row and claims
  are stored together; a completed verification went through its stages; a
  failed one carries no verdict; degraded results have capped confidence.
- evidence store: runs that do not overlap find each other's rows and never fail over
  them; those that do wait for each other, and still end.
- intake: no record without a job or without its bytes; what was accepted is
  stored.
- limiter: a window admits no more than its budget; a refused client that waits as
  told is in a later window.
- uploads: what is stored passed every check, under the type its bytes show.
- safe fetch: whatever is fetched was allowed on every hop; a host spelled in numbers
  is checked as the address it stands for; the provenance is true; bodies are cut at
  the limit; neither redirects nor an endless body keep a fetch busy for ever.
- feeds: what is read for a claim was most relevant to that claim; no search works
  with answers older than the cache's lifetime.
- page: while deliveries do not overlap, an answer that says COMPLETED is whole and
  progress does not go back; an unfinished report is replaced; the outcome is shown in
  the end.
- classification: repeating a claim is no evidence against it, whatever other
  figures a passage has.
- scoring: copies of a report add no independence; more support never lowers a
  verdict; refuting is no harder than verifying; the weakest important claim decides.

## The modules

| module | models | lines |
|---|---|---|
| `AtLeastOnce` | what the queue promises its producer, without lists or processes | 40, abstract |
| `JobQueue` | `queue.py:65-211`, one action per Redis command | 404 |
| `WorkerLoop` | `worker.py` and the guard, `EXTENDS JobQueue` | 320 |
| `Lifecycle` | what a poller may see of `Verification.status` | 19, abstract |
| `VerificationPipeline` | `pipeline.py` and what each handler of `stages.py` leaves behind; implements `Lifecycle` | 397 |
| `RateLimiter` | `rate_limit.py` for one client | 159 |
| `UploadValidation` | both validators of `upload_validation.py` as operators | 86 |
| `Intake` | the POST handlers with the three stores, the worker's lookup and the poll, `EXTENDS RateLimiter, UploadValidation` | 263 |
| `Classification` | `retrieval/evidence.py` as operators: which passages are evidence, and on which side | 108 |
| `Scoring` | `verification/scoring.py` as operators over integers | 181 |
| `Assessment` | how documents become evidence, evidence signals, claims verdicts: `pipeline_ops.py:147-374`, SCORING; `EXTENDS Classification, Scoring` | 231 |
| `EvidenceStore` | the shared publisher and document rows: `pipeline_ops.py:73-106, 195-339`, sessions, locks, `pipeline.py:206-242` | 246 |
| `FeedCache` | `feeds.py`, `site_search.py`, RETRIEVING_EVIDENCE and the choice of articles to read | 274 |
| `UrlValidation` | `url_validation.py` as operators, and what a resolver makes of a spelling | 136 |
| `SafeFetch` | `safe_fetch.py` and `fetch_article` around it, `EXTENDS UrlValidation` | 316 |
| `VerificationPage` | a visit to a verification's page: `page.tsx`, `verification-page.tsx`, `progress-view.tsx`, and the endpoints of `api/verifications.py`, over `Lifecycle` | 310 |
| `JobQueueProofs` | theorems about the queue, its promise and the worker loop | |
| `IntakeProofs` | theorems about the limiter and the intake | |
| `VerificationPipelineProofs`, `EvidenceStoreProofs`, `ScoringProofs` (of `Scoring`, `Classification` and `Assessment`), `FeedCacheProofs`, `SafeFetchProofs` (and `UrlValidation`), `VerificationPageProofs` | theorems about the module of the name | |
| `MC...` | instances for TLC: symmetry, named sets, two action constraints | |

In the modules an operator `X_something` next to `X` (`ReapRead_own_list`,
`StageDegrades`...) with an underscore is a faulty variant of `X`, a way in which
the code could plausibly be wrong. No specification refers to them; substituting
one for its original must make a property fail (`mutants` in `PROJECT.json`).

### JobQueue

`pending` is a sequence (LPUSH at one end, RPOP at the other), `processing[c]`
the list of consumer `c` as a set of entries, `dead` the dead letters. A
`Consumer` is one *life* of a process, since an id is drawn afresh at every start
(`queue.py:70`); `Mortal` are the lives that may end. `pc[c]` says where in which
method the process is, and `hand[c]` is the `Job` object in its memory.

| code | actions |
|---|---|
| `reserve` BRPOPLPUSH, LREM, LPUSH | `Claim`, `DropBare`, `WriteLease` |
| `complete` LREM | `Complete`; with its reply lost, `CompleteUnanswered` |
| `fail` LREM, then LPUSH of retry or dead letter | `FailDrop`, `FailRequeue`, `FailBury` |
| `reap_expired` LRANGE, LREM, LPUSH | `ReapRead`, `ReapDrop`, `ReapRequeue` |
| SIGTERM, SIGKILL, time | `Stop`, `Crash`, `ExpireLease` |

A lease is `none` (not written yet), `live` or `expired`. `slow` counts the leases
that expired under a process that was up: such a thing is a job that runs longer
than `visibility_timeout`, and many properties are only meant, and only hold, while
it has not happened (`slow = 0`). `CrashGaps` says whether a process may die
between two commands of one method. `delivered`, `submitted`, `settled` are
history. A process that reaps handles one entry per `ReapRead`: the loop over an
LRANGE of several entries would only matter if a list held several, and
the theorem `OneEntryPerList` shows that it never does.

### WorkerLoop

Adds `phase[c]`, `vid[c]`, the `lock` per verification, the verifications whose rows
the API has committed (`stored`, by `Commit`) and their status `ver`. Every action is a
queue action or leaves the queue alone, so the queue's theorems apply
(`WorkerUsesQueue`). The lock's owner is a ghost: Redis stores "1" and `release()` does
not look. A worker that finds the lock set acknowledges the job (`AlreadyProcessing`,
`SkipDuplicate`); one that finds no record returns, and the job is acknowledged too
(`MissingRecord`).

Three interleavings, all of them in every run, make such an acknowledgement wrong: the
lock's owner is dead (the lock was set just after the lease with the same duration, so a
reaper gets in between their ends); its owner has already pushed the job back and not
yet deleted the lock (`fail()` precedes the `finally` clause); the record is not yet
committed (the API enqueues first). `missed[j]` is history and says which of these has
befallen a delivery of `j`. The code then may leave the verification unfinished for ever;
`EventuallyResolved` says that, no job having outlived its lease, nothing else does.

### VerificationPipeline

A `Run` is one delivery of the job with its own session and context. `db` is the
committed verification row and its stage rows, `view[r]` what the session of `r`
believes them to be. The session loads the row once, `expire_on_commit=False`
keeps it, and a flush writes only the columns that changed: `Merge`. Each
handler is the set of results it may return from a context (`Returns`), the causes
for which it may raise (`Raises`), and what it may already have done by then
(`Partly`). The context is reduced to what is empty and what is not. `Abandon` is
the death of the process, or an exception that leaves `run()`.

`Overlap` says whether two deliveries may be active at once. In the regular run they
are not, which is what `NoOverlap` of `WorkerLoop` establishes for jobs that keep
within their lease; the counterexample with overlap is listed below.

### RateLimiter, UploadValidation, Intake

`RateLimiter` has the requests of one client; keys of different clients never meet.
`check()` reads the clock (`ReadClock`), asks Redis for INCR and EXPIRE in one
transaction (`Count`), and reads the clock again to say when to come back (`Judge`).
`Tick` may fall between any two of these, so that a request can be counted after its
window has ended, perhaps under a key whose time is up (`late`). `Unavailable` is the
exception that lets a request through, with the transaction carried out or not. A
limiter that is switched off admits without counting and is left out.

`UploadValidation` says what either validator makes of a file, which is a record of
what its checks can tell: size, signature, declared type, markup, whether it can be
opened, width and height.

`Intake` composes them. Each request is judged by the limiter (`Ask`, `Enforce`),
validated (`Admit`, `Reject`), and goes through its handler; `object`, `record`, `job`
are the three stores. `Break` is an exception, a lost connection or a death at any
point, with the write in progress carried out or not. `where` holds a circumstance
that the code does not settle: whether the framework answers before the session
dependency commits (`answers_first`; releases of FastAPI differ, and `pyproject.toml`
admits both). `AcceptedIsStored` is of the releases that do not. A worker may look for
the record as soon as its job is queued; what becomes of it then is `WorkerLoop`'s.

### Classification, Scoring, Assessment

`Classification` takes from a text what its rules can tell of it: the figures, as
values and how they are written, the share of the claim's words, markers of
denial and confirmation, relevance, and what a language model says of it if one is
there. Everything that follows from these is the code's: which figures are read as
years, which are compared, the rules in their order, the best three passages.

`Scoring` has one operator per function of `scoring.py`. Percentages stand for
numbers with two decimals and millionths for their products, so that weights and
net scores are exact; only the quotients in a confidence are rounded. (The code's
floating-point numbers may differ from them by a rounding error at a threshold.)
The parts that serve the reader of a report only, the breakdowns, are left out.

`Assessment` is a state machine around them: a state is one in which `score_claim`
may be called, a step adds a document (`ReadDocument`) or finishes the claim
(`ScoreClaim`). So a property of two calls of the scorer, with and without a
piece of evidence, is an action property. `Report` is what the content hash
of a document identifies; a copy is a document with the same report. (Its passages
may still differ: a row found by its URL can keep an older text's hash.)

### EvidenceStore

EXTRACTING_EVIDENCE is one transaction of its own session, which holds its locks while
it fetches articles. `todo[r]` is what run `r` has still to store, an item per
article, taken from `Plans`: which articles a search returns, and in which order, is
up to the feeds. `session[r]` follows the life of a change: *pending* in the
session (there is no autoflush, so no query sees it), *sending* once a flush has
begun, then in the transaction as a publisher *born*, a document *added* or a row
*changed*. PostgreSQL is modelled from how the code depends on it: READ COMMITTED, an
insert waits for an uncommitted one with the same unique key and fails if that is
committed, an update waits for the holder of the row, and in a circle of waiting
runs one is refused. A refused statement makes `Session.flush` raise; the handler of
the stage's exception flushes again, which SQLAlchemy refuses until a rollback, and
the exception leaves `run()`: `Escape`. Two rows for one URL make `scalar_one_or_none`
raise with the session intact: `FindTwoDocuments`, and the stage is recorded as failed.
What later happens to an escaped run is `WorkerLoop`'s.

`met` is history: which runs were active at the same time. In the code a run of the
stage has another neighbour for each worker; nothing in it tells more about them.

### FeedCache

The cache hands out the objects that it keeps. A search writes its score into them,
and reading an article replaces the title and the canonical URL of the item it was
found by (`read`), so what a later search finds depends on the claims and verifications
that came before it in the process. `StartSearch`, `FeedAnswers`, `FeedFails` and
`RankFeeds` are `RSSFeedProvider.search` with its concurrent fetches; `SearchSites` is the
other provider, `deduplicate_candidates` and the cut at the minimal score; `ReadArticle`
and `EndClaim` are EXTRACTING_EVIDENCE. What titles and bodies score for a claim is
given by the instance; ties are broken freely. An answer may yield any of the feed's
pages, or none: what does not parse is dropped, and a body that is no feed is cached as
an empty one. Items are known by the feed, search and
time that created them, so that two objects for one page stay two.

### UrlValidation and SafeFetch

Addresses are numbers of four digits in base `Radix` (256 in the code), so that the
spellings of an address in numbers can be checked exhaustively with a small base. A
`Part` of a host says how it is written (decimal, with a leading zero, hexadecimal) and
what its digits amount to. `ParseNumbers` is what the validator makes of a row of parts,
in the order of its tests: a lone number is decimal or hexadecimal, so that one with a
leading zero is read as decimal; a row that begins with `0x` is taken for one hexadecimal
number and is none; the others are packed by the bases of their parts. `Spelled` is what a
resolver (`inet_aton`) makes of the same row. The two differ for the first two of these.

`SafeFetch` is one call of `fetch_article`: per hop validate, resolve and check all
`addresses`, send, check the address that answered, read chunks up to the limit, decide.
`Resolutions` is what a resolver may say of a host: the address that is spelled, or
anything of a name. `_resolve_host` is given the address that the validator read, if it
read one (`FirstResolutions`), but the transport is given the URL as it was, and nothing
uses its `pinned_ip`: it looks the host up once more when it connects, and `peer` is any
address of that second answer. The check of the peer depends on what the response reports
(`reported`): if there is no network stream, or no peer address any more, the response
is used unchecked. Servers redirect, declare and send anything, and may send bytes that
come to nothing (`ReadNothing`): heads that announce another, and raw bytes that decode to
none, as behind the end of a compressed stream. `requests` is history.

### VerificationPage

The worker is `Lifecycle` with the number of stages it has committed and whether
SCORING is among them. Both endpoints read the row of the verification first, and
stages, claims and evidence by later statements: a request keeps what was committed
at its first statement (`first`), and its answer is made of that row and of what else is committed
when it ends. The client is the server part of the page with its two requests, the
polling query, and the report's query, with up to two retries each. A page in the
background does not poll, so the page is in the foreground.

A job that outlives its lease may be delivered while its run goes on (`Overlap`). From
then on each run writes by what its own session and its own `already_done` say:
`Interfere` reopens a finished stage (`pipeline.py:189-197`), finishes one after the end,
extracts the claims again, or replaces one end by another. `overlapped` remembers it.
`ProgressOnlyGrows` and `CompletedAnswerIsWhole` are of verifications to which it has not
happened; the other two properties of the page do not depend on it. Statuses and flags
that change after an end, by a delivery that follows it, are in the model
(`Lifecycle` allows them); no property of the page is about them.

## The runs

| run | instance | shows |
|---|---|---|
| `queue_safety` | 2 jobs, 3 process lives (2 mortal), 2 attempts, 1 slow job, deaths anywhere | attempt counting, the retry budget, recoverability, reaping only the dead |
| `queue_live` | 1 job, 3 lives, 2 attempts, 1 slow job, no deaths between two commands | the lists implement `AtLeastOnce`; every job is settled; dead lists are emptied |
| `worker_safety` | 1 job, 3 lives, 1 slow job, deaths anywhere | the lock protects the run; no two runs overlap |
| `worker_live` | 1 job, 3 lives, no slow job, no deaths between two commands | the queue is used properly; every verification ends, unless a delivery met one of the three interleavings above |
| `pipeline_deliveries` | all 7 shapes of submissions, 3 deliveries | five pipeline properties, among them the refinement of `Lifecycle` |
| `intake_requests` | 2 requests, 5 uploads, windows of 2 seconds, answers before and after the commit | limits, checks and stores, wherever a handler breaks |
| `assessment_claims` | up to 3 documents of 3 reports from 2 publishers with 8 kinds of body, up to 3 of 3 kinds of claims | the five properties from passages to the overall verdict |
| `evidence_store` | 3 runs, 2 publishers, 2 URLs, up to 4 articles in all, 1 worker may die | duplicates and failures come from overlapping runs; every run ends |
| `feed_search` | 2 feeds and a site search, 3 pages, 2 claims, 2 verifications, lifetime 2 | the most relevant articles are read; nothing stale is used |
| `fetch_hops` | 2 redirects, 2 bytes, hosts of one to four numbers, in all bases, over 16 addresses | what is fetched is allowed, the trail is true, numbers are checked as what they stand for, bodies are cut, a fetch ends unless all that comes is nothing |
| `page_visit` | 3 stages, 2 deliveries, one after the other or overlapping, 4 failed requests | the four properties of the page |
| `pipeline_resumed_claims` | 2 deliveries | a violation: the first of the disagreements below |

The modules' type invariants are not among them: all of them are proved. So is
`MinorClaimsDoNotMatter`, which holds in `MCAssessment_claims`; `LockIsFreed` holds in
`MCWorkerLoop_live`. A property or `TypeOK` can be added to these configurations to see it.

**Why these bounds.** Three process lives are the smallest number with a dead
worker and two reapers that race for its list, or with a slow worker, its reaper and
a third that receives the duplicate. Two attempts separate a retry from the end.
One job outliving its lease is enough for one duplicate; that several of them do no
further harm to what is claimed with one is proved, not run (the theorems hold for
every `MaxSlow`). Two jobs matter for the order and for the lists, not for locks,
which are per verification. Three deliveries are one that dies, one that resumes
and one that comes after the end. In the pipeline `Fragile` lists the stages whose
handlers may raise: the four fatal ones and three that are not (in each of these a
different part of the context is lost); a raise in the others has the same effect
as in them. Three origins are what the highest bar asks for, three reports with one
to three passages reach it on one side or split over both, and the two publishers
and five relevances put one, two and three of them on both sides of every weight
that the tables compare with. The bodies hold passages that repeat, deny, dispute,
or do two of these, more of them than are selected, and one with figures that
corroborate and figures that could dispute. The claims are an important one with one figure,
and two in Bangla with two figures, one of them an opinion; documents and claims
together are limited to four, as the claims before the last only matter by their
verdicts (and `WeakestDecides` is proved for any number). Three runs of
EXTRACTING_EVIDENCE are two that store one document twice, or wait for each other,
and one that comes later or waits for either; two publishers and two pages are the
least for a circle, and the five plans hold them in both orders, twice in one run,
and without a publisher. With more articles the plans only repeat themselves; that
`OnlyOverlapHarms` holds for all of them is proved. Two requests compete for a budget
of one, and a window of two seconds has a second that is not its last; in
`intake_requests` the clock runs only while a request is to be judged and only where
requests compete, and none is validated while another is still to be judged
(`Separately`): limiter and handlers share nothing but the verdict, so these
interleavings tell nothing new, and the theorems about limiter and stores do without
the constraint. Two redirects are one that leads on and one too many with three hops; two bytes and
chunks of up to two put the limit inside a chunk, at its end and before its beginning. Two
verifications with two claims each are the least for a claim to meet items that an
earlier claim has scored and an earlier verification has read; a lifetime of two lets
a verification find one feed fresh and the other stale. A page needs two deliveries for a
reopened verification or two overlapping runs, and four errors for one more than a query
retries; overlapping runs are tried where no request fails (`OneTroubleAtATime`, an action
constraint that keeps the two multiplied out of the state space). Symmetry is
used in safety runs only, over jobs, mortal lives, deliveries and reports, none of
which any definition tells apart.

The `live` runs leave out what the code gives no promise about: with a death
between two commands the job may be lost (`NeverLost` below), with a slow job it may be
lost as well (its entry is reaped, the duplicate is acknowledged as "already
processing", and then the slow worker dies).

`CHECK_DEADLOCK FALSE` is everywhere because the systems do stop: all processes
shut down, or all deliveries and requests are over.

## Fairness

- `WF` on a process's own step: a process that is up and not waiting takes its next
  step. This includes a job that runs: stages call out with timeouts on each request.
- `SF` on beginning to reap: `run_worker` reaps every `REAP_INTERVAL` (60 s) at the top of a loop that
  turns whatever else it does (`worker.py:113-118`); since it may always reserve
  instead, weak fairness would let it never reap.
- `WF` on the end of a dead process's lease and lock: time passes. Under a living
  process there is no such assumption.
- No fairness on enqueueing, stopping, dying, or raising. In `queue_live` and
  `worker_live` one life never ends, which stands for an operator who starts a
  worker again after the last one died; with no worker for ever nothing would end.
- EvidenceStore: `WF` on a run's own steps, and the database ends what blocks it: a
  statement whose lock is freed goes on, and in a circle of waiting runs one is refused
  (PostgreSQL checks after `deadlock_timeout`). Fetching has timeouts.
- SafeFetch: `WF` on the steps of the fetch together, not on any one of them: what it waits
  for comes in some form, if only as bytes that come to nothing, or the timeout of that one
  wait ends it. There is no timeout on the whole, so a server that sends nothing but such
  bytes may go on for ever; `EveryFetchEnds` says that nothing else does.
- VerificationPage: `WF` on requests and the polling timer, since a page in the
  foreground polls and errors are bounded; and on the end of a run that has begun, which
  `worker_live` establishes. None on deliveries, stages or errors.

## The proofs

`tlapm` proves every type invariant, and every safety invariant, action property and
refinement
of the passing runs, for all values of the constants. What is assumed of these are their
types, and in addition:

- `QueueAssumption`: the null value is no job and no consumer;
- `LimiterAssumption`: a finite set of requests, a window of at least a second;
- `StoreAssumption`: plans are sequences of items;
- `PipelineAssumption`, `PageAssumption`, `UploadAssumption`, `IntakeAssumption`,
  `AssessmentAssumption`: nothing else (of `PageAssumption`: at least one stage);
- `FetchAssumption`, `UrlAssumption`: a limit of at least a byte, a base of at least two
  (256 in the code);
- `FeedAssumption`: finitely many feeds and pages, and the site search is no feed.

The theorems about the pipeline other than `PipelineTypes` have the hypothesis `~Overlap`, as
its run has: deliveries do not run at the same time. That is what `ExclusiveRuns` proves
of the worker loop while no job outlives its lease; with overlap already the first is false
(`MCVerificationPipeline_overlap`).

| theorem | says |
|---|---|
| `QueueTypes`, `WorkerTypes` | type correctness |
| `AttemptsAreCounted` | an entry's attempt number never exceeds the deliveries it stands for |
| `RetryBudget` | a job dead-lettered as exhausted was delivered `MaxRetries` times |
| `InFlightRecoverable`, `ReapsDeadOnly` | while `slow = 0`, a working process's entry stays listed, and reapers are at dead lists only |
| `OneEntryPerList` | a processing list never holds two entries |
| `NothingUnanchored` | without deaths between commands, an unsettled job is in a list or between two commands |
| `QueueKeepsPromise` | under the same condition `JobQueue` implements `AtLeastOnce` |
| `WorkerUsesQueue` | `WorkerLoop` implements `JobQueue`, so all of the above holds of it |
| `LockProtects`, `ExclusiveRuns` | while `slow = 0`, a guarded worker owns its lock, and runs exclude each other |
| `WorkersKeepPromise` | the worker loop inherits the promise |
| `WeakestDecides` | the overall verdict follows the weakest considered claim, for any evidence and any number of claims |
| `SupportLifts` | the decision table is monotone in support, for all weights and numbers of origins |
| `VerifiedMirrorsFalse`, `PenaltyNeverVerified` | the bars of VERIFIED and FALSE compare as intended; a penalty excludes VERIFIED |
| `RepetitionCountsFor` | for any claim and any article, a passage that states every figure of the claim and denies nothing is never evidence against it |
| `LimitIsHeld`, `RetryIsTrue` | a window admits no more than its budget of the requests counted in time; who waits as told is in a later window |
| `IntakeTypes`, `IntakeUsesLimiter` | type correctness of the intake; it implements the limiter |
| `SubmissionsWithinLimit`, `SubmittersMayReturn` | so the limiter's two properties hold inside the handlers |
| `RecordsAreBacked` | a committed verification has its job, a committed media row its bytes |
| `StoredIsSafe` | only what passed every check is in the object store |
| `AcceptedAreStored` | where the response waits for the commit, what was accepted is stored |
| `StoreTypes` | the evidence store keeps its types, and a run that has ended holds no transaction |
| `StoreHarm` | only runs that were active together duplicate documents or make each other fail |
| `PipelineTypes` | the pipeline keeps its types, whether deliveries overlap or not |
| `FailureCarriesNoVerdict` | a FAILED verification has no verdict, whatever earlier deliveries stored |
| `CompletedWasRun` | a COMPLETED one went through every stage that applies, no fatal one failed, and a stored verdict has its finished SCORING and its claims |
| `DegradedAreCapped` | a degraded result has capped confidence, also after a death in the middle |
| `FinishedStagesStay` | no delivery reopens a finished stage |
| `PipelineFollowsLifecycle` | the pipeline implements `Lifecycle` |
| `PageTypes`, `FetchTypes`, `FeedTypes`, `AssessmentTypes` | type correctness; the last one includes that a confidence is a share of one and no divisor in it is zero |
| `AnswersAreWhole` | as long as deliveries do not overlap, an answer that says COMPLETED has the verdicts of the claims |
| `ReportIsReplaced` | an unfinished report on the report view has a request for the finished one, unless a redelivery reopened the verification |
| `ProgressGrows` | as long as deliveries do not overlap, polled progress never goes back, however many follow each other |
| `FetchIsAllowed` | on every hop the URL was admitted, and no response is used that reports a blocked address as the one that answered; of responses that report none it says nothing |
| `ProvenanceIsTrue` | the trail of a result is the sequence of what was requested |
| `BodyIsLimited` | what is kept of a body fits the limit, and says so if something was cut off |
| `SpellingsAreRead` | for a base and numbers of any size, and any number of parts: except for one number with a leading zero, the validator reads the address that a resolver makes of the host, or, of a row that begins with `0x`, none, and then that address is checked when the host is resolved and before anything is sent |
| `CacheIsFresh` | no search works with what a feed said a lifetime or longer before it began |
| `BestAreRead` | the articles read for a claim are the best of its list, by the scores of the moment it was made |
| `CopiesAreOne` | another copy of a report adds no origin on a side the report is on |
| `SupportIsSafe` | a further report that only supports the claim never makes its verdict less favourable |
| `RefutingAsEasy` | what verifies a claim would refute it with all sides exchanged |
| `RestatingIsSafe` | documents that only repeat a claim weigh nothing against it and never refute it |
| `MinorClaimsAreOverruled` | with an important claim scored, a minor one moves nothing of the overall result |

How they go:

- `AttemptsCounted` is inductive with `TypeOK`. It is a statement about all places an
  entry can be (pending, lists, memories, dead letters), because `fail` and
  `reap_expired` move it around. `RetryBudgetHonoured` follows: what is buried as
  exhausted carries an attempt number of at least `MaxRetries`.
- `InFlightIsRecoverable` and `ReapsOnlyTheDead` are inductive together only: a
  reaper can remove a live worker's entry unless it is known to be at a dead list.
  They need no assumption on deaths, and `slow = 0` is preserved backwards (`slow`
  never decreases).
- `OneInFlight` alone is not inductive. `ListsMatchHands` says that the list of a
  process that is up holds nothing but what its own memory has put there. A death
  then leaves at most one entry, and no action adds to a dead process's list.
- The promise rests on `OnlySubmitted` (nothing but submitted jobs is anywhere) and
  on "submitted is contained in settled or anchored". *Anchored* leaves out what a
  mere worker or reaper has in memory, which is what makes it survive their deaths;
  with the `CrashGaps` excluded, each step that takes an entry off a list leaves its
  process in a gap state, and each step that leaves a gap state puts the entry back or
  settles it. The refinement maps `owed` to `Owed`, and every step is a `Submit`,
  `Settle`, `Forget` or a stutter.
- `LockGuardsRun` is inductive with types and with the relation between `phase` and
  `pc` (`LoopTypes`). The step that needs care is `LockEnds`: under a live owner it
  is possible only once `slow > 0`, by `InFlightIsRecoverable` of the queue.
- `PipelineInv` (without overlap) says that at most one delivery is active and relates its
  three views of the verification: what its session believes is what is committed, its
  loop has left nothing unfinished and fatal behind it (`Looped`), and its memory knows
  of every stage that failed in this delivery (`Remembers`). The last part is what a death
  loses, so a run that resumes starts with the weakest of it, and `Scored` and `Reported`
  keep what the rows themselves say of earlier deliveries. `CompletedIsWhole` and
  `DegradedIsCapped` need all of them, since the stages of one COMPLETED verification may have
  been run by different deliveries. The refinement is shown action by action from it.
- `WeakestDecides` needs one invariant, that every scored claim has a verdict of
  the table; the rest is a lemma about the rules of the overall table in
  their order. `SupportLifts` compares the two tables that remain when there is
  enough evidence from two origins and no penalty; the nonlinear comparisons
  of the net score are separated into lemmas about two thresholds.
- The other theorems about `Assessment` rest on `AssessInv`: the documents read have the rows
  that are extracted for the claim in hand, and the score is what `score_claim` makes of
  them. What has to be known beyond the tables is how weights and origins move when a
  document is added. Weights are sums over finite sets, defined by recursion in the
  community modules; induction is not available, so each fact about them (`SumsExist`,
  `SumsAreNumbers`, `SumWithout`, `SumGrows`, `SumsAgree`) is shown of a smallest set for which it
  would fail. `SideGrows`: signals of new origins take no weight away. `CopiesMerge`: a copy
  maps the origins of a side onto those after it, since its twins' origins become
  one, so their number does not grow. `ReportComesAlone`: a report without a copy leaves
  all other signals as they are. `AssessmentTypes` bounds the quotients of a confidence;
  that none divides by zero holds because the mass of a side is zero or at least a hundred of
  its units (`Coarse`): the strongest passage of an origin counts in full.
- `StoreHarm`: `OnlyOverlapHarms` speaks of committed rows and of runs that are over,
  so it is strengthened to rows not yet committed (`RowsRaced`), to inserts not yet
  carried out (`AddingRaced`, `SourceRaced`), to a run about to give up
  (`FailingSawTwo`), and to active runs, which have all met (`Together`). A lookup
  that finds nothing leaves only uncommitted rows, whose runs are active. One lemma
  (`Effects`) says what any step does to its run's session and to the rows, and the
  invariant is shown from it without looking at the actions again.
- `LimitIsHeld` counts: `LimiterInv` says that no two requests of a window, counted in
  time, were answered the same number, that a live key has the value of the
  last of them, and that such a key lives as long as its window, so the requests
  admitted map one to one into `1 .. Limit`. `RetryIsTrue` is arithmetic of quotients and
  remainders.
- `IntakeUsesLimiter` is a step simulation, after which `LimiterInv` holds in the intake;
  `IntakeInv` relates how far a handler is to the stores it has written by then (`Backed`,
  `Kept`, `Honest`) and needs no more of the limiter than its types.
- `RepetitionCountsFor` needs `AssessInv` and a lemma about the rules. `RestatingIsSafe` adds
  that an empty side weighs nothing and the table is then not below "unverified".
- `PageInv`: without overlap, whatever a request has read can only have been overtaken (`Behind`), so an
  answer put together from a row and what is committed later is no worse than its row; an end
  that was read once is still there or was undone by another delivery (`EndStays`); and a
  page that knows of the end has asked for the report since (`Asked`).
- `FetchInv`: the trail is the requests so far (`Trailed`), every hop in it was validated and
  its address, if reported, checked, and so was the hop in hand as far as it has come
  (`Checked`), what is kept of a body is within the limit (`Limited`), and from the resolution
  of a host until it answers `addresses` is one of `FirstResolutions` (`Resolved`). `SpellingsAreRead` is arithmetic for rows that are read: the digits in base
  `Radix` that the validator takes from the last number of a host are those of the address,
  for each number of parts, from lemmas on quotients of quotients. For a row that begins
  with `0x` it is `Resolved`.
- `FeedInv`: the items under a feed's key are the feed's own (`Stored`), what a search
  works with is young enough (`Found`) and has the score of the claim in hand until the list
  is made (`Rated`), and a list is in the order of what its items were worth at that moment
  (`Listed`), which no later search and no reading of an article changes, because a list
  keeps its claim and the items as they were seen.

Only model-checked: liveness (`EventuallySettled`, `ReaperEmptiesDeadLists`,
`EventuallyResolved`, `LockIsFreed`, `EveryRunEnds`, `EveryFetchEnds`,
`OutcomeIsShown`), which the prover does not handle.

## Where code and documents disagree

In each of these TLC finds the quoted sentence violated. The first is a run of the
project:

| configuration | the text | what happens |
|---|---|---|
| `MCVerificationPipeline_resumed_claims` | "a redelivered job resumes from the last completed stage" (`docs/VERIFICATION_PIPELINE.md:62-63`) | the resumed run has no claims in memory and fails in SCORING |

The others are checked beside the runs (`tlc -config X.cfg M` with the `MC` module of the
prefix). Where a property is named, put it in the place of the configuration's own.

| configuration | property | the text | what happens |
|---|---|---|---|
| `MCJobQueue_safety` | `NeverLost` | "a job is never lost if a worker dies mid-flight" (`queue.py:8-9`) | `reserve`, `fail`, `reap_expired` remove an entry and add it in two commands; a death in between loses it |
| `MCJobQueue_unreaped` | | "Without this, a crashed worker's jobs would sit in its processing list forever" (`queue.py:191-192`) | an entry whose worker died before the lease was written is never reaped |
| `MCJobQueue_unbounded` | | "bounded retries" (`queue.py:4`) | the reaper requeues without looking at the attempt |
| `MCWorkerLoop_live` | `CrashedIsNotStranded` (PROPERTY) | "A crashed worker's job must not be stranded." (`backend/tests/test_queue.py:84`) | a reaped job can meet the dead worker's lock and is acknowledged unprocessed (`worker.py:127`) |
| `MCWorkerLoop_overlap` | | "Prevents duplicate concurrent processing" (`queue.py:229`) | the lock's TTL passes under a slow job |
| `MCWorkerLoop_live` | `RetryIsRun` (PROPERTY) | "Bounded retries with backoff apply to transient errors" (`docs/VERIFICATION_PIPELINE.md:63-64`) | the retry can be reserved by another worker before the lock is deleted (`worker.py:157`), and is acknowledged as a duplicate |
| `MCWorkerLoop_live` | `MissingMeansGone` (PROPERTY) | "Nothing to retry: the record is gone." (`worker.py:68`) | the record was not committed yet; the job is acknowledged and the verification stays QUEUED |
| `MCWorkerLoop_overlap` | `FailureIsRecorded` | "The pipeline records its own failure state" (`worker.py:145`) | an exception outside the stages dead-letters the job and leaves the status |
| `MCVerificationPipeline_redelivered` | | "Idempotent by construction" (`worker.py:7`) | a redelivery of a completed verification clears its degraded flag |
| `MCVerificationPipeline_redelivered` | `DegradationIsRecorded` | "Any degradation is recorded on the verification" (`docs/VERIFICATION_PIPELINE.md:55-57`) | the flag an earlier delivery had in memory is lost |
| `MCVerificationPipeline_unreadable` | | the same sentence | an unreadable image degrades its stage row only |
| `MCVerificationPipeline_transient` | | "Bounded retries with backoff apply to transient errors" (`docs/VERIFICATION_PIPELINE.md:63-64`) | `run()` catches them; the job is acknowledged with the verification FAILED |
| `MCVerificationPipeline_resumed_claims` | `ReportCountsStoredClaims` | "Built from what actually happened" (`stages.py:556`) | a resumed report says there were no claims |
| `MCVerificationPipeline_overlap` | | a failure is no verdict (`pipeline.py:6-11`) | two overlapping runs write different columns of one row |
| `MCIntake_dangling` | | "a job never references a record that was rolled back" (`submissions.py:35-36`) | enqueued, then the commit fails |
| `MCIntake_dangling` | `MissingMeansGone` | "Nothing to retry: the record is gone." (`worker.py:68`) | the record was not committed yet |
| `MCIntake_notfound` | | a 404 is final (`query-provider.tsx:17-18`) | the answer precedes the commit |
| `MCIntake_requests` | `KeyDiesWithItsWindow` | "a key can never outlive its window" (`rate_limit.py:98-99`) | every request gives the key a whole window more |
| `MCEvidenceStore_store` | `OneRowPerDocument` | "reusing an existing row when we have it" (`pipeline_ops.py:198`) | the URL has no unique key; two runs insert the same document, and later runs raise when they meet it |
| `MCEvidenceStore_store` | `NonFatalCarriesOn` | "Non-fatal: note it and carry on with less evidence." (`pipeline.py:240`) | after a failed flush the handler flushes again (`pipeline.py:227`), and the run fails as a whole |
| `MCFeedCache_twice` | | "Same canonical URL is the same document." (`pipeline_ops.py:135`) | two candidates can become one page when they are read, after the duplicates were removed |
| `MCAssessment_claims` | `OneReportNeverVerifies` | "you cannot reach `VERIFIED` on one origin no matter how many copies exist" (`docs/RETRIEVAL.md:72`) | a document without a copy has no cluster, so each of its passages is an origin (`scoring.py:288`); three of them verify a claim |
| `MCAssessment_claims` | `ContradictionNeverVerifies` (PROPERTY) | "Strong, independent, well-sourced support" (`scoring.py:422`) | origins of both sides are added, so a weak contradiction can be the third origin that lifts LIKELY_TRUE to VERIFIED |
| `MCAssessment_fetches` | | "Article bodies fetched per verification" (`config.py:180`) | the cap is applied to each claim (`pipeline_ops.py:261`) |
| `MCAssessment_claims` | `OtherPeriodIsNoDispute` | "A passage citing a different time period is reporting a different figure, not disputing this one." (`evidence.py:294-295`) | `extract_numbers` has already removed the years the rule looks for |
| `MCAssessment_claims` | `SharedFigureIsNoDispute` | "If the passage states the same figure, there is no disagreement" (`evidence.py:228-229`) | a claim with two figures, and a passage with one of them, counts as a conflict |
| `MCAssessment_claims` | `DenialIsNoSupport` | "NEUTRAL unless the signals clearly point one way" (`evidence.py:271`) | a denial with little overlap and a shared figure is SUPPORTS |
| `MCSafeFetch_hops` | `ConnectsToValidated` | "the socket is pinned to a validated address" (`safe_fetch.py:9`; `docs/SECURITY.md:42-44`) | the pinned address is stored and not used (`safe_fetch.py:114-116`): the transport resolves the host again, and the check of the peer that follows is skipped when the response names none |
| `MCSafeFetch_hops` | `EveryEncodingIsRead` | "Parse a host as an IP literal, including obfuscated encodings" (`url_validation.py:142-148`) | `0x7f.0.0.1` is no address to the validator, and a lone number with a leading zero is read as decimal; resolvers read them as 127.0.0.1 and as octal |
| `MCSafeFetch_hops` | `FetchEnds` (PROPERTY) | "bounded by connect/read timeouts" (`docs/SECURITY.md:54-56`) | the timeouts are of single operations, and bytes that decode to nothing are not counted against the size limit |
| `MCVerificationPage_visit` | `SwapsAfterPull` | "Pull the full report once, then swap views." (`verification-page.tsx:72`) | the views are swapped by the status; until the report has come, the unfinished one is shown |

One more needs no model: `upload_validation.py:202-204` says that duration and
resolution of a video are checked by `probe_video_metadata`, which has no caller.

## What is not modelled

- **Retry backoff and stage timeouts**: the documents mention them, the code has
  none (`stage_timeout_seconds` is not used), so there is nothing to model.
- **Text and media processing** (claim extraction, language detection, tokenising, the
  cutting of articles into passages, the formula of their relevance, OCR, the text of
  an article or a feed entry): library or regular-expression work without state. What
  later code does with its results is modelled: overlap, figures, markers and relevance
  are inputs of `Classification`, success, emptiness or failure of `VerificationPipeline`.
- The calls of the **language model**: prompt, fencing of the text, parsing.
  `Classification` has what its answer, or a failure, does to a label.
- **Wiring**: configuration, logging, error formats, health, migrations, deployment; a
  rate limiter that is switched off.
- The client's composer, texts and layout; lists and counts of the report API that
  repeat parts of the report.
- **`depth()` and `stats()`** only read. Unparseable list entries (`queue.py:201-203`) are
  never written by this program.
- A Redis (run with an append-only file, `docker-compose.yml`) or database that loses
  acknowledged writes. A Redis error that leaves the
  worker's loop is `Crash`; one inside `complete` is `CompleteUnanswered`.

## The plan

Every part whose order, concurrency or failures matter has its module now, and the safety
properties of all of them are proved. What is left, in this order:

1. **Composition** of `WorkerLoop` with `VerificationPipeline`, so that `Overlap` is
   no parameter but a consequence of `NoOverlap`, and the end of a run in `VerificationPage` one
   of `EventuallyResolved`.
2. **Abstract specifications**: a verification is a function of its stored inputs,
   whatever the number of deliveries (for the pipeline without in-memory context),
   and a register of rows by URL for the evidence store.
