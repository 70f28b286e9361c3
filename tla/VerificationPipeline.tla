------------------------ MODULE VerificationPipeline ------------------------
(***************************************************************************)
(* One verification going through verification/pipeline.py with the stages *)
(* of verification/stages.py.  A Run is one delivery of its job: one       *)
(* process_job() call with its own SQLAlchemy session and PipelineContext. *)
(* A run may die or raise; a later one then resumes from the stage rows.   *)
(*                                                                         *)
(*   db         the committed row of `verifications` together with the     *)
(*              statuses of its `verification_stages` rows                 *)
(*   claimSets  how many times the claims were inserted                    *)
(*   evidence   whether evidence rows are stored                           *)
(*   view[r]    what r's session believes the row to be: it is loaded once *)
(*              (expire_on_commit=False), and a flush writes only the      *)
(*              columns whose value r changed                              *)
(*   ctx[r]     the PipelineContext, reduced to what is empty and what not *)
(*   at[r]      the position of r in the loop of run()                     *)
(*   done[r]    run()'s already_done                                       *)
(***************************************************************************)
EXTENDS Naturals, Sequences, FiniteSets

CONSTANTS
  Run,       \* deliveries of the job
  Shapes,    \* the submissions considered, each a set of parts
  Overlap,   \* TRUE: two runs may be active at once
  Fragile    \* bound: the stages whose handlers may raise

AllShapes == {{"text"}, {"url"}, {"url", "text"}, {"image"}, {"image", "text"},
              {"video"}, {"video", "text"}}


VARIABLES shape, db, claimSets, evidence, rpc, at, done, view, ctx

stored == <<shape, db, claimSets, evidence>>
sessions == <<rpc, at, done, view, ctx>>
vars == <<stored, sessions>>

STAGE_SEQUENCE ==
  <<"NORMALIZING", "EXTRACTING_CONTENT", "ANALYZING_MEDIA", "DETECTING_LANGUAGE",
    "EXTRACTING_CLAIMS", "GENERATING_QUERIES", "RETRIEVING_EVIDENCE",
    "FETCHING_DOCUMENTS", "EXTRACTING_EVIDENCE", "CLASSIFYING_EVIDENCE",
    "SCORING", "GENERATING_REPORT">>

Stage == {STAGE_SEQUENCE[i] : i \in 1..12}
ASSUME PipelineAssumption ==
  Shapes \subseteq AllShapes /\ Overlap \in BOOLEAN /\ Fragile \subseteq Stage

FATAL_STAGES == {"NORMALIZING", "EXTRACTING_CLAIMS", "SCORING", "GENERATING_REPORT"}

HasMedia == shape \cap {"image", "video"} # {}
Applicable(s) == s # "ANALYZING_MEDIA" \/ HasMedia

DoneStatus == {"COMPLETED", "DEGRADED"}   \* SKIPPED rows need a missing handler
RowStatus == DoneStatus \cup {"absent", "RUNNING", "FAILED"}
Final == {"COMPLETED", "FAILED"}
Cause == {"none", "deterministic", "transient", "no_text", "nothing_found", "no_claims"}

Row == [status : {"QUEUED", "RUNNING"} \cup Final,
        current : Stage \cup {"QUEUED"} \cup Final,
        verdict : {"none", "unverified", "substantive"},
        band : {"none", "capped", "free"},
        summary : {"none", "no_claims", "claims"},
        degraded : BOOLEAN,
        error : Cause,
        rows : [Stage -> RowStatus]]

Context == [text : BOOLEAN, claims : BOOLEAN, queries : BOOLEAN, documents : BOOLEAN,
            evidence : BOOLEAN, degraded : BOOLEAN]

EmptyContext == [text |-> FALSE, claims |-> FALSE, queries |-> FALSE,
                 documents |-> FALSE, evidence |-> FALSE, degraded |-> FALSE]

QueuedRow == [status |-> "QUEUED", current |-> "QUEUED", verdict |-> "none",
              band |-> "none", summary |-> "none", degraded |-> FALSE,
              error |-> "none", rows |-> [s \in Stage |-> "absent"]]

TypeOK ==
  /\ shape \in Shapes
  /\ db \in Row
  /\ claimSets \in Nat
  /\ evidence \in BOOLEAN
  /\ rpc \in [Run -> {"new", "ready", "open", "returned", "abandoned"}]
  /\ at \in [Run -> 1..13]
  /\ done \in [Run -> SUBSET Stage]
  /\ view \in [Run -> Row]
  /\ ctx \in [Run -> Context]

Init ==
  /\ shape \in Shapes
  /\ db = QueuedRow
  /\ claimSets = 0
  /\ evidence = FALSE
  /\ rpc = [r \in Run |-> "new"]
  /\ at = [r \in Run |-> 1]
  /\ done = [r \in Run |-> {}]
  /\ view = [r \in Run |-> QueuedRow]
  /\ ctx = [r \in Run |-> EmptyContext]

-----------------------------------------------------------------------------
(* The stage handlers.  Each operator is the set of results a handler can    *)
(* return from context x: the row status it leads to and the context after.  *)

Ok(x) == [row |-> "COMPLETED", ctx |-> x]
Degraded(x) == [row |-> "DEGRADED", ctx |-> x]
Degrade(x) == [x EXCEPT !.degraded = TRUE]

Normalizing(x) == {Ok([x EXCEPT !.text = "text" \in shape])}

ExtractingContent(x) ==
  IF "url" \in shape THEN {Ok([x EXCEPT !.text = TRUE]), Degraded(Degrade(x))} ELSE {Ok(x)}

\* A video is not analysed.  An image may be unreadable in storage, OCR may be
\* missing, find no text, or find some.
AnalyzingMedia(x) ==
  IF "video" \in shape THEN {Degraded(Degrade(x))}
  ELSE {Degraded(x), Ok(Degrade(x)), Ok(x), Ok([x EXCEPT !.text = TRUE])}

ExtractingClaims(x) ==
  IF ~x.text THEN {}
  ELSE {Ok([x EXCEPT !.claims = TRUE])}
       \cup (IF HasMedia THEN {Degraded(Degrade(x))} ELSE {})

GeneratingQueries(x) == {Ok([x EXCEPT !.queries = x.claims])}

RetrievingEvidence(x) ==
  IF ~x.queries THEN {Ok(x)}
  ELSE LET y == [x EXCEPT !.documents = TRUE] IN {Ok(y), Ok(Degrade(y))}

ExtractingEvidence(x) ==
  IF ~x.documents THEN {Ok(x)} ELSE {Ok(x), Ok([x EXCEPT !.evidence = TRUE])}

Scoring(x) == IF x.claims \/ HasMedia THEN {Ok(x)} ELSE {}

Returns(s, x) ==
  CASE s = "NORMALIZING" -> Normalizing(x)
    [] s = "EXTRACTING_CONTENT" -> ExtractingContent(x)
    [] s = "ANALYZING_MEDIA" -> AnalyzingMedia(x)
    [] s = "EXTRACTING_CLAIMS" -> ExtractingClaims(x)
    [] s = "GENERATING_QUERIES" -> GeneratingQueries(x)
    [] s = "RETRIEVING_EVIDENCE" -> RetrievingEvidence(x)
    [] s = "EXTRACTING_EVIDENCE" -> ExtractingEvidence(x)
    [] s = "SCORING" -> Scoring(x)
    [] OTHER -> {Ok(x)}

\* Why a handler may raise: what it checks itself, or any error of what it calls.
Raises(s, x) ==
  {"deterministic", "transient"}
    \cup (IF s = "EXTRACTING_CLAIMS" THEN {IF x.text THEN "nothing_found" ELSE "no_text"} ELSE {})
    \cup (IF s = "SCORING" /\ ~x.claims THEN {"no_claims"} ELSE {})

\* A handler that raises may have filled part of the context already.
Partly(s, x) ==
  {x} \cup CASE s = "RETRIEVING_EVIDENCE" /\ x.queries -> {[x EXCEPT !.documents = TRUE]}
             [] s = "EXTRACTING_EVIDENCE" /\ x.documents -> {[x EXCEPT !.evidence = TRUE]}
             [] OTHER -> {}

ScoredRows_uncapped(v, x) ==
  IF ~x.claims THEN {[v EXCEPT !.verdict = "none", !.band = "none"]}
  ELSE {[v EXCEPT !.verdict = "unverified", !.band = "free"]}

\* The verdict columns SCORING sets on the verification, as an update of row v.
ScoredRows(v, x) ==
  IF ~x.claims THEN {[v EXCEPT !.verdict = "none", !.band = "none"]}
  ELSE {[v EXCEPT !.verdict = w, !.band = IF x.degraded THEN "capped" ELSE "free"] :
          w \in {"unverified"} \cup (IF evidence THEN {"substantive"} ELSE {})}

ReportedRow(v, x) == [v EXCEPT !.summary = IF x.claims THEN "claims" ELSE "no_claims"]

\* What a handler that returned has written to the verification row.
Written(s, v, x) ==
  CASE s = "SCORING" -> ScoredRows(v, x)
    [] s = "GENERATING_REPORT" -> {ReportedRow(v, x)}
    [] OTHER -> {v}

-----------------------------------------------------------------------------
(* Sessions and commits *)

Active(r) == rpc[r] \in {"ready", "open"}

\* A run that ends takes its session and its context with it.
Ends(r, how) ==
  /\ rpc' = [rpc EXCEPT ![r] = how]
  /\ at' = [at EXCEPT ![r] = 1]
  /\ done' = [done EXCEPT ![r] = {}]
  /\ view' = [view EXCEPT ![r] = QueuedRow]
  /\ ctx' = [ctx EXCEPT ![r] = EmptyContext]

\* An UPDATE names the columns whose value differs from what was loaded.
Merge(old, new) ==
  [f \in DOMAIN db |->
     IF f = "rows" THEN [s \in Stage |-> IF new.rows[s] # old.rows[s] THEN new.rows[s]
                                                                     ELSE db.rows[s]]
     ELSE IF new[f] # old[f] THEN new[f] ELSE db[f]]

Commit(r, old, new) ==
  /\ db' = Merge(old, new)
  /\ view' = [view EXCEPT ![r] = new]

\* The next stage of r's loop: applicable and not already done.
Todo(r) == {i \in at[r]..12 : /\ Applicable(STAGE_SEQUENCE[i])
                              /\ STAGE_SEQUENCE[i] \notin done[r]}
IsNext(r, i) == i \in Todo(r) /\ \A k \in Todo(r) : i <= k

Start_forgetful(r) ==
  /\ rpc[r] = "new"
  /\ Overlap \/ \A q \in Run : ~Active(q)
  /\ rpc' = [rpc EXCEPT ![r] = "ready"]
  /\ view' = [view EXCEPT ![r] = db]
  /\ UNCHANGED <<stored, at, done, ctx>>

\* process_job() loads the verification, run() reads the finished stages.
Start(r) ==
  /\ rpc[r] = "new"
  /\ Overlap \/ \A q \in Run : ~Active(q)
  /\ rpc' = [rpc EXCEPT ![r] = "ready"]
  /\ view' = [view EXCEPT ![r] = db]
  /\ done' = [done EXCEPT ![r] = {s \in Stage : db.rows[s] \in DoneStatus}]
  /\ UNCHANGED <<stored, at, ctx>>

OpenStage_keeps_status(r) ==
  \E i \in 1..12 :
    LET s == STAGE_SEQUENCE[i]
    IN  /\ rpc[r] = "ready"
        /\ IsNext(r, i)
        /\ Commit(r, view[r], [view[r] EXCEPT !.current = s, !.rows[s] = "RUNNING"])
        /\ rpc' = [rpc EXCEPT ![r] = "open"]
        /\ at' = [at EXCEPT ![r] = i]
        /\ UNCHANGED <<shape, claimSets, evidence, done, ctx>>

\* The stage row is selected again, so a row another run created is seen.
OpenStage(r) ==
  \E i \in 1..12 :
    LET s == STAGE_SEQUENCE[i]
        old == [view[r] EXCEPT !.rows[s] = IF @ = "absent" THEN db.rows[s] ELSE @]
    IN  /\ rpc[r] = "ready"
        /\ IsNext(r, i)
        /\ Commit(r, old, [old EXCEPT !.status = "RUNNING", !.current = s,
                                      !.rows[s] = "RUNNING"])
        /\ rpc' = [rpc EXCEPT ![r] = "open"]
        /\ at' = [at EXCEPT ![r] = i]
        /\ UNCHANGED <<shape, claimSets, evidence, done, ctx>>

Here(r) == STAGE_SEQUENCE[at[r]]

\* What a stage inserts besides the columns of the verification.
Inserts(r, x) ==
  /\ claimSets' = claimSets + IF x.claims /\ ~ctx[r].claims THEN 1 ELSE 0
  /\ evidence' = (evidence \/ x.evidence)

StageReturns(r) ==
  /\ rpc[r] = "open"
  /\ \E o \in Returns(Here(r), ctx[r]) :
       /\ \E v \in Written(Here(r), view[r], o.ctx) :
             Commit(r, view[r], [v EXCEPT !.rows[Here(r)] = o.row])
       /\ Inserts(r, o.ctx)
       /\ ctx' = [ctx EXCEPT ![r] = o.ctx]
  /\ rpc' = [rpc EXCEPT ![r] = "ready"]
  /\ at' = [at EXCEPT ![r] = @ + 1]
  /\ UNCHANGED <<shape, done>>

\* A non-fatal stage that raises is noted, what it added is committed, and the
\* loop goes on.
StageDegrades(r) ==
  /\ rpc[r] = "open"
  /\ Here(r) \in Fragile \ FATAL_STAGES
  /\ \E x \in Partly(Here(r), ctx[r]) :
       /\ Inserts(r, x)
       /\ ctx' = [ctx EXCEPT ![r] = Degrade(x)]
  /\ Commit(r, view[r], [view[r] EXCEPT !.rows[Here(r)] = "FAILED"])
  /\ rpc' = [rpc EXCEPT ![r] = "ready"]
  /\ at' = [at EXCEPT ![r] = @ + 1]
  /\ UNCHANGED <<shape, done>>

FailedRow_keeps_verdict(v, x, cause) ==
  [v EXCEPT !.status = "FAILED", !.current = "FAILED", !.error = cause,
            !.degraded = x.degraded]

\* The columns _fail() sets.
FailedRow(v, x, cause) ==
  [v EXCEPT !.status = "FAILED", !.current = "FAILED", !.error = cause,
            !.degraded = x.degraded, !.verdict = "none"]

\* Claims of one origin were added before the next origin's extraction raised;
\* the flush of the failed row inserts them.
ClaimsAdded(r, cause) ==
  Here(r) = "EXTRACTING_CLAIMS" /\ ctx[r].text /\ cause \in {"deterministic", "transient"}

\* A fatal stage raises: row and verification fail in one commit, run() returns
\* normally and the worker acknowledges the job.
StageFails(r) ==
  /\ rpc[r] = "open"
  /\ Here(r) \in FATAL_STAGES \cap Fragile
  /\ \E cause \in Raises(Here(r), ctx[r]) :
       /\ db' = Merge(view[r], FailedRow([view[r] EXCEPT !.rows[Here(r)] = "FAILED"], ctx[r], cause))
       /\ \/ UNCHANGED claimSets
          \/ ClaimsAdded(r, cause) /\ claimSets' = claimSets + 1
  /\ Ends(r, "returned")
  /\ UNCHANGED <<shape, evidence>>

\* The columns _complete() sets; an earlier error_code is left as it is.
CompletedRow(v, x) ==
  [v EXCEPT !.status = "COMPLETED", !.current = "COMPLETED", !.degraded = x.degraded]

Complete_early(r) ==
  /\ rpc[r] = "ready"
  /\ \A i \in Todo(r) : STAGE_SEQUENCE[i] = "GENERATING_REPORT"
  /\ db' = Merge([view[r] EXCEPT !.status = "RUNNING"], CompletedRow(view[r], ctx[r]))
  /\ Ends(r, "returned")
  /\ UNCHANGED <<shape, claimSets, evidence>>

\* Nothing is left to do.  RUNNING was flushed at the top of run(), so the
\* status is written even where it was COMPLETED when the row was loaded.
Complete(r) ==
  /\ rpc[r] = "ready"
  /\ Todo(r) = {}
  /\ db' = Merge([view[r] EXCEPT !.status = "RUNNING"], CompletedRow(view[r], ctx[r]))
  /\ Ends(r, "returned")
  /\ UNCHANGED <<shape, claimSets, evidence>>

\* The process dies, or an error of the database or of run() itself escapes to
\* the worker: what was not committed is rolled back.
Abandon(r) ==
  /\ Active(r)
  /\ Ends(r, "abandoned")
  /\ UNCHANGED stored

Advance(r) == \/ Start(r) \/ OpenStage(r) \/ StageReturns(r) \/ StageDegrades(r)
              \/ StageFails(r) \/ Complete(r)

Next == \E r \in Run : Advance(r) \/ Abandon(r)

Spec == Init /\ [][Next]_vars

-----------------------------------------------------------------------------
(* Properties *)

\* A failure is not evidence about the claim: whatever was scored before, by
\* whichever delivery, a FAILED verification carries no verdict
\* (pipeline.py:6-11, 276-289).
FailureIsNotAVerdict == db.status = "FAILED" => db.verdict = "none"

\* A redelivery repeats no completed work: through any number of deaths and
\* resumptions a finished stage row is never touched again, and no claims are
\* added to those of a finished extraction (pipeline.py:156, 190).
DoneStagesStay ==
  [][/\ \A s \in Stage : db.rows[s] \in DoneStatus => db'.rows[s] = db.rows[s]
     /\ db.rows["EXTRACTING_CLAIMS"] \in DoneStatus => claimSets' = claimSets]_vars

\* A COMPLETED verification went through every stage that applies to it, and
\* no fatal one of them failed, in whichever run that was (pipeline.py:187-244);
\* and no crash separates a verdict from the finished SCORING row and the claims
\* it is about (pipeline.py:218-219).
CompletedIsWhole ==
  /\ db.status = "COMPLETED" =>
       \A s \in Stage : Applicable(s) =>
         db.rows[s] \in DoneStatus \cup (IF s \in FATAL_STAGES THEN {} ELSE {"FAILED"})
  /\ db.verdict # "none" => db.rows["SCORING"] \in DoneStatus /\ claimSets > 0

\* A completed verification that says it was degraded has capped confidence,
\* although the flag and the band are computed in different stages and possibly
\* in different deliveries (models/verification.py:76-77).
DegradedIsCapped == db.status = "COMPLETED" /\ db.degraded => db.band # "free"

\* Pollers see RUNNING before any end, and QUEUED never again.
Status == INSTANCE Lifecycle WITH status <- db.status
FollowsLifecycle == Status!Spec

-----------------------------------------------------------------------------
(* What the documents say and the code does not do *)

\* "Any degradation is recorded on the verification"
\* (docs/VERIFICATION_PIPELINE.md:55-57).
DegradationIsRecorded ==
  db.status = "COMPLETED" => ((\E s \in Stage : db.rows[s] = "DEGRADED") => db.degraded)

\* "a redelivered job resumes from the last completed stage"
\* (docs/VERIFICATION_PIPELINE.md:62-63): it does not fail for want of the
\* claims an earlier delivery stored.
ResumedRunHasItsClaims == db.error = "no_claims" => claimSets = 0

\* "Built from what actually happened" (stages.py:556): the summary counts the
\* claims the verification has.
ReportCountsStoredClaims ==
  db.status = "COMPLETED" => (db.summary = "claims" <=> claimSets > 0)

\* "Idempotent by construction" (worker.py:7): another delivery of a completed
\* verification changes nothing of its result.
CompletedResultStays ==
  [][db.status = "COMPLETED" =>
       /\ db'.verdict = db.verdict
       /\ db'.summary = db.summary
       /\ db'.degraded = db.degraded]_vars

\* "Bounded retries with backoff apply to transient errors"
\* (docs/VERIFICATION_PIPELINE.md:63-64): a run that met one is not acknowledged.
TransientIsRetried ==
  \A r \in Run : rpc[r] = "returned" => ~(db.status = "FAILED" /\ db.error = "transient")
=============================================================================
