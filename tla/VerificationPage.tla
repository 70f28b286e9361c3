-------------------------- MODULE VerificationPage --------------------------
(***************************************************************************)
(* One visit of the page of a verification: its server part                *)
(* (app/verify/[publicId]/page.tsx), the progress view that polls the      *)
(* status, the report that replaces it (verification-page.tsx,             *)
(* progress-view.tsx), and the two read endpoints behind them              *)
(* (api/verifications.py), while the worker goes on.                       *)
(*                                                                         *)
(* The worker is Lifecycle, with the stages it has committed: SCORING      *)
(* stores the verdicts, others may fail or be repeated by a redelivery.    *)
(* Deliveries that overlap interfere with each other from then on.         *)
(* An endpoint reads the row of the verification in one statement, and     *)
(* stages, claims and evidence in later ones, each of which sees what is   *)
(* committed by then.                                                      *)
(***************************************************************************)
EXTENDS Integers

CONSTANTS
    StageCount,      \* stages of this verification
    MaxDeliveries,   \* bound: deliveries of the job
    MaxErrors        \* bound: requests that fail

ASSUME PageAssumption ==
    StageCount \in Nat \ {0} /\ MaxDeliveries \in Nat /\ MaxErrors \in Nat

VARIABLES
    status, verdict,     \* the row of the verification
    stages,              \* number of finished stages
    scored,              \* SCORING is finished, so the claims have verdicts
    deliveries, errors,  \* bounded
    overlapped,          \* history: a delivery began before the last one was over
    page,                \* where page.tsx is
    report,              \* the page's copy of the report
    unreachable,         \* page.tsx failed
    finished,            \* the component's state
    progress,            \* data of the status query
    lost,                \* error of the status query
    poll, pull           \* the requests of the two queries

server == <<status, verdict, stages, scored, deliveries, overlapped>>
client == <<report, unreachable, finished, progress, lost, poll, pull>>
vars == <<server, errors, page, client>>

Life == INSTANCE Lifecycle

Nothing == [status |-> "none"]

\* What is committed: the row, and what belongs to it.
Committed == [row : [status : Life!Final \cup {"QUEUED", "RUNNING"}, verdict : BOOLEAN],
              stages : 0 .. StageCount, scored : BOOLEAN]

Snapshot == [row |-> [status |-> status, verdict |-> verdict], stages |-> stages, scored |-> scored]

\* A request, with what was committed when its first statement was carried out.
Request == [at : {"idle", "sent", "half", "given_up"}, first : Committed \cup {Nothing},
            failures : 0 .. 2]

Idle == [at |-> "idle", first |-> Nothing, failures |-> 0]
Sent == [Idle EXCEPT !.at = "sent"]

Ended(answer) == answer # Nothing /\ answer.row.status \in Life!Final

Init ==
    /\ Life!Init /\ verdict = FALSE /\ stages = 0 /\ scored = FALSE
    /\ deliveries = 0 /\ errors = 0 /\ overlapped = FALSE
    /\ page = "open" /\ report = Nothing /\ unreachable = FALSE /\ finished = FALSE
    /\ progress = Nothing /\ lost = FALSE /\ poll = Idle /\ pull = Idle

------------------------------------------------------------------------------
(* The worker. *)

\* Fault: a delivery begins with the first stage again.
Deliver_again ==
    /\ deliveries < MaxDeliveries
    /\ Life!Begin
    /\ deliveries' = deliveries + 1
    /\ stages' = 0
    /\ UNCHANGED <<verdict, scored, overlapped, errors, page, client>>

Deliver ==
    /\ deliveries < MaxDeliveries
    /\ Life!Begin
    /\ deliveries' = deliveries + 1
    /\ UNCHANGED <<verdict, stages, scored, overlapped, errors, page, client>>

\* A job that outlives its lease is delivered while its run goes on.
Overlap ==
    /\ deliveries \in 1 .. MaxDeliveries - 1
    /\ status = "RUNNING"
    /\ deliveries' = deliveries + 1 /\ overlapped' = TRUE
    /\ UNCHANGED <<status, verdict, stages, scored, errors, page, client>>

\* Each run writes what its own session and its own already_done make it write:
\* a finished stage is reopened, or finished after the end; claims are extracted
\* again; an end is replaced by another.
Interfere ==
    /\ overlapped
    /\ \/ /\ stages' \in {stages - 1, stages + 1} \cap 0 .. IF scored THEN StageCount ELSE StageCount - 1
          /\ UNCHANGED <<status, verdict, scored>>
       \/ /\ stages < StageCount /\ scored' = FALSE
          /\ UNCHANGED <<status, verdict, stages>>
       \/ /\ status \in Life!Final /\ status' \in Life!Final
          /\ verdict' \in BOOLEAN
          /\ UNCHANGED <<stages, scored>>
    /\ UNCHANGED <<deliveries, overlapped, errors, page, client>>

\* Any stage but SCORING.
FinishStage ==
    /\ status = "RUNNING"
    /\ stages < IF scored THEN StageCount ELSE StageCount - 1
    /\ stages' = stages + 1
    /\ UNCHANGED <<status, verdict, scored, deliveries, overlapped, errors, page, client>>

Score ==
    /\ status = "RUNNING" /\ ~scored
    /\ stages' = stages + 1 /\ scored' = TRUE /\ verdict' = TRUE
    /\ UNCHANGED <<status, deliveries, overlapped, errors, page, client>>

\* SCORING is fatal, so what is completed is scored; a failure takes the
\* verdict back.
EndRun ==
    /\ Life!End
    /\ status' = "COMPLETED" => scored
    /\ verdict' = (verdict /\ status' = "COMPLETED")
    /\ UNCHANGED <<stages, scored, deliveries, overlapped, errors, page, client>>

Worker == Deliver \/ Overlap \/ Interfere \/ FinishStage \/ Score \/ EndRun

------------------------------------------------------------------------------
(* The endpoints, as steps of a request. *)

\* _load_verification begins with the row.
LoadRow(r) ==
    /\ r.at = "sent"
    /\ r' = [r EXCEPT !.at = "half", !.first = Snapshot]

\* Fault: stages and claims are read before the row.
Response_children_first(r) == [r.first EXCEPT !.row = Snapshot.row]

\* get_status, get_verification: the row as it was first, and then its stages,
\* claims and evidence.
Response(r) == [Snapshot EXCEPT !.row = r.first.row]

\* A request fails: the network, a limit, the database.  Queries repeat it up
\* to twice, except after 404 and 429.
RequestFails(r) ==
    /\ r.at \in {"sent", "half"} /\ errors < MaxErrors
    /\ errors' = errors + 1
    /\ r' \in {[Idle EXCEPT !.at = "given_up"]}
                \cup IF r.failures < 2 THEN {[Sent EXCEPT !.failures = r.failures + 1]} ELSE {}

------------------------------------------------------------------------------
(* page.tsx: the report, and unless it is finished the status. *)

\* Both are requests of the server's own, made one after the other; pull and
\* poll stand for them.
OpenPage ==
    /\ page = "open"
    /\ page' = "report" /\ pull' = Sent
    /\ UNCHANGED <<server, errors, report, unreachable, finished, progress, lost, poll>>

PageReport ==
    /\ page = "report" /\ pull.at = "half"
    /\ report' = Response(pull)
    /\ pull' = Idle
    /\ IF Ended(report')
       THEN page' = "shown" /\ finished' = TRUE /\ UNCHANGED poll
       ELSE page' = "status" /\ poll' = Sent /\ UNCHANGED finished
    /\ UNCHANGED <<server, errors, unreachable, progress, lost>>

\* The interval is asked with the initial data: if they are final the polling
\* ends before it begins.
PageStatus ==
    /\ page = "status" /\ poll.at = "half"
    /\ progress' = Response(poll)
    /\ page' = "shown" /\ poll' = Idle
    /\ finished' = Ended(progress')
    /\ pull' = IF Ended(progress') THEN Sent ELSE pull
    /\ UNCHANGED <<server, errors, report, unreachable, lost>>

\* One failure, and there are no more attempts.
PageFails ==
    /\ page \in {"report", "status"} /\ errors < MaxErrors
    /\ errors' = errors + 1
    /\ page' = "shown" /\ unreachable' = TRUE
    /\ poll' = Idle /\ pull' = Idle
    /\ UNCHANGED <<server, report, finished, progress, lost>>

------------------------------------------------------------------------------
(* The components. *)

View ==
    CASE page # "shown" -> "blank"
      [] page = "shown" /\ report = Nothing -> "unreachable"
      [] page = "shown" /\ report # Nothing /\ ~finished ->
            IF lost THEN "lost" ELSE IF progress = Nothing THEN "skeleton" ELSE "progress"
      [] OTHER -> IF report.row.status = "FAILED" THEN "failed" ELSE "report"

Polling == View \in {"lost", "skeleton", "progress"}

\* Fault: an error ends the polling.
StartPoll_until_error ==
    /\ Polling /\ poll.at = "idle"
    /\ poll' = Sent
    /\ UNCHANGED <<server, errors, page, report, unreachable, finished, progress, lost, pull>>

\* refetchInterval: after an answer and after an error alike.
StartPoll ==
    /\ Polling /\ poll.at \in {"idle", "given_up"}
    /\ poll' = Sent
    /\ lost' = (lost /\ progress # Nothing)
    /\ UNCHANGED <<server, errors, page, report, unreachable, finished, progress, pull>>

\* Fault: the report is not invalidated, and the one given at the start counts
\* as fresh.
Complete_fresh == finished' = TRUE /\ UNCHANGED pull

\* onComplete: the report is invalidated and its query enabled, so it is
\* fetched; the views are swapped at once.
Complete == finished' = TRUE /\ pull' = Sent

PollAnswers ==
    /\ Polling /\ poll.at = "half"
    /\ progress' = Response(poll) /\ lost' = FALSE
    /\ poll' = Idle
    /\ IF Ended(progress') THEN Complete ELSE UNCHANGED <<finished, pull>>
    /\ UNCHANGED <<server, errors, page, report, unreachable>>

PollFails ==
    /\ page = "shown" /\ RequestFails(poll)
    /\ lost' = (lost \/ poll'.at = "given_up")
    /\ UNCHANGED <<server, page, report, unreachable, finished, progress, pull>>

\* The fresh report replaces the one on the page.
PullAnswers ==
    /\ page = "shown" /\ pull.at = "half"
    /\ report' = Response(pull) /\ pull' = Idle
    /\ UNCHANGED <<server, errors, page, unreachable, finished, progress, lost, poll>>

\* Nothing asks again.
PullFails ==
    /\ page = "shown" /\ RequestFails(pull)
    /\ UNCHANGED <<server, page, report, unreachable, finished, progress, lost, poll>>

PollRow ==
    /\ LoadRow(poll)
    /\ UNCHANGED <<server, errors, page, report, unreachable, finished, progress, lost, pull>>

PullRow ==
    /\ LoadRow(pull)
    /\ UNCHANGED <<server, errors, page, report, unreachable, finished, progress, lost, poll>>

Visit ==
    \/ OpenPage \/ PageReport \/ PageStatus \/ StartPoll \/ PollRow \/ PollAnswers
    \/ PullRow \/ PullAnswers

Next == Worker \/ Visit \/ PageFails \/ PollFails \/ PullFails

Spec == Init /\ [][Next]_vars

\* Requests are answered (or fail, finitely often), the open page is in the
\* foreground, and a run that has begun ends.
FairSpec ==
    /\ Spec
    /\ WF_vars(OpenPage) /\ WF_vars(PageReport) /\ WF_vars(PageStatus)
    /\ WF_vars(StartPoll) /\ WF_vars(PollRow) /\ WF_vars(PollAnswers)
    /\ WF_vars(PullRow) /\ WF_vars(PullAnswers)
    /\ WF_vars(EndRun)

------------------------------------------------------------------------------
TypeOK ==
    /\ Snapshot \in Committed
    /\ deliveries \in 0 .. MaxDeliveries /\ errors \in 0 .. MaxErrors
    /\ overlapped \in BOOLEAN
    /\ page \in {"open", "report", "status", "shown"}
    /\ report \in Committed \cup {Nothing} /\ progress \in Committed \cup {Nothing}
    /\ unreachable \in BOOLEAN /\ finished \in BOOLEAN /\ lost \in BOOLEAN
    /\ poll \in Request /\ pull \in Request

\* While no two deliveries have overlapped, an answer that says COMPLETED is
\* whole: its claims have their verdicts, although they are read after the row
\* while the worker commits (verifications.py:34-47).
CompletedAnswerIsWhole == ~overlapped =>
    \A answer \in {report, progress} \ {Nothing} :
        answer.row.status = "COMPLETED" => answer.scored

\* The report may be shown before it is finished, but then the finished one is
\* asked for; it stays only when that fails for good, or when a redelivery has
\* reopened the verification.
UnfinishedIsReplaced ==
    View = "report" /\ ~Ended(report) => pull.at # "idle" \/ deliveries > 1

\* While no two deliveries have overlapped, polled progress never goes back, though
\* deliveries die in the middle and others resume or come after the end.  (An
\* overlapping one may reopen a finished stage: pipeline.py:183-197.)
ProgressOnlyGrows ==
    [][progress # Nothing /\ ~overlapped' => progress'.stages >= progress.stages]_vars

\* Once the verification has ended, an open page gets to show how, through any
\* number of failed polls: unless the request for the report itself was given
\* up, or the verification was reopened.
OutcomeIsShown ==
    (page = "shown" /\ report # Nothing /\ status \in Life!Final /\ deliveries = 1)
        ~> \/ Ended(report) /\ report.row.status = status /\ View \in {"report", "failed"}
           \/ pull.at = "given_up" \/ deliveries > 1

\* "Pull the full report once, then swap views" (verification-page.tsx:72):
\* the report view shows a report that has an end.
SwapsAfterPull == View = "report" => report.row.status = "COMPLETED"
==============================================================================
