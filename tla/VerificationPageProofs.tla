----------------------- MODULE VerificationPageProofs -----------------------
(***************************************************************************)
(* A visit to the page, for any number of stages, deliveries and failed    *)
(* requests.  What was read, at whatever moment, is not ahead of what is   *)
(* committed (Behind), so an answer put together from two moments is never *)
(* worse than the first - until deliveries overlap; and an end that was    *)
(* read once is either still there or was undone by another delivery       *)
(* (EndStays).                                                             *)
(***************************************************************************)
EXTENDS VerificationPage, TLAPS

\* What was read can only have been overtaken, while deliveries do not overlap.
Behind(c) ==
  c # Nothing /\ ~overlapped =>
                 /\ c.stages <= stages
                 /\ c.scored => scored
                 /\ c.row.status = "COMPLETED" => c.scored

EndStays(c) == Ended(c) => status \in Life!Final \/ deliveries > 1

Overtaken(c) == Behind(c) /\ EndStays(c)

\* The worker: SCORING is among the stages and comes before COMPLETED, and
\* only a delivery ends QUEUED.
Server ==
  /\ ~scored => stages <= StageCount - 1
  /\ status = "COMPLETED" /\ ~overlapped => scored
  /\ overlapped => deliveries > 1
  /\ status # "QUEUED" => deliveries >= 1

\* A request that is half done has read the row.
Half(q) == q.at = "half" => q.first # Nothing

\* Once the page knows of the end, a request for the report starts from it.
Asked ==
  /\ page = "status" => report # Nothing
  /\ finished =>
       /\ page = "shown" /\ report # Nothing
       /\ status \in Life!Final \/ deliveries > 1
       /\ ~Ended(report) => pull.at # "idle" \/ deliveries > 1
       /\ pull.at = "half" => Ended(pull.first) \/ deliveries > 1

PageInv ==
  /\ TypeOK /\ Server /\ Asked
  /\ Half(poll) /\ Half(pull)
  /\ Overtaken(report) /\ Overtaken(progress)
  /\ Overtaken(poll.first) /\ Overtaken(pull.first)

-----------------------------------------------------------------------------
(* Requests and their answers *)

LEMMA CommittedIs ==
  ASSUME NEW c \in Committed
  PROVE  /\ c # Nothing
         /\ c.row \in [status : Life!Final \cup {"QUEUED", "RUNNING"}, verdict : BOOLEAN]
         /\ c.stages \in 0 .. StageCount /\ c.scored \in BOOLEAN
BY DEF Committed, Nothing

LEMMA SnapshotIs ==
  /\ Snapshot.row = [status |-> status, verdict |-> verdict]
  /\ Snapshot.stages = stages /\ Snapshot.scored = scored
  /\ Snapshot \in Committed <=>
       /\ status \in Life!Final \cup {"QUEUED", "RUNNING"} /\ verdict \in BOOLEAN
       /\ stages \in 0 .. StageCount /\ scored \in BOOLEAN
BY DEF Snapshot, Committed

LEMMA Requests ==
  /\ Idle \in Request /\ Sent \in Request /\ [Idle EXCEPT !.at = "given_up"] \in Request
  /\ Idle.at = "idle" /\ Idle.first = Nothing
  /\ Sent.at = "sent" /\ Sent.first = Nothing
  /\ [Idle EXCEPT !.at = "given_up"].at = "given_up"
  /\ [Idle EXCEPT !.at = "given_up"].first = Nothing
  /\ \A n \in 0 .. 2 : /\ [Sent EXCEPT !.failures = n] \in Request
                       /\ [Sent EXCEPT !.failures = n].at = "sent"
                       /\ [Sent EXCEPT !.failures = n].first = Nothing
<1>1. Idle = [at |-> "idle", first |-> Nothing, failures |-> 0] /\ Idle \in Request
  BY DEF Idle, Request
<1>2. Sent = [at |-> "sent", first |-> Nothing, failures |-> 0] /\ Sent \in Request
  BY <1>1 DEF Sent, Request
<1>3. [Idle EXCEPT !.at = "given_up"] \in Request
  BY <1>1 DEF Request
<1>4. ASSUME NEW n \in 0 .. 2
      PROVE  [Sent EXCEPT !.failures = n] = [at |-> "sent", first |-> Nothing, failures |-> n]
  BY <1>2
<1>5. ASSUME NEW n \in 0 .. 2
      PROVE  [Sent EXCEPT !.failures = n] \in Request
  BY <1>4 DEF Request
<1> QED BY <1>1, <1>2, <1>3, <1>4, <1>5

LEMMA NothingIsBehind == Overtaken(Nothing)
BY DEF Overtaken, Behind, EndStays, Ended

\* An answer is no worse than what its request read first.
LEMMA Answers ==
  ASSUME PageInv, NEW r \in Request, r.at = "half", Half(r), Overtaken(r.first)
  PROVE  /\ Response(r) \in Committed /\ Overtaken(Response(r))
         /\ Ended(Response(r)) <=> Ended(r.first)
         /\ Response(r).stages = stages
<1>1. r.first \in Committed /\ r.first # Nothing
  BY DEF Request, Half
<1>2. r.first.row \in [status : Life!Final \cup {"QUEUED", "RUNNING"}, verdict : BOOLEAN]
  BY <1>1, CommittedIs
<1>3. Snapshot \in Committed
  BY DEF PageInv, TypeOK
<1>4. /\ Response(r).row = r.first.row
      /\ Response(r).stages = stages /\ Response(r).scored = scored
      /\ Response(r) \in Committed
  BY <1>2, <1>3, SnapshotIs DEF Response, Snapshot, Committed
<1>5. Response(r) # Nothing
  BY <1>4, CommittedIs
<1>6. stages \in Int
  BY <1>3, SnapshotIs
<1>7. Ended(Response(r)) <=> Ended(r.first)
  BY <1>1, <1>4, <1>5 DEF Ended
<1>8. Behind(Response(r))
  BY <1>1, <1>4, <1>6 DEF Overtaken, Behind
<1>9. EndStays(Response(r))
  BY <1>7 DEF Overtaken, EndStays
<1> QED BY <1>4, <1>7, <1>8, <1>9 DEF Overtaken

-----------------------------------------------------------------------------
(* The invariant *)

LEMMA PageStarts == Init => PageInv
<1> SUFFICES ASSUME Init PROVE PageInv
  OBVIOUS
<1> USE PageAssumption
<1>1. TypeOK
  <2>1. Snapshot \in Committed
    <3>1. /\ status \in Life!Final \cup {"QUEUED", "RUNNING"} /\ verdict \in BOOLEAN
          /\ stages \in 0 .. StageCount /\ scored \in BOOLEAN
      <4>1. status = "QUEUED" /\ verdict = FALSE /\ scored = FALSE
        BY DEF Init, Life!Init
      <4>2. stages \in 0 .. StageCount
        BY DEF Init
      <4> QED BY <4>1, <4>2
    <3> QED BY <3>1, SnapshotIs
  <2>2. poll \in Request /\ pull \in Request
    BY Requests DEF Init
  <2>3. deliveries \in 0 .. MaxDeliveries /\ errors \in 0 .. MaxErrors
    BY DEF Init
  <2>4. /\ page = "open" /\ report = Nothing /\ progress = Nothing
        /\ unreachable = FALSE /\ finished = FALSE /\ lost = FALSE /\ overlapped = FALSE
    BY DEF Init
  <2> QED BY <2>1, <2>2, <2>3, <2>4 DEF TypeOK
<1>2. Server /\ Asked
  BY DEF Init, Life!Init, Server, Asked
<1>3. Half(poll) /\ Half(pull)
  BY Requests DEF Init, Half
<1> QED BY <1>1, <1>2, <1>3, Requests, NothingIsBehind DEF Init, PageInv

\* The worker only goes forward, except that a delivery reopens an end.
LEMMA WorkerKeepsPage ==
  ASSUME PageInv, Worker
  PROVE  PageInv'
<1> USE PageAssumption DEF PageInv
<1>1. /\ status \in Life!Final \cup {"QUEUED", "RUNNING"} /\ verdict \in BOOLEAN
      /\ stages \in 0 .. StageCount /\ scored \in BOOLEAN
      /\ deliveries \in 0 .. MaxDeliveries /\ overlapped \in BOOLEAN
  BY SnapshotIs DEF TypeOK
<1>2. /\ status' \in Life!Final \cup {"QUEUED", "RUNNING"} /\ verdict' \in BOOLEAN
      /\ stages' \in 0 .. StageCount /\ scored' \in BOOLEAN
      /\ deliveries' \in 0 .. MaxDeliveries /\ overlapped' \in BOOLEAN
      /\ overlapped => overlapped'
      /\ ~overlapped' => stages <= stages' /\ (scored => scored')
      /\ Server'
      /\ status \in Life!Final \/ deliveries > 1 => status' \in Life!Final \/ deliveries' > 1
      /\ deliveries > 1 => deliveries' > 1
      /\ UNCHANGED <<errors, page, client>>
  <2>1. CASE Deliver
    BY <1>1, <2>1 DEF Deliver, Life!Begin, Life!Final, Server
  <2>5. CASE Overlap
    BY <1>1, <2>5 DEF Overlap, Life!Final, Server
  <2>6. CASE Interfere
    <3>1. /\ stages' \in 0 .. StageCount /\ scored' \in BOOLEAN /\ verdict' \in BOOLEAN
          /\ ~scored' => stages' <= StageCount - 1
      <4>1. CASE stages' = stages /\ stages < StageCount /\ scored' = FALSE /\ verdict' = verdict
        <5>1. stages' \in 0 .. StageCount /\ stages' <= StageCount - 1
          BY <1>1, <4>1
        <5>2. scored' \in BOOLEAN /\ verdict' \in BOOLEAN
          BY <1>1, <4>1
        <5> QED BY <5>1, <5>2
      <4>2. CASE stages' = stages /\ scored' = scored /\ verdict' \in BOOLEAN
        BY <1>1, <4>2 DEF Server
      <4>3. CASE /\ stages' \in 0 .. IF scored THEN StageCount ELSE StageCount - 1
                 /\ scored' = scored /\ verdict' = verdict
        BY <1>1, <4>3
      <4> QED BY <2>6, <4>1, <4>2, <4>3 DEF Interfere
    <3>2. /\ overlapped /\ overlapped' /\ deliveries' = deliveries
          /\ status' = status \/ status' \in Life!Final
          /\ UNCHANGED <<errors, page, client>>
      BY <2>6 DEF Interfere
    <3> QED BY <1>1, <3>1, <3>2 DEF Server
  <2>2. CASE FinishStage
    BY <1>1, <2>2 DEF FinishStage, Life!Final, Server
  <2>3. CASE Score
    BY <1>1, <2>3 DEF Score, Life!Final, Server
  <2>4. CASE EndRun
    BY <1>1, <2>4 DEF EndRun, Life!End, Life!Final, Server
  <2> QED BY <2>1, <2>2, <2>3, <2>4, <2>5, <2>6 DEF Worker
<1>3. TypeOK'
  <2>1. Snapshot' \in Committed'
    BY <1>2 DEF Snapshot, Committed
  <2> QED BY <1>2, <2>1 DEF TypeOK, client
<1>4. Asked'
  BY <1>2 DEF Asked, Ended, client
<1>5. ASSUME NEW c \in Committed \cup {Nothing}, Overtaken(c)
      PROVE  Overtaken(c)'
  BY <1>1, <1>2, <1>5, CommittedIs DEF Overtaken, Behind, EndStays, Ended
<1>6. /\ report \in Committed \cup {Nothing} /\ progress \in Committed \cup {Nothing}
      /\ poll.first \in Committed \cup {Nothing} /\ pull.first \in Committed \cup {Nothing}
  BY DEF TypeOK, Request
<1>7. /\ Overtaken(report)' /\ Overtaken(progress)'
      /\ Overtaken(poll.first)' /\ Overtaken(pull.first)'
  BY <1>2, <1>5, <1>6 DEF client, Overtaken, Behind, EndStays, Ended
<1>8. Half(poll)' /\ Half(pull)'
  BY <1>2 DEF client, Half
<1> QED BY <1>2, <1>3, <1>4, <1>7, <1>8

\* A step of the page leaves the server alone, so what was overtaken stays so.
LEMMA VisitKeepsPage ==
  ASSUME PageInv, UNCHANGED server, errors' \in 0 .. MaxErrors,
         page' \in {"open", "report", "status", "shown"},
         report' \in Committed \cup {Nothing}, progress' \in Committed \cup {Nothing},
         unreachable' \in BOOLEAN, finished' \in BOOLEAN, lost' \in BOOLEAN,
         poll' \in Request, pull' \in Request,
         Half(poll'), Half(pull'), Asked',
         Overtaken(report'), Overtaken(progress'),
         Overtaken(poll'.first), Overtaken(pull'.first)
  PROVE  PageInv'
<1> USE DEF PageInv, server
<1>1. TypeOK'
  BY DEF TypeOK, Snapshot, Committed, Request
<1>2. Server'
  BY DEF Server
<1>3. Half(poll)' /\ Half(pull)'
  BY DEF Half
<1>4. /\ Overtaken(report)' /\ Overtaken(progress)'
      /\ Overtaken(poll.first)' /\ Overtaken(pull.first)'
  BY DEF Overtaken, Behind, EndStays, Ended
<1> QED BY <1>1, <1>2, <1>3, <1>4

\* A request reads the row: what is committed now.
LEMMA RowIsRead ==
  ASSUME PageInv, NEW r \in Request, NEW q, q = [r EXCEPT !.at = "half", !.first = Snapshot]
  PROVE  /\ q \in Request /\ q.at = "half" /\ q.first = Snapshot
         /\ Half(q) /\ Overtaken(q.first)
         /\ Ended(q.first) <=> status \in Life!Final
<1>1. Snapshot \in Committed /\ Snapshot # Nothing
  BY CommittedIs DEF PageInv, TypeOK
<1>2. q \in Request /\ q.at = "half" /\ q.first = Snapshot
  BY <1>1 DEF Request
<1>3. stages \in Int
  BY <1>1, SnapshotIs
<1>4. Overtaken(Snapshot) /\ (Ended(Snapshot) <=> status \in Life!Final)
  BY <1>1, <1>3, SnapshotIs DEF Overtaken, Behind, EndStays, Ended, PageInv, Server
<1> QED BY <1>1, <1>2, <1>4 DEF Half

\* A request that fails is given up, or sent again.
LEMMA RequestIsLost ==
  ASSUME PageInv, NEW r \in Request, NEW q,
         q \in {[Idle EXCEPT !.at = "given_up"]}
                 \cup IF r.failures < 2 THEN {[Sent EXCEPT !.failures = r.failures + 1]} ELSE {}
  PROVE  q \in Request /\ q.at \in {"given_up", "sent"} /\ q.first = Nothing
<1>1. r.failures \in 0 .. 2
  BY DEF Request
<1>2. r.failures < 2 => r.failures + 1 \in 0 .. 2
  BY <1>1
<1>3. CASE q = [Idle EXCEPT !.at = "given_up"]
  BY <1>3, Requests
<1>4. CASE r.failures < 2 /\ q = [Sent EXCEPT !.failures = r.failures + 1]
  BY <1>2, <1>4, Requests
<1> QED BY <1>3, <1>4

LEMMA VisitorKeepsPage ==
  ASSUME PageInv, Visit \/ PageFails \/ PollFails \/ PullFails
  PROVE  PageInv'
<1> USE PageAssumption
<1>1. /\ page \in {"open", "report", "status", "shown"} /\ errors \in 0 .. MaxErrors
      /\ report \in Committed \cup {Nothing} /\ progress \in Committed \cup {Nothing}
      /\ unreachable \in BOOLEAN /\ finished \in BOOLEAN /\ lost \in BOOLEAN
      /\ poll \in Request /\ pull \in Request
  BY DEF PageInv, TypeOK
<1>2. /\ Half(poll) /\ Half(pull) /\ Asked
      /\ Overtaken(report) /\ Overtaken(progress)
      /\ Overtaken(poll.first) /\ Overtaken(pull.first)
  BY DEF PageInv
<1>3. ASSUME NEW q \in {Idle, Sent}
      PROVE  /\ q \in Request /\ Half(q) /\ Overtaken(q.first)
             /\ q.at \in {"idle", "sent"}
  BY Requests, NothingIsBehind DEF Half
<1>4. Sent.at = "sent" /\ Idle.at = "idle"
  BY Requests
<1>5. CASE OpenPage
  <2>1. Asked'
    BY <1>2, <1>5 DEF OpenPage, Asked
  <2> QED BY <1>1, <1>2, <1>3, <1>5, <2>1, VisitKeepsPage DEF OpenPage
<1>6. CASE PageReport
  <2>1. /\ report' = Response(pull) /\ pull' = Idle /\ poll' \in {poll, Sent}
        /\ finished' = (finished \/ Ended(report'))
        /\ page' \in {"shown", "status"} /\ (finished' => page' = "shown")
        /\ UNCHANGED <<server, errors, unreachable, progress, lost>>
    BY <1>1, <1>2, <1>6 DEF PageReport, Asked
  <2>2. /\ report' \in Committed /\ Overtaken(report')
        /\ Ended(report') <=> Ended(pull.first)
    BY <1>1, <1>2, <1>6, <2>1, Answers DEF PageReport
  <2>3. finished' => Ended(report')
    BY <1>2, <1>6, <2>1 DEF PageReport, Asked
  <2>4. Asked'
    BY <1>4, <2>1, <2>2, <2>3, CommittedIs DEF Asked, server, Overtaken, EndStays
  <2>5. finished' \in BOOLEAN
    BY <1>1, <1>6 DEF PageReport
  <2> QED BY <1>1, <1>2, <1>3, <2>1, <2>2, <2>4, <2>5, VisitKeepsPage
<1>7. CASE PageStatus
  <2>1. /\ progress' = Response(poll) /\ page' = "shown" /\ poll' = Idle
        /\ finished' = Ended(progress')
        /\ pull' \in {pull, Sent} /\ (finished' => pull' = Sent)
        /\ UNCHANGED <<server, errors, report, unreachable, lost>>
    BY <1>7 DEF PageStatus
  <2>2. progress' \in Committed /\ Overtaken(progress')
    BY <1>1, <1>2, <1>7, <2>1, Answers DEF PageStatus
  <2>3. Asked'
    BY <1>2, <1>4, <1>7, <2>1, <2>2 DEF PageStatus, Asked, server, Overtaken, EndStays
  <2>4. finished' \in BOOLEAN
    BY <2>1 DEF Ended
  <2> QED BY <1>1, <1>2, <1>3, <2>1, <2>2, <2>3, <2>4, VisitKeepsPage
<1>8. CASE StartPoll
  <2>1. Asked' /\ lost' \in BOOLEAN
    BY <1>1, <1>2, <1>8 DEF StartPoll, Asked, server
  <2> QED BY <1>1, <1>2, <1>3, <1>8, <2>1, VisitKeepsPage DEF StartPoll
<1>9. CASE PollRow
  <2>1. Asked'
    BY <1>2, <1>9 DEF PollRow, Asked, server
  <2>2. poll' \in Request /\ Half(poll') /\ Overtaken(poll'.first)
    BY <1>1, <1>9, RowIsRead DEF PollRow, LoadRow
  <2> QED BY <1>1, <1>2, <1>9, <2>1, <2>2, VisitKeepsPage DEF PollRow
<1>10. CASE PollAnswers
  <2>1. /\ progress' = Response(poll) /\ lost' = FALSE /\ poll' = Idle
        /\ finished' = (finished \/ Ended(progress'))
        /\ pull' = IF Ended(progress') THEN Sent ELSE pull
        /\ page = "shown" /\ report # Nothing
        /\ UNCHANGED <<server, errors, page, report, unreachable>>
    BY <1>1, <1>10 DEF PollAnswers, Complete, Polling, View
  <2>2. progress' \in Committed /\ Overtaken(progress')
    BY <1>1, <1>2, <1>10, <2>1, Answers DEF PollAnswers
  <2>3. Asked'
    BY <1>2, <1>4, <2>1, <2>2, CommittedIs DEF Asked, server, Overtaken, EndStays
  <2>4. finished' \in BOOLEAN /\ pull' \in {pull, Sent}
    BY <1>1, <1>10, <2>1 DEF PollAnswers, Complete
  <2> QED BY <1>1, <1>2, <1>3, <2>1, <2>2, <2>3, <2>4, VisitKeepsPage
<1>11. CASE PullRow
  <2>1. pull' = [pull EXCEPT !.at = "half", !.first = Snapshot]
    BY <1>11 DEF PullRow, LoadRow
  <2>2. /\ pull' \in Request /\ pull'.at = "half" /\ Half(pull') /\ Overtaken(pull'.first)
        /\ Ended(pull'.first) <=> status \in Life!Final
    BY <1>1, <2>1, RowIsRead
  <2>3. Asked'
    BY <1>2, <1>11, <2>2 DEF PullRow, Asked, server
  <2> QED BY <1>1, <1>2, <1>11, <2>2, <2>3, VisitKeepsPage DEF PullRow
<1>12. CASE PullAnswers
  <2>1. /\ report' = Response(pull) /\ pull' = Idle /\ page = "shown" /\ pull.at = "half"
        /\ UNCHANGED <<server, errors, page, unreachable, finished, progress, lost, poll>>
    BY <1>12 DEF PullAnswers
  <2>2. /\ report' \in Committed /\ Overtaken(report')
        /\ Ended(report') <=> Ended(pull.first)
    BY <1>1, <1>2, <2>1, Answers
  <2>3. Asked'
    BY <1>2, <1>4, <2>1, <2>2, CommittedIs DEF Asked, server, Overtaken, EndStays
  <2> QED BY <1>1, <1>2, <1>3, <2>1, <2>2, <2>3, VisitKeepsPage
<1>13. ASSUME errors < MaxErrors /\ errors' = errors + 1
       PROVE  errors' \in 0 .. MaxErrors
  BY <1>1, <1>13
<1>14. CASE PageFails
  <2>1. Asked' /\ page' \in {"shown"}
    BY <1>2, <1>14 DEF PageFails, Asked
  <2> QED BY <1>1, <1>2, <1>3, <1>13, <1>14, <2>1, VisitKeepsPage DEF PageFails
<1>15. CASE PollFails
  <2>1. poll' \in Request /\ poll'.at \in {"given_up", "sent"} /\ poll'.first = Nothing
    BY <1>1, <1>15, RequestIsLost DEF PollFails, RequestFails
  <2>2. Asked' /\ lost' \in BOOLEAN
    BY <1>1, <1>2, <1>15 DEF PollFails, RequestFails, Asked, server
  <2>3. Half(poll') /\ Overtaken(poll'.first)
    BY <2>1, NothingIsBehind DEF Half
  <2> QED BY <1>1, <1>2, <1>13, <1>15, <2>1, <2>2, <2>3, VisitKeepsPage DEF PollFails, RequestFails
<1>16. CASE PullFails
  <2>1. pull' \in Request /\ pull'.at \in {"given_up", "sent"} /\ pull'.first = Nothing
    BY <1>1, <1>16, RequestIsLost DEF PullFails, RequestFails
  <2>2. Asked'
    BY <1>2, <1>16, <2>1 DEF PullFails, Asked, server
  <2>3. Half(pull') /\ Overtaken(pull'.first)
    BY <2>1, NothingIsBehind DEF Half
  <2> QED BY <1>1, <1>2, <1>13, <1>16, <2>1, <2>2, <2>3, VisitKeepsPage DEF PullFails, RequestFails
<1> QED BY <1>5, <1>6, <1>7, <1>8, <1>9, <1>10, <1>11, <1>12, <1>14, <1>15, <1>16 DEF Visit

LEMMA PageInvariant == Spec => []PageInv
<1>1. PageInv /\ UNCHANGED vars => PageInv'
  BY DEF PageInv, TypeOK, Server, Asked, Half, Overtaken, Behind, EndStays, Ended, Snapshot,
         Committed, Request, vars, server, client
<1>2. PageInv /\ [Next]_vars => PageInv'
  BY <1>1, WorkerKeepsPage, VisitorKeepsPage DEF Next
<1> QED BY PageStarts, <1>2, PTL DEF Spec

-----------------------------------------------------------------------------
(* What the visitor may rely on *)

\* The types of the page and of the requests, whatever is delivered, fails
\* and is asked again.
THEOREM PageTypes == Spec => []TypeOK
<1>1. PageInv => TypeOK
  BY DEF PageInv
<1> QED BY <1>1, PageInvariant, PTL

\* While deliveries have not overlapped, every answer of get_status and
\* get_verification that says COMPLETED comes with the verdicts, though the row is read before the claims and the worker
\* commits in between.
THEOREM AnswersAreWhole == Spec => []CompletedAnswerIsWhole
<1>1. PageInv => CompletedAnswerIsWhole
  <2> SUFFICES ASSUME PageInv, ~overlapped, NEW answer \in {report, progress} \ {Nothing}
               PROVE  answer.row.status = "COMPLETED" => answer.scored
    BY DEF CompletedAnswerIsWhole
  <2> QED BY DEF PageInv, Overtaken, Behind
<1> QED BY <1>1, PageInvariant, PTL

\* onComplete swaps the views before the report is there; the unfinished one
\* on the page then has a successor on its way, or one that failed for good,
\* or the verification was reopened.
THEOREM ReportIsReplaced == Spec => []UnfinishedIsReplaced
<1>1. PageInv => UnfinishedIsReplaced
  <2> SUFFICES ASSUME PageInv, View = "report", ~Ended(report)
               PROVE  pull.at # "idle" \/ deliveries > 1
    BY DEF UnfinishedIsReplaced
  <2>1. page = "shown" /\ report # Nothing /\ finished
    BY DEF View, PageInv, TypeOK
  <2> QED BY <2>1 DEF PageInv, Asked
<1> QED BY <1>1, PageInvariant, PTL

\* While deliveries have not overlapped, the progress a poll brings is never behind
\* the one on the page, whatever deliveries die, resume or come after the end.
THEOREM ProgressGrows == Spec => ProgressOnlyGrows
<1>1. PageInv /\ [Next]_vars => [progress # Nothing /\ ~overlapped'
                                  => progress'.stages >= progress.stages]_vars
  <2> SUFFICES ASSUME PageInv, Next, progress # Nothing, ~overlapped'
               PROVE  progress'.stages >= progress.stages
    OBVIOUS
  <2>1. /\ progress \in Committed /\ stages \in Int /\ progress.stages \in Int
        /\ ~overlapped => progress.stages <= stages
    BY CommittedIs, SnapshotIs DEF PageInv, TypeOK, Overtaken, Behind
  <2>2. CASE progress' = progress
    BY <2>1, <2>2
  <2>3. CASE PageStatus \/ PollAnswers
    <3>1. progress' = Response(poll) /\ poll.at = "half" /\ ~overlapped
      BY <2>3 DEF PageStatus, PollAnswers, server
    <3>2. poll \in Request /\ Half(poll) /\ Overtaken(poll.first)
      BY DEF PageInv, TypeOK
    <3> QED BY <2>1, <3>1, <3>2, Answers
  <2> QED BY <2>2, <2>3 DEF Next, Worker, Deliver, Overlap, Interfere, FinishStage, Score, EndRun, Visit, OpenPage,
                            PageReport, StartPoll, PollRow, PullRow, PullAnswers, PageFails,
                            PollFails, PullFails, client
<1> QED BY <1>1, PageInvariant, PTL DEF Spec, ProgressOnlyGrows
=============================================================================
