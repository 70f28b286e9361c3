--------------------- MODULE VerificationPipelineProofs ---------------------
(***************************************************************************)
(* The pipeline, for any number of deliveries, any submissions and any     *)
(* stages that may raise.  Its types hold whatever overlaps.  The rest is  *)
(* proved for deliveries that do not overlap (WorkerLoop's NoOverlap): the *)
(* session of the only active run then agrees with the database (Synced),  *)
(* its loop leaves nothing unfinished behind it that is fatal (Looped),    *)
(* and its memory knows of every stage that failed (Remembers).            *)
(***************************************************************************)
EXTENDS VerificationPipeline, TLAPS

Finished(s) == db.rows[s] \in DoneStatus
Passed(s) == Finished(s) \/ (s \notin FATAL_STAGES /\ db.rows[s] = "FAILED")
Applies(i) == Applicable(STAGE_SEQUENCE[i])

\* A run's loop has passed what lies behind it, and knows what is finished.
Looped(r) ==
  /\ \A i \in 1..12 : i < at[r] /\ Applies(i) => Passed(STAGE_SEQUENCE[i])
  /\ \A s \in done[r] : Finished(s)
  /\ \A i \in 1..12 : i >= at[r] /\ Finished(STAGE_SEQUENCE[i]) => STAGE_SEQUENCE[i] \in done[r]

\* Between the two commits of a stage.
Opened(r) ==
  rpc[r] = "open" =>
    /\ at[r] \in 1..12 /\ Applies(at[r])
    /\ db.status = "RUNNING" /\ db.rows[Here(r)] = "RUNNING"

\* What the memory of a run says about what is stored.
Remembers(r) ==
  /\ ctx[r].claims => claimSets > 0
  /\ ctx[r].degraded => db.band # "free"
  /\ ~ctx[r].degraded =>
       \A i \in 1..12 : i < at[r] /\ Applies(i) => Finished(STAGE_SEQUENCE[i])

Synced(r) == Active(r) => view[r] = db /\ Looped(r) /\ Opened(r) /\ Remembers(r)
Unborn(r) == rpc[r] = "new" => at[r] = 1 /\ ctx[r] = EmptyContext
Alone == \A q, r \in Run : Active(q) /\ Active(r) => q = r

Scored ==
  /\ db.verdict # "none" => Finished("SCORING") /\ claimSets > 0
  /\ db.band = "free" => \A i \in 1..11 : Applies(i) => Finished(STAGE_SEQUENCE[i])

Unfinished == \E i \in 1..12 : Applies(i) /\ ~Passed(STAGE_SEQUENCE[i])

Reported ==
  /\ db.status \in {"QUEUED", "FAILED"} => Unfinished
  /\ db.status = "COMPLETED" => ~Unfinished /\ DegradedIsCapped
  /\ FailureIsNotAVerdict

PipelineInv ==
  /\ TypeOK
  /\ Alone /\ (\A r \in Run : Synced(r) /\ Unborn(r))
  /\ Scored /\ Reported

-----------------------------------------------------------------------------
(* The stages and their handlers *)

LEMMA Sequence ==
  /\ \A i \in 1..12 : STAGE_SEQUENCE[i] \in Stage
  /\ \A s \in Stage : \E i \in 1..12 : s = STAGE_SEQUENCE[i]
  /\ \A i, j \in 1..12 : STAGE_SEQUENCE[i] = STAGE_SEQUENCE[j] => i = j
  /\ STAGE_SEQUENCE[1] = "NORMALIZING" /\ STAGE_SEQUENCE[5] = "EXTRACTING_CLAIMS"
  /\ STAGE_SEQUENCE[11] = "SCORING" /\ STAGE_SEQUENCE[12] = "GENERATING_REPORT"
BY DEF STAGE_SEQUENCE, Stage

\* What every handler that returns keeps to.
Keeps(s, x, y) ==
  /\ y \in Context
  /\ x.degraded => y.degraded
  /\ x.claims => y.claims
  /\ y.claims /\ ~x.claims => s = "EXTRACTING_CLAIMS"
  /\ s \in {"SCORING", "GENERATING_REPORT"} => y = x

LEMMA HandlerReturns ==
  ASSUME NEW s \in Stage, NEW x \in Context, NEW o \in Returns(s, x)
  PROVE  o.row \in DoneStatus /\ Keeps(s, x, o.ctx)
<1>1. Keeps(s, x, x)
  BY DEF Keeps
<1>2. s \notin {"SCORING", "GENERATING_REPORT"} =>
        /\ Keeps(s, x, Degrade(x))
        /\ \A b \in BOOLEAN : Keeps(s, x, [x EXCEPT !.text = b])
        /\ \A b \in BOOLEAN : Keeps(s, x, [x EXCEPT !.queries = b])
        /\ Keeps(s, x, [x EXCEPT !.documents = TRUE])
        /\ Keeps(s, x, Degrade([x EXCEPT !.documents = TRUE]))
        /\ Keeps(s, x, [x EXCEPT !.evidence = TRUE])
  BY DEF Keeps, Degrade, Context
<1>3. s = "EXTRACTING_CLAIMS" => Keeps(s, x, [x EXCEPT !.claims = TRUE])
  BY DEF Keeps, Context
<1>4. x.claims \in BOOLEAN
  BY DEF Context
<1> SUFFICES \E y : Keeps(s, x, y) /\ (o = Ok(y) \/ o = Degraded(y))
  BY DEF Ok, Degraded, DoneStatus
<1>5. CASE s = "NORMALIZING"
  <2>1. Returns(s, x) = Normalizing(x)
    BY <1>5 DEF Returns
  <2>2. ("text" \in shape) \in BOOLEAN
    OBVIOUS
  <2> QED BY <1>2, <1>5, <2>1, <2>2 DEF Normalizing
<1>6. CASE s = "EXTRACTING_CONTENT"
  <2>1. Returns(s, x) = ExtractingContent(x)
    BY <1>6 DEF Returns
  <2> QED BY <1>1, <1>2, <1>6, <2>1 DEF ExtractingContent
<1>7. CASE s = "ANALYZING_MEDIA"
  <2>1. Returns(s, x) = AnalyzingMedia(x)
    BY <1>7 DEF Returns
  <2> QED BY <1>1, <1>2, <1>7, <2>1 DEF AnalyzingMedia
<1>8. CASE s = "EXTRACTING_CLAIMS"
  <2>1. Returns(s, x) = ExtractingClaims(x)
    BY <1>8 DEF Returns
  <2> QED BY <1>2, <1>3, <1>8, <2>1 DEF ExtractingClaims
<1>9. CASE s = "GENERATING_QUERIES"
  <2>1. Returns(s, x) = GeneratingQueries(x)
    BY <1>9 DEF Returns
  <2> QED BY <1>2, <1>4, <1>9, <2>1 DEF GeneratingQueries
<1>10. CASE s = "RETRIEVING_EVIDENCE"
  <2>1. Returns(s, x) = RetrievingEvidence(x)
    BY <1>10 DEF Returns
  <2>2. CASE x.queries
    <3> DEFINE y == [x EXCEPT !.documents = TRUE]
    <3>1. o \in {Ok(y), Ok(Degrade(y))}
      BY <2>1, <2>2 DEF RetrievingEvidence
    <3>2. Keeps(s, x, y) /\ Keeps(s, x, Degrade(y))
      BY <1>2, <1>10
    <3> HIDE DEF y
    <3> QED BY <3>1, <3>2
  <2> QED BY <1>1, <2>1, <2>2 DEF RetrievingEvidence
<1>11. CASE s = "EXTRACTING_EVIDENCE"
  <2>1. Returns(s, x) = ExtractingEvidence(x)
    BY <1>11 DEF Returns
  <2> QED BY <1>1, <1>2, <1>11, <2>1 DEF ExtractingEvidence
<1>12. CASE s = "SCORING"
  <2>1. Returns(s, x) = Scoring(x)
    BY <1>12 DEF Returns
  <2> QED BY <1>1, <2>1 DEF Scoring
<1>13. CASE s \notin {"NORMALIZING", "EXTRACTING_CONTENT", "ANALYZING_MEDIA",
                      "EXTRACTING_CLAIMS", "GENERATING_QUERIES", "RETRIEVING_EVIDENCE",
                      "EXTRACTING_EVIDENCE", "SCORING"}
  <2>1. Returns(s, x) = {Ok(x)}
    BY <1>13 DEF Returns
  <2> QED BY <1>1, <2>1
<1> QED BY <1>5, <1>6, <1>7, <1>8, <1>9, <1>10, <1>11, <1>12, <1>13

LEMMA HandlerRaises ==
  ASSUME NEW s, NEW x \in Context, NEW y \in Partly(s, x)
  PROVE  y \in Context /\ Degrade(y) \in Context /\ y.claims = x.claims
         /\ Degrade(y).claims = x.claims /\ Degrade(y).degraded
BY DEF Partly, Context, Degrade

LEMMA RowsWritten ==
  ASSUME NEW s, NEW v \in Row, NEW x \in Context, NEW w \in Written(s, v, x)
  PROVE  /\ w \in Row /\ w.rows = v.rows /\ w.status = v.status
         /\ s # "SCORING" => w.verdict = v.verdict /\ w.band = v.band
         /\ s = "SCORING" => /\ x.claims \/ w.verdict = "none"
                             /\ w.band = "free" <=> x.claims /\ ~x.degraded
<1>1. CASE s = "SCORING"
  <2>1. w \in ScoredRows(v, x)
    BY <1>1 DEF Written
  <2>2. CASE x.claims
    <3>1. PICK u \in {"unverified", "substantive"} :
            w = [v EXCEPT !.verdict = u, !.band = IF x.degraded THEN "capped" ELSE "free"]
      BY <2>1, <2>2 DEF ScoredRows
    <3> QED BY <1>1, <2>2, <3>1 DEF Row, Context
  <2>3. CASE ~x.claims
    <3>1. w = [v EXCEPT !.verdict = "none", !.band = "none"]
      BY <2>1, <2>3 DEF ScoredRows
    <3> QED BY <1>1, <2>3, <3>1 DEF Row, Context
  <2> QED BY <2>2, <2>3
<1>2. CASE s = "GENERATING_REPORT"
  <2>1. w = ReportedRow(v, x)
    BY <1>2 DEF Written
  <2> QED BY <1>2, <2>1 DEF ReportedRow, Row
<1>3. CASE s \notin {"SCORING", "GENERATING_REPORT"}
  BY <1>3 DEF Written
<1> QED BY <1>1, <1>2, <1>3

-----------------------------------------------------------------------------
(* What a commit makes of the row, and the types it keeps *)

LEMMA MergeSynced ==
  ASSUME db \in Row, NEW new \in Row
  PROVE  Merge(db, new) = new
<1>1. DOMAIN db = DOMAIN new
  BY DEF Row
<1>2. ASSUME NEW f \in DOMAIN db PROVE Merge(db, new)[f] = new[f]
  <2>1. CASE f = "rows"
    BY <2>1 DEF Merge, Row
  <2>2. CASE f # "rows"
    BY <1>2, <2>2 DEF Merge
  <2> QED BY <2>1, <2>2
<1>3. Merge(db, new) = [f \in DOMAIN new |-> new[f]]
  BY <1>1, <1>2 DEF Merge
<1>4. new = [f \in DOMAIN new |-> new[f]]
  BY DEF Row
<1> QED BY <1>3, <1>4

LEMMA MergeCompleted ==
  ASSUME db \in Row, NEW x
  PROVE  Merge([db EXCEPT !.status = "RUNNING"], CompletedRow(db, x)) = CompletedRow(db, x)
BY DEF Merge, CompletedRow, Row

LEMMA MergeType ==
  ASSUME db \in Row, NEW old, NEW new \in Row
  PROVE  Merge(old, new) \in Row
<1>1. DOMAIN db = {"status", "current", "verdict", "band", "summary", "degraded", "error", "rows"}
  BY DEF Row
<1> DEFINE m == Merge(old, new)
<1>2. m = [status |-> m.status, current |-> m.current, verdict |-> m.verdict, band |-> m.band,
           summary |-> m.summary, degraded |-> m.degraded, error |-> m.error, rows |-> m.rows]
  BY <1>1 DEF Merge
<1>3. m.rows \in [Stage -> RowStatus]
  BY <1>1 DEF Merge, Row
<1>4. /\ m.status \in {new.status, db.status} /\ m.current \in {new.current, db.current}
      /\ m.verdict \in {new.verdict, db.verdict} /\ m.band \in {new.band, db.band}
      /\ m.summary \in {new.summary, db.summary} /\ m.degraded \in {new.degraded, db.degraded}
      /\ m.error \in {new.error, db.error}
  BY <1>1 DEF Merge
<1> SUFFICES m \in Row
  OBVIOUS
<1> HIDE DEF m
<1>5. /\ m.status \in {"QUEUED", "RUNNING"} \cup Final
      /\ m.current \in Stage \cup {"QUEUED"} \cup Final
      /\ m.verdict \in {"none", "unverified", "substantive"}
      /\ m.band \in {"none", "capped", "free"} /\ m.summary \in {"none", "no_claims", "claims"}
      /\ m.error \in Cause
  BY <1>4 DEF Row
<1>6. m.degraded \in BOOLEAN
  BY <1>4 DEF Row
<1> QED BY <1>2, <1>3, <1>5, <1>6 DEF Row

\* Also with overlapping runs: columns that differ are of the row's types.
StageInHand == \A r \in Run : rpc[r] = "open" => at[r] \in 1..12

LEMMA CommitTypes ==
  ASSUME TypeOK, NEW r \in Run, NEW old, NEW new \in Row, Commit(r, old, new)
  PROVE  db' \in Row /\ view' \in [Run -> Row]
BY MergeType DEF Commit, TypeOK

LEMMA InsertTypes ==
  ASSUME TypeOK, NEW r \in Run, NEW x \in Context, Inserts(r, x)
  PROVE  claimSets' \in Nat /\ evidence' \in BOOLEAN
<1>1. claimSets' \in Nat
  BY DEF Inserts, TypeOK
<1>2. evidence \in BOOLEAN /\ x.evidence \in BOOLEAN
  BY DEF TypeOK, Context
<1>3. evidence' \in BOOLEAN
  BY <1>2 DEF Inserts
<1> QED BY <1>1, <1>3

LEMMA EndsTypes ==
  ASSUME TypeOK, NEW r \in Run, NEW how \in {"returned", "abandoned"}, Ends(r, how),
         db' \in Row, shape' = shape, claimSets' \in Nat, evidence' = evidence
  PROVE  /\ TypeOK' /\ ~Active(r)' /\ rpc'[r] # "new"
         /\ \A q \in Run \ {r} : rpc'[q] = rpc[q] /\ at'[q] = at[q] /\ ctx'[q] = ctx[q]
<1>1. QueuedRow \in Row
  BY DEF QueuedRow, Row, RowStatus, Cause
<1>2. EmptyContext \in Context
  BY DEF EmptyContext, Context
<1> QED BY <1>1, <1>2 DEF TypeOK, Ends, Active

LEMMA TypesInit == Init => TypeOK /\ StageInHand
<1> SUFFICES ASSUME Init PROVE TypeOK /\ StageInHand
  OBVIOUS
<1>1. QueuedRow \in Row /\ EmptyContext \in Context
  BY DEF QueuedRow, EmptyContext, Row, Context, RowStatus, Cause
<1>2. view \in [Run -> Row] /\ ctx \in [Run -> Context]
  BY <1>1 DEF Init
<1>3. rpc \in [Run -> {"new", "ready", "open", "returned", "abandoned"}]
      /\ at \in [Run -> 1..13] /\ done \in [Run -> SUBSET Stage]
  BY DEF Init
<1> QED BY <1>1, <1>2, <1>3 DEF Init, TypeOK, StageInHand

LEMMA TypesStep == TypeOK /\ StageInHand /\ [Next]_vars => TypeOK' /\ StageInHand'
<1> SUFFICES ASSUME TypeOK, StageInHand, [Next]_vars PROVE TypeOK' /\ StageInHand'
  OBVIOUS
<1>1. ASSUME NEW r \in Run, Start(r) PROVE TypeOK' /\ StageInHand'
  <2>1. {s \in Stage : db.rows[s] \in DoneStatus} \in SUBSET Stage
    OBVIOUS
  <2> QED BY <1>1, <2>1 DEF TypeOK, Start, stored, StageInHand
<1>2. ASSUME NEW r \in Run, OpenStage(r) PROVE TypeOK' /\ StageInHand'
  <2> DEFINE S(i) == STAGE_SEQUENCE[i]
             Old(i) == [view[r] EXCEPT !.rows[S(i)] = IF @ = "absent" THEN db.rows[S(i)] ELSE @]
             New(i) == [Old(i) EXCEPT !.status = "RUNNING", !.current = S(i), !.rows[S(i)] = "RUNNING"]
  <2>1. PICK i \in 1..12 : Commit(r, Old(i), New(i)) /\ rpc' = [rpc EXCEPT ![r] = "open"]
          /\ at' = [at EXCEPT ![r] = i] /\ UNCHANGED <<shape, claimSets, evidence, done, ctx>>
    BY <1>2 DEF OpenStage
  <2>2. view[r] \in Row /\ db \in Row /\ S(i) \in Stage
    BY Sequence DEF TypeOK
  <2>3. Old(i) \in Row
    BY <2>2 DEF Row
  <2>4. New(i) \in Row
    BY <2>2, <2>3 DEF Row, RowStatus
  <2> HIDE DEF Old, New
  <2>5. db' \in Row /\ view' \in [Run -> Row]
    BY <2>1, <2>4, CommitTypes
  <2>6. rpc' \in [Run -> {"new", "ready", "open", "returned", "abandoned"}] /\ at' \in [Run -> 1..13]
    BY <2>1 DEF TypeOK
  <2>7. StageInHand'
    BY <2>1 DEF TypeOK, StageInHand
  <2> QED BY <2>1, <2>5, <2>6, <2>7 DEF TypeOK
<1>3. ASSUME NEW r \in Run, StageReturns(r) \/ StageDegrades(r) PROVE TypeOK' /\ StageInHand'
  <2>1. ctx[r] \in Context /\ view[r] \in Row /\ at[r] \in 1..12 /\ Here(r) \in Stage
    BY <1>3, Sequence DEF StageReturns, StageDegrades, TypeOK, StageInHand, Here
  <2>2. \A v \in Row, w \in RowStatus : [v EXCEPT !.rows[Here(r)] = w] \in Row
    BY DEF Row
  <2>3. \E x \in Context : Inserts(r, x)
    BY <1>3, <2>1, HandlerReturns, HandlerRaises DEF StageReturns, StageDegrades, Keeps
  <2>4. \E x \in Context : ctx' = [ctx EXCEPT ![r] = x]
    BY <1>3, <2>1, HandlerReturns, HandlerRaises DEF StageReturns, StageDegrades, Keeps
  <2>5. \E new \in Row : Commit(r, view[r], new)
    <3>1. CASE StageReturns(r)
      <4>1. PICK o \in Returns(Here(r), ctx[r]) :
              \E v \in Written(Here(r), view[r], o.ctx) :
                Commit(r, view[r], [v EXCEPT !.rows[Here(r)] = o.row])
        BY <3>1 DEF StageReturns
      <4>2. o.row \in RowStatus /\ o.ctx \in Context
        BY <2>1, HandlerReturns DEF Keeps, RowStatus
      <4> QED BY <2>1, <2>2, <4>1, <4>2, RowsWritten
    <3>2. CASE StageDegrades(r)
      BY <2>1, <2>2, <3>2 DEF StageDegrades, RowStatus
    <3> QED BY <1>3, <3>1, <3>2
  <2>6. /\ rpc' = [rpc EXCEPT ![r] = "ready"] /\ at' = [at EXCEPT ![r] = @ + 1]
        /\ UNCHANGED <<shape, done>>
    BY <1>3 DEF StageReturns, StageDegrades
  <2>7. db' \in Row /\ view' \in [Run -> Row] /\ ctx' \in [Run -> Context]
    BY <2>4, <2>5, CommitTypes DEF TypeOK
  <2>8. claimSets' \in Nat /\ evidence' \in BOOLEAN
    BY <2>3, InsertTypes
  <2>9. rpc' \in [Run -> {"new", "ready", "open", "returned", "abandoned"}] /\ at' \in [Run -> 1..13]
    BY <2>1, <2>6 DEF TypeOK
  <2>10. StageInHand'
    BY <2>1, <2>6 DEF TypeOK, StageInHand
  <2> QED BY <2>6, <2>7, <2>8, <2>9, <2>10 DEF TypeOK
<1>4. ASSUME NEW r \in Run, StageFails(r) PROVE TypeOK' /\ StageInHand'
  <2>1. /\ ctx[r].degraded \in BOOLEAN /\ view[r] \in Row /\ db \in Row /\ Here(r) \in Stage
    BY <1>4, Sequence DEF StageFails, TypeOK, Context, StageInHand, Here
  <2>2. PICK cause \in Raises(Here(r), ctx[r]) :
          db' = Merge(view[r], FailedRow([view[r] EXCEPT !.rows[Here(r)] = "FAILED"], ctx[r], cause))
    BY <1>4 DEF StageFails
  <2>3. cause \in Cause
    BY DEF Raises, Cause
  <2>4. FailedRow([view[r] EXCEPT !.rows[Here(r)] = "FAILED"], ctx[r], cause) \in Row
    BY <2>1, <2>3 DEF FailedRow, Row, RowStatus, Final
  <2>5. db' \in Row
    BY <2>1, <2>2, <2>4, MergeType
  <2>6. claimSets' \in Nat
    BY <1>4 DEF StageFails, TypeOK
  <2> QED BY <1>4, <2>5, <2>6, EndsTypes DEF StageFails, StageInHand, Ends, TypeOK
<1>5. ASSUME NEW r \in Run, Complete(r) PROVE TypeOK' /\ StageInHand'
  <2>1. /\ ctx[r].degraded \in BOOLEAN /\ view[r] \in Row /\ db \in Row
    BY DEF TypeOK, Context
  <2>2. CompletedRow(view[r], ctx[r]) \in Row
    BY <2>1 DEF CompletedRow, Row, Final
  <2>3. db' \in Row
    BY <1>5, <2>1, <2>2, MergeType DEF Complete
  <2> QED BY <1>5, <2>3, EndsTypes DEF Complete, StageInHand, Ends, TypeOK
<1>6. ASSUME NEW r \in Run, Abandon(r) PROVE TypeOK' /\ StageInHand'
  BY <1>6, EndsTypes DEF Abandon, stored, StageInHand, Ends, TypeOK
<1>7. CASE UNCHANGED vars
  BY <1>7 DEF vars, stored, sessions, TypeOK, StageInHand
<1> QED BY <1>1, <1>2, <1>3, <1>4, <1>5, <1>6, <1>7 DEF Next, Advance

\* Whatever deliveries overlap and whatever they write over each other's columns, the rows
\* stay rows of their tables (models/verification.py:60-140).
THEOREM PipelineTypes == Spec => []TypeOK
<1>1. TypeOK /\ StageInHand /\ [Next]_vars => TypeOK' /\ StageInHand'
  BY TypesStep
<1> QED BY <1>1, TypesInit, PTL DEF Spec

-----------------------------------------------------------------------------
(* The steps of a run that is alone *)

LEMMA OneRow ==
  ASSUME db \in Row, NEW i \in 1..12, NEW w \in RowStatus,
         db'.rows = [db.rows EXCEPT ![STAGE_SEQUENCE[i]] = w], shape' = shape
  PROVE  /\ \A k \in 1..12 : k # i =>
              /\ Finished(STAGE_SEQUENCE[k])' <=> Finished(STAGE_SEQUENCE[k])
              /\ Passed(STAGE_SEQUENCE[k])' <=> Passed(STAGE_SEQUENCE[k])
         /\ \A k : Applies(k)' <=> Applies(k)
         /\ db'.rows[STAGE_SEQUENCE[i]] = w
         /\ Finished(STAGE_SEQUENCE[i])' <=> w \in DoneStatus
<1>1. db.rows \in [Stage -> RowStatus]
  BY DEF Row
<1>2. \A k \in 1..12 : k # i => db'.rows[STAGE_SEQUENCE[k]] = db.rows[STAGE_SEQUENCE[k]]
  BY <1>1, Sequence
<1>3. db'.rows[STAGE_SEQUENCE[i]] = w
  BY <1>1, Sequence
<1>4. \A k : Applies(k)' <=> Applies(k)
  BY DEF Applies, Applicable, HasMedia
<1> QED BY <1>2, <1>3, <1>4 DEF Finished, Passed

\* Nothing but the active run's own part of the invariant can be disturbed.
LEMMA RunStep ==
  ASSUME PipelineInv, NEW r \in Run, Active(r), TypeOK',
         \A q \in Run \ {r} : rpc'[q] = rpc[q] /\ at'[q] = at[q] /\ ctx'[q] = ctx[q],
         rpc'[r] # "new", Active(r)' => Synced(r)', Scored', Reported'
  PROVE  PipelineInv'
<1>1. \A q \in Run \ {r} : ~Active(q) /\ ~Active(q)'
  BY DEF PipelineInv, Alone, Active
<1>2. Alone'
  BY <1>1 DEF Alone
<1>3. \A q \in Run : Synced(q)'
  BY <1>1 DEF Synced
<1>4. \A q \in Run : Unborn(q)'
  BY DEF PipelineInv, Unborn
<1> QED BY <1>2, <1>3, <1>4 DEF PipelineInv

LEMMA StartStep ==
  ASSUME ~Overlap, PipelineInv, NEW r \in Run, Start(r)
  PROVE  PipelineInv'
<1>1. TypeOK'
  <2>1. {s \in Stage : db.rows[s] \in DoneStatus} \in SUBSET Stage
    OBVIOUS
  <2> QED BY <2>1 DEF PipelineInv, TypeOK, Start, stored
<1>2. \A q \in Run : ~Active(q)
  BY DEF Start
<1>3. \A q \in Run \ {r} : ~Active(q)' /\ (Unborn(q) => Unborn(q)')
  BY <1>2 DEF Start, Active, Unborn, PipelineInv, TypeOK
<1>4. Alone' /\ \A q \in Run \ {r} : Synced(q)'
  BY <1>3 DEF Alone, Synced
<1>5. rpc'[r] = "ready" /\ view'[r] = db /\ at'[r] = 1 /\ ctx'[r] = EmptyContext
      /\ done'[r] = {s \in Stage : Finished(s)} /\ db' = db /\ claimSets' = claimSets /\ shape' = shape
  BY DEF PipelineInv, TypeOK, Start, Unborn, stored, Finished
<1>6. Synced(r)' /\ Unborn(r)'
  <2>1. Looped(r)'
    BY <1>5, Sequence DEF Looped, Finished
  <2>2. Remembers(r)' /\ Opened(r)'
    BY <1>5 DEF Remembers, EmptyContext, Opened
  <2> QED BY <1>5, <2>1, <2>2 DEF Synced, Unborn
<1>7. Scored' /\ Reported'
  BY <1>5 DEF PipelineInv, Scored, Reported, Finished, Applies, Applicable, HasMedia,
              Unfinished, Passed, DegradedIsCapped, FailureIsNotAVerdict
<1> QED BY <1>1, <1>3, <1>4, <1>6, <1>7 DEF PipelineInv

LEMMA OpenStep ==
  ASSUME PipelineInv, NEW r \in Run, OpenStage(r)
  PROVE  /\ PipelineInv'
         /\ \E i \in 1..12 : /\ ~Finished(STAGE_SEQUENCE[i])
                              /\ db'.rows = [db.rows EXCEPT ![STAGE_SEQUENCE[i]] = "RUNNING"]
         /\ db'.status = "RUNNING" /\ claimSets' = claimSets
<1> DEFINE S(i) == STAGE_SEQUENCE[i]
           Old(i) == [view[r] EXCEPT !.rows[S(i)] = IF @ = "absent" THEN db.rows[S(i)] ELSE @]
           New(i) == [db EXCEPT !.status = "RUNNING", !.current = S(i), !.rows[S(i)] = "RUNNING"]
<1>1. PICK i \in 1..12 :
        /\ rpc[r] = "ready" /\ IsNext(r, i)
        /\ Commit(r, Old(i), [Old(i) EXCEPT !.status = "RUNNING", !.current = S(i),
                                           !.rows[S(i)] = "RUNNING"])
        /\ rpc' = [rpc EXCEPT ![r] = "open"] /\ at' = [at EXCEPT ![r] = i]
        /\ UNCHANGED <<shape, claimSets, evidence, done, ctx>>
  BY DEF OpenStage
<1>2. /\ TypeOK /\ db \in Row /\ Active(r) /\ view[r] = db /\ Looped(r) /\ Remembers(r)
      /\ at[r] \in 1..13 /\ rpc[r] = "ready" /\ S(i) \in Stage
      /\ db.rows \in [Stage -> RowStatus]
  BY <1>1, Sequence DEF PipelineInv, TypeOK, Synced, Active, Row
<1>3. Old(i) = db
  BY <1>2 DEF Row
<1>4. New(i) \in Row
  BY <1>2 DEF Row, RowStatus
<1>5. db' = New(i) /\ view' = [view EXCEPT ![r] = New(i)]
  BY <1>1, <1>3, <1>4, <1>2, MergeSynced DEF Commit
<1>6. /\ db'.rows = [db.rows EXCEPT ![S(i)] = "RUNNING"]
      /\ db'.status = "RUNNING" /\ db'.verdict = db.verdict /\ db'.band = db.band
  BY <1>2, <1>5 DEF Row
<1>7. i >= at[r] /\ Applies(i) /\ S(i) \notin done[r]
      /\ \A k \in 1..12 : at[r] <= k /\ k < i /\ Applies(k) => S(k) \in done[r]
  BY <1>1, <1>2 DEF IsNext, Todo, Applies
<1>8. ~Finished(S(i))
  BY <1>2, <1>7 DEF Looped
<1>9. TypeOK'
  BY <1>1, <1>2, <1>4, <1>5 DEF TypeOK
<1> HIDE DEF New, Old
<1>10. /\ \A k \in 1..12 : k # i =>
              /\ Finished(S(k))' <=> Finished(S(k))
              /\ Passed(S(k))' <=> Passed(S(k))
       /\ \A k : Applies(k)' <=> Applies(k)
       /\ ~Finished(S(i))'
  <2>1. "RUNNING" \in RowStatus /\ "RUNNING" \notin DoneStatus
    BY DEF RowStatus, DoneStatus
  <2> QED BY <1>1, <1>2, <1>6, <2>1, OneRow
<1>11. /\ rpc'[r] = "open" /\ at'[r] = i /\ done'[r] = done[r] /\ ctx'[r] = ctx[r]
       /\ view'[r] = db' /\ claimSets' = claimSets
  BY <1>1, <1>2, <1>5 DEF TypeOK
<1>12. Looped(r)'
  <2>1. \A k \in 1..12 : k < i /\ Applies(k) => Passed(S(k))
    BY <1>2, <1>7 DEF Looped, Passed
  <2>2. \A s \in done[r] : Finished(s)'
    <3> SUFFICES ASSUME NEW s \in done[r] PROVE Finished(s)'
      OBVIOUS
    <3>1. PICK k \in 1..12 : s = S(k)
      BY <1>2, Sequence DEF TypeOK
    <3> QED BY <1>2, <1>7, <1>10, <3>1 DEF Looped
  <2>3. \A k \in 1..12 : k >= i /\ Finished(S(k))' => S(k) \in done[r]
    BY <1>2, <1>7, <1>10 DEF Looped
  <2> QED BY <1>10, <1>11, <2>1, <2>2, <2>3 DEF Looped
<1>13. Opened(r)'
  BY <1>2, <1>6, <1>7, <1>10, <1>11 DEF Opened, Here
<1>14. Remembers(r)'
  <2>1. \A k \in 1..12 : k < i /\ Applies(k) /\ ~ctx[r].degraded => Finished(S(k))
    BY <1>2, <1>7 DEF Looped, Remembers
  <2> QED BY <1>2, <1>6, <1>10, <1>11, <2>1 DEF Remembers
<1>15. Scored'
  <2>1. db.band # "free" \/ i = 12
    BY <1>7, <1>8 DEF PipelineInv, Scored
  <2>2. db.verdict # "none" => i # 11
    BY <1>8, Sequence DEF PipelineInv, Scored
  <2>3. Finished(S(11)) => Finished(S(11))' \/ i = 11
    BY <1>10
  <2>4. \A k \in 1..11 : i = 12 => (Finished(S(k))' <=> Finished(S(k)))
    BY <1>10
  <2> QED BY <1>6, <1>10, <1>11, <2>1, <2>2, <2>3, <2>4, Sequence DEF PipelineInv, Scored
<1>16. Reported'
  BY <1>6 DEF Reported, FailureIsNotAVerdict
<1>17. PipelineInv'
  <2>1. \A q \in Run \ {r} : rpc'[q] = rpc[q] /\ at'[q] = at[q] /\ ctx'[q] = ctx[q]
    BY <1>1, <1>2 DEF TypeOK
  <2> QED BY <1>2, <1>9, <1>11, <1>12, <1>13, <1>14, <1>15, <1>16, <2>1, RunStep DEF Synced
<1> QED BY <1>1, <1>6, <1>8, <1>17

\* A stage is closed, in whichever way the loop goes on.
LEMMA CloseStep ==
  ASSUME PipelineInv, NEW r \in Run, rpc[r] = "open",
         NEW w \in DoneStatus \cup {"FAILED"}, NEW v \in Row, NEW x \in Context,
         v.rows = db.rows, v.status = "RUNNING",
         db' = [v EXCEPT !.rows[Here(r)] = w], view' = [view EXCEPT ![r] = db'],
         rpc' = [rpc EXCEPT ![r] = "ready"], at' = [at EXCEPT ![r] = @ + 1],
         ctx' = [ctx EXCEPT ![r] = x], UNCHANGED <<shape, done>>,
         claimSets' \in Nat, claimSets' >= claimSets, evidence' \in BOOLEAN,
         w = "FAILED" => Here(r) \notin FATAL_STAGES /\ x.degraded,
         ctx[r].degraded => x.degraded, x.claims => claimSets' > 0,
         Here(r) = "GENERATING_REPORT" => x = ctx[r],
         Here(r) # "SCORING" => v.verdict = db.verdict /\ v.band = db.band,
         Here(r) = "SCORING" => /\ x.claims \/ v.verdict = "none"
                                /\ v.band = "free" => ~x.degraded
  PROVE  PipelineInv'
<1> DEFINE S(k) == STAGE_SEQUENCE[k]
<1>0. PICK i \in 1..12 : i = at[r]
  BY DEF PipelineInv, Synced, Active, Opened
<1>1. /\ TypeOK /\ db \in Row /\ Active(r) /\ view[r] = db
      /\ Looped(r) /\ Remembers(r) /\ Opened(r)
      /\ at[r] = i /\ Applies(i) /\ Here(r) = S(i) /\ S(i) \in Stage
      /\ db.rows \in [Stage -> RowStatus] /\ db.rows[S(i)] = "RUNNING"
  BY <1>0, Sequence DEF PipelineInv, TypeOK, Synced, Active, Opened, Row, Here
<1>2. w \in RowStatus
  BY DEF RowStatus
<1>3. /\ db' \in Row /\ db'.rows = [db.rows EXCEPT ![S(i)] = w] /\ db'.status = "RUNNING"
      /\ db'.verdict = v.verdict /\ db'.band = v.band
  BY <1>1, <1>2 DEF Row
<1>4. TypeOK'
  BY <1>1, <1>3 DEF TypeOK
<1>5. ~Finished(S(i))
  BY <1>1 DEF Finished, DoneStatus
<1>6. /\ \A k \in 1..12 : k # i =>
             /\ Finished(S(k))' <=> Finished(S(k))
             /\ Passed(S(k))' <=> Passed(S(k))
      /\ \A k : Applies(k)' <=> Applies(k)
      /\ Finished(S(i))' <=> w \in DoneStatus
      /\ db'.rows[S(i)] = w
  BY <1>1, <1>2, <1>3, OneRow
<1>7. /\ rpc'[r] = "ready" /\ at'[r] = i + 1 /\ done'[r] = done[r] /\ ctx'[r] = x
      /\ view'[r] = db'
  BY <1>1 DEF TypeOK
<1>8. Passed(S(i))'
  BY <1>1, <1>6 DEF Passed
<1>9. Looped(r)'
  <2>1. \A k \in 1..12 : k < i + 1 /\ Applies(k) => Passed(S(k))'
    BY <1>1, <1>6, <1>8 DEF Looped
  <2>2. \A s \in done[r] : Finished(s)'
    <3> SUFFICES ASSUME NEW s \in done[r] PROVE Finished(s)'
      OBVIOUS
    <3>1. PICK k \in 1..12 : s = S(k)
      BY <1>1, Sequence DEF TypeOK
    <3> QED BY <1>1, <1>5, <1>6, <3>1 DEF Looped
  <2>3. \A k \in 1..12 : k >= i + 1 /\ Finished(S(k))' => S(k) \in done[r]
    BY <1>1, <1>6 DEF Looped
  <2> QED BY <1>6, <1>7, <2>1, <2>2, <2>3 DEF Looped
<1>10. i \in 1..11 => db.band # "free"
  BY <1>1, <1>5 DEF PipelineInv, Scored
<1>11. Remembers(r)'
  <2>1. x.degraded => db'.band # "free"
    BY <1>1, <1>3, <1>10, Sequence DEF Remembers
  <2>2. \A k \in 1..12 : k < i + 1 /\ Applies(k) /\ ~x.degraded => Finished(S(k))'
    BY <1>1, <1>6 DEF Remembers
  <2> QED BY <1>6, <1>7, <2>1, <2>2 DEF Remembers
<1>12. Scored'
  <2>1. CASE i = 11
    <3>1. db'.band = "free" => \A k \in 1..11 : Applies(k) => Finished(S(k))'
      BY <1>1, <1>3, <1>6, <2>1, Sequence DEF Remembers
    <3>2. Finished("SCORING")'
      BY <1>1, <1>6, <2>1, Sequence DEF FATAL_STAGES
    <3> QED BY <1>1, <1>3, <1>6, <2>1, <3>1, <3>2, Sequence DEF Scored
  <2>2. CASE i # 11
    <3>1. db'.verdict = db.verdict /\ db'.band = db.band
      BY <1>1, <1>3, <2>2, Sequence
    <3>2. Finished("SCORING")' <=> Finished("SCORING")
      BY <1>6, <2>2, Sequence
    <3>3. db.band = "free" => \A k \in 1..11 : Finished(S(k))' <=> Finished(S(k))
      BY <1>1, <1>6, <1>10
    <3> QED BY <1>1, <1>6, <3>1, <3>2, <3>3 DEF PipelineInv, Scored, TypeOK
  <2> QED BY <2>1, <2>2
<1>13. Reported'
  BY <1>3 DEF Reported, FailureIsNotAVerdict
<1>14. Synced(r)' /\ rpc'[r] # "new"
  BY <1>7, <1>9, <1>11 DEF Synced, Opened
<1>15. \A q \in Run \ {r} : rpc'[q] = rpc[q] /\ at'[q] = at[q] /\ ctx'[q] = ctx[q]
  BY <1>1 DEF TypeOK
<1> QED BY <1>1, <1>4, <1>12, <1>13, <1>14, <1>15, RunStep

\* Claims are inserted by the stage that extracts them only.
LEMMA ReturnStep ==
  ASSUME PipelineInv, NEW r \in Run, StageReturns(r)
  PROVE  /\ PipelineInv' /\ db'.status = "RUNNING"
         /\ \E w \in RowStatus : db'.rows = [db.rows EXCEPT ![Here(r)] = w]
         /\ Here(r) # "EXTRACTING_CLAIMS" => claimSets' = claimSets
<1>1. PICK o \in Returns(Here(r), ctx[r]) :
        /\ \E v \in Written(Here(r), view[r], o.ctx) :
             Commit(r, view[r], [v EXCEPT !.rows[Here(r)] = o.row])
        /\ Inserts(r, o.ctx)
        /\ ctx' = [ctx EXCEPT ![r] = o.ctx]
  BY DEF StageReturns
<1>2. PICK v \in Written(Here(r), view[r], o.ctx) :
        Commit(r, view[r], [v EXCEPT !.rows[Here(r)] = o.row])
  BY <1>1
<1>3. /\ TypeOK /\ db \in Row /\ ctx[r] \in Context /\ view[r] = db /\ Remembers(r)
      /\ Here(r) \in Stage /\ rpc[r] = "open" /\ db.status = "RUNNING"
  BY Sequence DEF StageReturns, PipelineInv, TypeOK, Synced, Active, Opened, Here
<1>4. o.row \in DoneStatus /\ Keeps(Here(r), ctx[r], o.ctx)
  BY <1>3, HandlerReturns
<1>5. /\ v \in Row /\ v.rows = db.rows /\ v.status = "RUNNING"
      /\ Here(r) # "SCORING" => v.verdict = db.verdict /\ v.band = db.band
      /\ Here(r) = "SCORING" => /\ o.ctx.claims \/ v.verdict = "none"
                                /\ v.band = "free" => ~o.ctx.degraded
  BY <1>2, <1>3, <1>4, RowsWritten DEF Keeps
<1>6. [v EXCEPT !.rows[Here(r)] = o.row] \in Row
  BY <1>3, <1>4, <1>5 DEF Row, RowStatus
<1>7. db' = [v EXCEPT !.rows[Here(r)] = o.row] /\ view' = [view EXCEPT ![r] = db']
  BY <1>2, <1>3, <1>6, MergeSynced DEF Commit
<1>8. /\ claimSets' \in Nat /\ claimSets' >= claimSets /\ evidence' \in BOOLEAN
      /\ o.ctx.claims => claimSets' > 0
      /\ Here(r) # "EXTRACTING_CLAIMS" => claimSets' = claimSets
  <2>1. o.ctx.claims \in BOOLEAN /\ ctx[r].claims \in BOOLEAN /\ o.ctx.evidence \in BOOLEAN
    BY <1>3, <1>4 DEF Keeps, Context
  <2>2. claimSets \in Nat /\ evidence \in BOOLEAN
    BY <1>3 DEF TypeOK
  <2>3. claimSets' = claimSets + (IF o.ctx.claims /\ ~ctx[r].claims THEN 1 ELSE 0)
    BY <1>1 DEF Inserts
  <2>4. evidence' \in BOOLEAN
    BY <1>1, <2>1, <2>2 DEF Inserts
  <2> QED BY <1>3, <1>4, <2>1, <2>2, <2>3, <2>4 DEF Keeps, Remembers
<1>9. PipelineInv'
  <2>1. o.ctx \in Context /\ (ctx[r].degraded => o.ctx.degraded)
        /\ (Here(r) = "GENERATING_REPORT" => o.ctx = ctx[r])
    BY <1>4 DEF Keeps
  <2>2. o.row # "FAILED"
    BY <1>4 DEF DoneStatus
  <2>3. /\ rpc' = [rpc EXCEPT ![r] = "ready"] /\ at' = [at EXCEPT ![r] = @ + 1]
        /\ UNCHANGED <<shape, done>>
    BY DEF StageReturns
  <2> QED BY <1>1, <1>3, <1>4, <1>5, <1>7, <1>8, <2>1, <2>2, <2>3, CloseStep
<1>10. db'.status = "RUNNING" /\ db'.rows = [db.rows EXCEPT ![Here(r)] = o.row]
  BY <1>5, <1>7 DEF Row
<1> QED BY <1>4, <1>8, <1>9, <1>10 DEF RowStatus

LEMMA DegradeStep ==
  ASSUME PipelineInv, NEW r \in Run, StageDegrades(r)
  PROVE  /\ PipelineInv' /\ db'.status = "RUNNING"
         /\ \E w \in RowStatus : db'.rows = [db.rows EXCEPT ![Here(r)] = w]
         /\ claimSets' = claimSets
<1>1. PICK x \in Partly(Here(r), ctx[r]) :
        Inserts(r, x) /\ ctx' = [ctx EXCEPT ![r] = Degrade(x)]
  BY DEF StageDegrades
<1>2. /\ TypeOK /\ db \in Row /\ ctx[r] \in Context /\ view[r] = db /\ Remembers(r)
      /\ Here(r) \in Stage /\ rpc[r] = "open" /\ db.status = "RUNNING"
  BY Sequence DEF StageDegrades, PipelineInv, TypeOK, Synced, Active, Opened, Here
<1>3. /\ Degrade(x) \in Context /\ Degrade(x).degraded
      /\ x \in Context /\ x.claims = ctx[r].claims /\ Degrade(x).claims = ctx[r].claims
  BY <1>2, HandlerRaises
<1>4. [db EXCEPT !.rows[Here(r)] = "FAILED"] \in Row
  BY <1>2 DEF Row, RowStatus
<1>5. db' = [db EXCEPT !.rows[Here(r)] = "FAILED"] /\ view' = [view EXCEPT ![r] = db']
  BY <1>2, <1>4, MergeSynced DEF StageDegrades, Commit
<1>6. claimSets' = claimSets /\ claimSets \in Nat /\ evidence' \in BOOLEAN
  BY <1>1, <1>2, <1>3 DEF Inserts, TypeOK, Context
<1>7. /\ Here(r) \notin FATAL_STAGES
      /\ Here(r) \notin {"SCORING", "GENERATING_REPORT"}
      /\ rpc' = [rpc EXCEPT ![r] = "ready"] /\ at' = [at EXCEPT ![r] = @ + 1]
      /\ UNCHANGED <<shape, done>>
  BY DEF StageDegrades, FATAL_STAGES
<1>8. Degrade(x).claims => claimSets' > 0
  BY <1>2, <1>3, <1>6 DEF Remembers
<1>9. PipelineInv'
  <2> DEFINE y == Degrade(x)
  <2>1. /\ y \in Context /\ y.degraded /\ ctx' = [ctx EXCEPT ![r] = y]
        /\ y.claims => claimSets' > 0
    BY <1>1, <1>3, <1>8
  <2>2. db.rows = db.rows /\ claimSets' \in Nat /\ claimSets' >= claimSets
    BY <1>6
  <2> HIDE DEF y
  <2> QED BY <1>2, <1>5, <1>6, <1>7, <2>1, <2>2, CloseStep
<1>10. db'.status = "RUNNING" /\ db'.rows = [db.rows EXCEPT ![Here(r)] = "FAILED"]
  BY <1>2, <1>5 DEF Row
<1> QED BY <1>6, <1>9, <1>10 DEF RowStatus

LEMMA FailStep ==
  ASSUME PipelineInv, NEW r \in Run, StageFails(r)
  PROVE  /\ PipelineInv' /\ db.status = "RUNNING" /\ db'.status = "FAILED"
         /\ \E w \in RowStatus : db'.rows = [db.rows EXCEPT ![Here(r)] = w]
         /\ Here(r) # "EXTRACTING_CLAIMS" => claimSets' = claimSets
<1> DEFINE S(k) == STAGE_SEQUENCE[k]
<1>1. PICK i \in 1..12 : i = at[r]
  BY DEF StageFails, PipelineInv, Synced, Active, Opened
<1>2. /\ TypeOK /\ db \in Row /\ Active(r) /\ view[r] = db /\ ctx[r].degraded \in BOOLEAN
      /\ Applies(i) /\ Here(r) = S(i) /\ S(i) \in Stage /\ S(i) \in FATAL_STAGES
      /\ db.rows \in [Stage -> RowStatus] /\ db.rows[S(i)] = "RUNNING" /\ db.status = "RUNNING"
  BY <1>1, Sequence DEF StageFails, PipelineInv, TypeOK, Synced, Active, Opened, Row, Here, Context
<1>3. PICK cause \in Raises(Here(r), ctx[r]) :
        /\ db' = Merge(view[r], FailedRow([view[r] EXCEPT !.rows[Here(r)] = "FAILED"], ctx[r], cause))
        /\ \/ UNCHANGED claimSets
           \/ ClaimsAdded(r, cause) /\ claimSets' = claimSets + 1
  BY DEF StageFails
<1>4. cause \in Cause
  BY DEF Raises, Cause
<1> DEFINE new == FailedRow([db EXCEPT !.rows[S(i)] = "FAILED"], ctx[r], cause)
<1>5. new \in Row
  BY <1>2, <1>4 DEF FailedRow, Row, RowStatus, Final
<1>6. db' = new
  BY <1>2, <1>3, <1>5, MergeSynced
<1>7. /\ db'.rows = [db.rows EXCEPT ![S(i)] = "FAILED"] /\ db'.status = "FAILED"
      /\ db'.verdict = "none" /\ db'.band = db.band
  BY <1>2, <1>6 DEF FailedRow, Row
<1>8. "FAILED" \in RowStatus /\ "FAILED" \notin DoneStatus /\ "RUNNING" \notin DoneStatus
  BY DEF RowStatus, DoneStatus
<1>9. /\ \A k \in 1..12 : k # i => (Finished(S(k))' <=> Finished(S(k)))
      /\ \A k : Applies(k)' <=> Applies(k)
      /\ db'.rows[S(i)] = "FAILED"
  <2>1. shape' = shape
    BY DEF StageFails
  <2> QED BY <1>2, <1>7, <1>8, <2>1, OneRow
<1>10. Reported'
  <2>1. Applies(i)' /\ ~Passed(S(i))'
    BY <1>2, <1>8, <1>9 DEF Passed, Finished
  <2> QED BY <1>7, <2>1 DEF Reported, Unfinished, FailureIsNotAVerdict
<1>11. Scored'
  <2>1. i \in 1..11 => db.band # "free"
    BY <1>2, <1>8 DEF PipelineInv, Scored, Finished
  <2> QED BY <1>7, <1>9, <2>1 DEF PipelineInv, Scored
<1>12. claimSets' \in Nat
  BY <1>2, <1>3 DEF TypeOK
<1>13. PipelineInv'
  BY <1>2, <1>5, <1>6, <1>10, <1>11, <1>12, EndsTypes, RunStep DEF StageFails
<1> QED BY <1>2, <1>3, <1>7, <1>8, <1>13 DEF ClaimsAdded

LEMMA CompleteStep ==
  ASSUME PipelineInv, NEW r \in Run, Complete(r)
  PROVE  /\ PipelineInv' /\ db.status \in {"RUNNING", "COMPLETED"} /\ db'.status = "COMPLETED"
         /\ db'.rows = db.rows /\ claimSets' = claimSets
<1>1. /\ TypeOK /\ db \in Row /\ Active(r) /\ view[r] = db /\ ctx[r].degraded \in BOOLEAN
      /\ Looped(r) /\ Remembers(r) /\ at[r] \in 1..13 /\ Todo(r) = {}
  BY DEF Complete, PipelineInv, TypeOK, Synced, Active, Context
<1>2. db' = CompletedRow(db, ctx[r])
  BY <1>1, MergeCompleted DEF Complete
<1>3. /\ db' \in Row /\ db'.rows = db.rows /\ db'.status = "COMPLETED"
      /\ db'.verdict = db.verdict /\ db'.band = db.band /\ db'.degraded = ctx[r].degraded
  BY <1>1, <1>2 DEF CompletedRow, Row, Final
<1>4. ~Unfinished
  BY <1>1 DEF Unfinished, Looped, Todo, Applies, Passed
<1>5. UNCHANGED <<shape, claimSets, evidence>>
  BY DEF Complete
<1>6. Reported'
  <2>1. ~Unfinished'
    BY <1>3, <1>4, <1>5 DEF Unfinished, Applies, Applicable, HasMedia, Passed, Finished
  <2>2. DegradedIsCapped'
    BY <1>1, <1>3 DEF DegradedIsCapped, Remembers
  <2> QED BY <1>3, <2>1, <2>2 DEF Reported, FailureIsNotAVerdict
<1>7. Scored'
  BY <1>3, <1>5 DEF PipelineInv, Scored, Applies, Applicable, HasMedia, Finished
<1>8. PipelineInv'
  BY <1>1, <1>3, <1>5, <1>6, <1>7, EndsTypes, RunStep DEF Complete, TypeOK
<1>9. db.status \in {"RUNNING", "COMPLETED"}
  BY <1>1, <1>4 DEF PipelineInv, Reported, Row, Final
<1> QED BY <1>3, <1>5, <1>8, <1>9

LEMMA AbandonStep ==
  ASSUME PipelineInv, NEW r \in Run, Abandon(r)
  PROVE  PipelineInv' /\ UNCHANGED stored
<1>1. /\ TypeOK /\ Active(r) /\ UNCHANGED stored
  BY DEF Abandon, PipelineInv
<1>2. Scored' /\ Reported'
  BY <1>1 DEF PipelineInv, stored, Scored, Reported, Unfinished, Applies, Applicable, HasMedia,
              Passed, Finished, DegradedIsCapped, FailureIsNotAVerdict
<1>3. PipelineInv'
  BY <1>1, <1>2, EndsTypes, RunStep DEF Abandon, stored, TypeOK
<1> QED BY <1>1, <1>3

-----------------------------------------------------------------------------
(* The invariant, and what follows *)

LEMMA PipelineInit == Init => PipelineInv
<1> SUFFICES ASSUME Init PROVE PipelineInv
  OBVIOUS
<1>2. TypeOK
  BY TypesInit
<1>3. /\ db.status = "QUEUED" /\ db.verdict = "none" /\ db.band = "none"
      /\ db.rows = [s \in Stage |-> "absent"]
  BY DEF Init, QueuedRow
<1>4. \A r \in Run : ~Active(r) /\ Synced(r) /\ Unborn(r)
  BY DEF Init, Active, Synced, Unborn
<1>5. ~Passed(STAGE_SEQUENCE[1]) /\ Applies(1)
  BY <1>3, Sequence DEF Passed, Finished, DoneStatus, Applies, Applicable
<1>6. Reported /\ Scored
  BY <1>3, <1>5 DEF Reported, Scored, Unfinished, FailureIsNotAVerdict
<1> QED BY <1>2, <1>4, <1>6 DEF PipelineInv, Alone

\* What a step does to what pollers and later deliveries see.
Visible ==
  /\ \A s \in Stage : db.rows[s] \in DoneStatus => db'.rows[s] = db.rows[s]
  /\ db.rows["EXTRACTING_CLAIMS"] \in DoneStatus => claimSets' = claimSets
  /\ \/ db'.status = db.status
     \/ db'.status = "RUNNING"
     \/ db.status = "RUNNING" /\ db'.status \in Final

LEMMA AdvanceKeeps ==
  ASSUME PipelineInv, NEW r \in Run, rpc[r] = "open",
         NEW w, db'.rows = [db.rows EXCEPT ![Here(r)] = w],
         Here(r) # "EXTRACTING_CLAIMS" => claimSets' = claimSets,
         db'.status = "RUNNING" \/ (db.status = "RUNNING" /\ db'.status \in Final)
  PROVE  Visible
<1>1. db.rows[Here(r)] \notin DoneStatus
  BY DEF PipelineInv, Synced, Active, Opened, DoneStatus
<1>2. db.rows \in [Stage -> RowStatus]
  BY DEF PipelineInv, TypeOK, Row
<1> QED BY <1>1, <1>2 DEF Visible

LEMMA PipelineStep ==
  ASSUME ~Overlap, PipelineInv, [Next]_vars
  PROVE  PipelineInv' /\ (UNCHANGED <<db, claimSets>> \/ Visible)
<1>1. ASSUME NEW r \in Run, Start(r) PROVE PipelineInv' /\ UNCHANGED <<db, claimSets>>
  BY <1>1, StartStep DEF Start, stored
<1>2. ASSUME NEW r \in Run, OpenStage(r) PROVE PipelineInv' /\ Visible
  <2>1. PICK i \in 1..12 : /\ ~Finished(STAGE_SEQUENCE[i])
                            /\ db'.rows = [db.rows EXCEPT ![STAGE_SEQUENCE[i]] = "RUNNING"]
    BY <1>2, OpenStep
  <2>2. db.rows \in [Stage -> RowStatus]
    BY DEF PipelineInv, TypeOK, Row
  <2>3. \A s \in Stage : db.rows[s] \in DoneStatus => db'.rows[s] = db.rows[s]
    BY <2>1, <2>2 DEF Finished
  <2> QED BY <1>2, <2>3, OpenStep DEF Visible
<1>3. ASSUME NEW r \in Run, StageReturns(r) PROVE PipelineInv' /\ Visible
  BY <1>3, ReturnStep, AdvanceKeeps DEF StageReturns
<1>4. ASSUME NEW r \in Run, StageDegrades(r) PROVE PipelineInv' /\ Visible
  BY <1>4, DegradeStep, AdvanceKeeps DEF StageDegrades
<1>5. ASSUME NEW r \in Run, StageFails(r) PROVE PipelineInv' /\ Visible
  BY <1>5, FailStep, AdvanceKeeps DEF StageFails, Final
<1>6. ASSUME NEW r \in Run, Complete(r) PROVE PipelineInv' /\ Visible
  BY <1>6, CompleteStep DEF Visible, Final
<1>7. ASSUME NEW r \in Run, Abandon(r) PROVE PipelineInv' /\ UNCHANGED <<db, claimSets>>
  BY <1>7, AbandonStep DEF stored
<1>8. CASE UNCHANGED vars
  BY <1>8 DEF vars, stored, sessions, PipelineInv, TypeOK, Alone, Synced, Looped, Opened, Remembers,
              Unborn, Scored, Reported, Unfinished, Applies, Applicable, HasMedia, Passed, Finished,
              Active, Here, DegradedIsCapped, FailureIsNotAVerdict
<1> QED BY <1>1, <1>2, <1>3, <1>4, <1>5, <1>6, <1>7, <1>8 DEF Next, Advance

LEMMA PipelineInvariant ==
  ASSUME ~Overlap
  PROVE  Spec => []PipelineInv
<1>1. PipelineInv /\ [Next]_vars => PipelineInv'
  BY PipelineStep
<1> QED BY <1>1, PipelineInit, PTL DEF Spec

\* However often a verification is delivered, resumed and abandoned, what failed carries no
\* verdict (pipeline.py:276-289).
THEOREM FailureCarriesNoVerdict ==
  ASSUME ~Overlap
  PROVE  Spec => []FailureIsNotAVerdict
<1>1. PipelineInv => FailureIsNotAVerdict
  BY DEF PipelineInv, Reported
<1> QED BY <1>1, PipelineInvariant, PTL

\* A completed verification has every stage behind it, and a verdict its SCORING row and its
\* claims (pipeline.py:187-244).
THEOREM CompletedWasRun ==
  ASSUME ~Overlap
  PROVE  Spec => []CompletedIsWhole
<1>1. PipelineInv => CompletedIsWhole
  BY Sequence DEF PipelineInv, Reported, Unfinished, Scored, Passed, Finished, Applies, CompletedIsWhole
<1> QED BY <1>1, PipelineInvariant, PTL

\* A completed verification that is degraded has no free band (models/verification.py:76-77).
THEOREM DegradedAreCapped ==
  ASSUME ~Overlap
  PROVE  Spec => []DegradedIsCapped
<1>1. PipelineInv => DegradedIsCapped
  BY DEF PipelineInv, Reported, DegradedIsCapped
<1> QED BY <1>1, PipelineInvariant, PTL

\* No delivery repeats a finished stage, or inserts claims once they are extracted
\* (pipeline.py:156, 190).
THEOREM FinishedStagesStay ==
  ASSUME ~Overlap
  PROVE  Spec => DoneStagesStay
<1>1. PipelineInv /\ [Next]_vars =>
        [/\ \A s \in Stage : db.rows[s] \in DoneStatus => db'.rows[s] = db.rows[s]
         /\ db.rows["EXTRACTING_CLAIMS"] \in DoneStatus => claimSets' = claimSets]_vars
  BY PipelineStep DEF Visible
<1> QED BY <1>1, PipelineInvariant, PTL DEF Spec, DoneStagesStay

\* Deliveries, failures and resumptions look to a poller like the life of one status
\* (core/enums.py:52-56).
THEOREM PipelineFollowsLifecycle ==
  ASSUME ~Overlap
  PROVE  Spec => FollowsLifecycle
<1>1. Init => Status!Init
  BY DEF Init, QueuedRow, Status!Init
<1>2. PipelineInv /\ [Next]_vars => [Status!Next]_(db.status)
  BY PipelineStep DEF Visible, Final, Status!Next, Status!Begin, Status!End, Status!Final
<1> QED BY <1>1, <1>2, PipelineInvariant, PTL DEF Spec, FollowsLifecycle, Status!Spec
=============================================================================
