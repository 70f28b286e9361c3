------------------------------- MODULE Intake -------------------------------
(***************************************************************************)
(* How a submission comes into being: the rate limiter, one POST handler   *)
(* of api/submissions.py, the validators and services it calls, the        *)
(* transaction get_db() closes around it, and the worker and the poller    *)
(* that read the result.  Three stores are written one after the other -   *)
(* the object store, the Redis queue, the database - and nothing makes the *)
(* three writes atomic.                                                    *)
(*                                                                         *)
(*   where      the circumstances of this behaviour, never changed         *)
(*   at[r]      how far the handler of request r is                        *)
(*   answer[r]  what the client was told                                   *)
(*   file[r]    the upload, once it has been validated                     *)
(*   object[r]  the content type of the uploaded bytes in the object       *)
(*              store, "none" while they are not there                     *)
(*   record[r]  the submission, verification and media rows are committed  *)
(*   job[r]     the job of r's verification in the queue                   *)
(*   outcome[r] what process_job() made of it                              *)
(*   polled[r]  the last answer of GET /verifications/{id}/status          *)
(***************************************************************************)
EXTENDS RateLimiter, UploadValidation

CONSTANTS
  Files,          \* the uploads considered
  Circumstances   \* those considered, see Circumstance

\* "answers_first": FastAPI sends the response before it runs the exit code of
\* the session dependency (it depends on the release, which pyproject.toml
\* leaves open).
Circumstance == SUBSET {"answers_first"}

ASSUME IntakeAssumption == Files \subseteq Upload /\ Circumstances \subseteq Circumstance

VARIABLES where, at, answer, file, object, record, job, outcome, polled

AnswersFirst == "answers_first" \in where

handler == <<where, at, answer, file>>
stores == <<object, record, job>>
readers == <<outcome, polled>>
vars == <<limiter, handler, stores, readers>>

\* The requests that carry an image or a video.
Uploads == {r \in Request : operation[r] \in {"image_submission", "video_submission"}}

NoFile ==
  [size |-> 0, starts |-> "short", declared |-> "none",
   markup |-> FALSE, readable |-> FALSE, width |-> 0, height |-> 0]

Point == {"new", "admitted", "stored", "flushed", "enqueued", "answered", "ended", "failed"}

TypeOK ==
  /\ LimiterTypeOK
  /\ file \in [Request -> Files \cup {NoFile}]
  /\ where \in Circumstances
  /\ at \in [Request -> Point]
  /\ answer \in [Request -> {"none", "accepted", "rejected", "broken"}]
  /\ object \in [Request -> {"none"} \cup ALLOWED_IMAGE_TYPES \cup ALLOWED_VIDEO_TYPES]
  /\ record \in [Request -> BOOLEAN]
  /\ job \in [Request -> {"none", "queued", "taken", "settled"}]
  /\ outcome \in [Request -> {"none", "missing", "finished"}]
  /\ polled \in [Request -> {"never", "not_found", "found"}]

Init ==
  /\ LimiterInit
  /\ file = [r \in Request |-> NoFile]
  /\ where \in Circumstances
  /\ at = [r \in Request |-> "new"]
  /\ answer = [r \in Request |-> "none"]
  /\ object = [r \in Request |-> "none"]
  /\ record = [r \in Request |-> FALSE]
  /\ job = [r \in Request |-> "none"]
  /\ outcome = [r \in Request |-> "none"]
  /\ polled = [r \in Request |-> "never"]

Goto(r, p) == at' = [at EXCEPT ![r] = p] /\ UNCHANGED where
Tell(r, a) == answer' = [answer EXCEPT ![r] = a]

-----------------------------------------------------------------------------
(* The handler *)

\* The route's dependency rate_limit() asks the limiter, and the clock runs
\* on.  Nothing reads it once every request has been judged.
Wait ==
  /\ \E r \in Request : Pending(r)
  /\ Tick
  /\ UNCHANGED <<handler, stores, readers>>

Ask(r) ==
  /\ at[r] = "new"
  /\ ReadClock(r) \/ Count(r) \/ Unavailable(r)
  /\ UNCHANGED <<handler, stores, readers>>

Enforce(r) ==
  /\ at[r] = "new"
  /\ Judge(r)
  /\ IF Allowed(r) THEN UNCHANGED <<at, where, answer>>
                   ELSE Goto(r, "failed") /\ Tell(r, "rejected")
  /\ UNCHANGED <<file, stores, readers>>

Cleared(r) == at[r] = "new" /\ asked[r] \in {"allowed", "unavailable"}

\* _read_upload() stops reading at the cap; the rest is up to the validators.
Validated(r, f) ==
  IF operation[r] = "image_submission"
  THEN IF f.size > MaxImageBytes THEN "PayloadTooLarge" ELSE validate_image_upload(f)
  ELSE IF f.size > MaxVideoBytes THEN "PayloadTooLarge" ELSE validate_video_upload(f)

\* The text, URL or file does not pass.
Reject(r) ==
  /\ Cleared(r)
  /\ r \in Uploads => \E f \in Files : ~Passes(Validated(r, f))
  /\ Goto(r, "failed")
  /\ Tell(r, "rejected")
  /\ UNCHANGED <<limiter, file, stores, readers>>

Admit(r) ==
  /\ Cleared(r)
  /\ \/ r \notin Uploads /\ UNCHANGED file
     \/ /\ r \in Uploads
        /\ \E f \in Files : /\ Passes(Validated(r, f))
                            /\ file' = [file EXCEPT ![r] = f]
  /\ Goto(r, "admitted")
  /\ UNCHANGED <<limiter, answer, stores, readers>>

StoreMedia(r) ==
  /\ at[r] = "admitted" /\ r \in Uploads
  /\ object' = [object EXCEPT ![r] = Validated(r, file[r])]
  /\ Goto(r, "stored")
  /\ UNCHANGED <<limiter, answer, file, record, job, readers>>

\* The rows are inserted in the open transaction.
Flush(r) ==
  /\ at[r] = IF r \in Uploads THEN "stored" ELSE "admitted"
  /\ Goto(r, "flushed")
  /\ UNCHANGED <<limiter, answer, file, stores, readers>>

\* Fault: the answer leaves with the job.
Enqueue_answers(r) ==
  /\ at[r] = "flushed"
  /\ job' = [job EXCEPT ![r] = "queued"]
  /\ Tell(r, "accepted")
  /\ Goto(r, "enqueued")
  /\ UNCHANGED <<limiter, file, object, record, readers>>

Enqueue(r) ==
  /\ at[r] = "flushed"
  /\ job' = [job EXCEPT ![r] = "queued"]
  /\ Goto(r, "enqueued")
  /\ UNCHANGED <<limiter, answer, file, object, record, readers>>

AnswerEarly(r) ==
  /\ AnswersFirst
  /\ at[r] = "enqueued"
  /\ Tell(r, "accepted")
  /\ Goto(r, "answered")
  /\ UNCHANGED <<limiter, file, stores, readers>>

\* Fault: the rows are committed before the job is enqueued.
Commit_first(r) ==
  /\ at[r] = "flushed"
  /\ record' = [record EXCEPT ![r] = TRUE]
  /\ Tell(r, "accepted")
  /\ Goto(r, "ended")
  /\ UNCHANGED <<limiter, file, object, job, readers>>

\* The session dependency commits once the handler has returned.
Commit(r) ==
  /\ at[r] = IF AnswersFirst THEN "answered" ELSE "enqueued"
  /\ record' = [record EXCEPT ![r] = TRUE]
  /\ Tell(r, "accepted")
  /\ Goto(r, "ended")
  /\ UNCHANGED <<limiter, file, object, job, readers>>

\* An exception, a lost connection or the death of the API process: the
\* transaction is rolled back, nothing else is.  The store that was being
\* written may have carried the write out all the same.
Break(r) ==
  /\ at[r] \notin {"new", "ended", "failed"}
  /\ \/ UNCHANGED stores
     \/ /\ at[r] = "admitted" /\ r \in Uploads
        /\ object' = [object EXCEPT ![r] = Validated(r, file[r])]
        /\ UNCHANGED <<record, job>>
     \/ /\ at[r] = "flushed"
        /\ job' = [job EXCEPT ![r] = "queued"]
        /\ UNCHANGED <<object, record>>
     \/ /\ at[r] = IF AnswersFirst THEN "answered" ELSE "enqueued"
        /\ record' = [record EXCEPT ![r] = TRUE]
        /\ UNCHANGED <<object, job>>
  /\ Tell(r, IF answer[r] = "accepted" THEN "accepted" ELSE "broken")
  /\ Goto(r, "failed")
  /\ UNCHANGED <<limiter, file, readers>>

-----------------------------------------------------------------------------
(* The readers *)

\* A worker may look for the record before the handler is through.
Reserve(r) ==
  /\ job[r] = "queued"
  /\ job' = [job EXCEPT ![r] = "taken"]
  /\ UNCHANGED <<limiter, handler, object, record, readers>>

\* A verification that cannot be found is logged, and the job is acknowledged.
ProcessJob(r) ==
  /\ job[r] = "taken"
  /\ outcome' = [outcome EXCEPT ![r] = IF record[r] THEN "finished" ELSE "missing"]
  /\ job' = [job EXCEPT ![r] = "settled"]
  /\ UNCHANGED <<limiter, handler, object, record, polled>>

Poll(r) ==
  /\ answer[r] = "accepted"
  /\ polled' = [polled EXCEPT ![r] = IF record[r] THEN "found" ELSE "not_found"]
  /\ UNCHANGED <<limiter, handler, stores, outcome>>

Serve(r) == \/ Ask(r) \/ Enforce(r) \/ Admit(r) \/ StoreMedia(r) \/ Flush(r) \/ Enqueue(r)
            \/ AnswerEarly(r) \/ Commit(r)

Next == \/ Wait
        \/ \E r \in Request : Serve(r) \/ Reject(r) \/ Break(r)
                             \/ Reserve(r) \/ ProcessJob(r) \/ Poll(r)

Spec == Init /\ [][Next]_vars

-----------------------------------------------------------------------------
(* Properties *)

\* Wherever the handler breaks, a committed verification has its job - that is
\* what enqueueing ahead of the commit buys (submissions.py:38, session.py:94) -
\* and a committed media row its bytes in the object store
\* (submission_service.py:171-187).
RecordIsBacked ==
  \A r \in Request : record[r] => job[r] # "none" /\ (r \in Uploads => object[r] # "none")

\* Whatever is in the object store is what its handler accepts: its type is told
\* by its bytes and not by its sender, and an image can be decoded within the
\* pixel budget (upload_validation.py:103-196, submission_service.py:171).
StoredIsChecked ==
  \A r \in Request : object[r] # "none" =>
    /\ object[r] = detect_content_type(file[r])
    /\ operation[r] = "image_submission" =>
         /\ object[r] \in ALLOWED_IMAGE_TYPES
         /\ file[r].size \in 1 .. MaxImageBytes
         /\ file[r].width * file[r].height <= MaxImagePixels
    /\ operation[r] = "video_submission" =>
         object[r] \in ALLOWED_VIDEO_TYPES /\ file[r].size \in 1 .. MaxVideoBytes

\* Whoever was told 202 finds the verification under the poll URL, where the
\* response waits for the commit (submissions.py:38-44, session.py:94).
AcceptedIsStored ==
  \A r \in Request : answer[r] = "accepted" /\ ~AnswersFirst => record[r]

\* "a job never references a record that was rolled back" (submissions.py:35-36).
NoDanglingJob ==
  \A r \in Request : job[r] \in {"queued", "taken"} /\ ~record[r] => at[r] # "failed"

\* "Nothing to retry: the record is gone." (worker.py:68): a record that could
\* not be found does not turn up later.
MissingMeansGone == \A r \in Request : outcome[r] = "missing" => ~record[r]

\* "the other will never appear" (query-provider.tsx:17-18): a 404 is final.
NotFoundIsFinal ==
  [][\A r \in Request : polled[r] = "not_found" => polled'[r] # "found"]_vars
=============================================================================
