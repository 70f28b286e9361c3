---- MODULE MCIntake ----
(* Instances of Intake for TLC: two requests of one client, of one operation or
   of two, with a budget of one request for every operation but text. *)
EXTENDS Intake, TLC

CONSTANTS r1, r2

AnyCircumstance == Circumstance
CommitFirst == {{}}
AnswerFirst == {{"answers_first"}}

SameUrl == [r \in Request |-> "url_submission"]
TextAndVideo == [r \in Request |-> IF r = r1 THEN "text_submission" ELSE "video_submission"]
TextAndImage == {[r \in Request |-> IF r = r1 THEN "text_submission" ELSE "image_submission"]}
MixedTraffic == TextAndImage \cup {SameUrl, TextAndVideo}

Budgets == [o \in Operation |-> IF o = "text_submission" THEN 2 ELSE 1]

Picture ==
  [size |-> 1, starts |-> "PNG", declared |-> "application/octet-stream",
   markup |-> FALSE, readable |-> TRUE, width |-> 2, height |-> 2]
Film ==
  [size |-> 2, starts |-> "EBML", declared |-> "video/x-matroska",
   markup |-> FALSE, readable |-> FALSE, width |-> 0, height |-> 0]
SomeFiles ==
  {Picture, Film,
   [Picture EXCEPT !.width = 3],                 \* fits with each side, not as a whole
   [Picture EXCEPT !.declared = "image/gif"],
   [Film EXCEPT !.size = 3]}
TwoFiles == {Picture, Film}

\* The limiter and the handlers share nothing but the limiter's verdict: the
\* clock runs where requests compete for a budget, and no request is validated
\* while another has yet to be judged.
Separately ==
  /\ now' # now => \E o \in Operation : \A r \in Request : operation[r] = o
  /\ \A r \in Request : at'[r] = "admitted" => ~\E s \in Request : Pending(s)
====
