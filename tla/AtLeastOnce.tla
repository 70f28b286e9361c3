---------------------------- MODULE AtLeastOnce ----------------------------
(***************************************************************************)
(* What the job queue promises its producer (workers/queue.py:1-11),       *)
(* without lists, leases or processes.  A job that was submitted is owed   *)
(* until a consumer settles it; a settled job may be owed for a while      *)
(* longer, because a second copy may be under way, and is then forgotten.  *)
(* Nothing else ever takes a job off the books.                            *)
(***************************************************************************)
CONSTANT Job

VARIABLES owed,     \* jobs some list or some running process still holds
          settled   \* jobs a consumer completed or dead-lettered

vars == <<owed, settled>>

Init == owed = {} /\ settled = {}

Submit(j) ==
  /\ j \notin owed \cup settled
  /\ owed' = owed \cup {j}
  /\ UNCHANGED settled

\* The consumer that settles j may or may not hold the last copy of it.
Settle(j) ==
  /\ j \in owed
  /\ settled' = settled \cup {j}
  /\ owed' \in {owed, owed \ {j}}

\* The last superfluous copy of a settled job disappears.
Forget(j) ==
  /\ j \in owed \cap settled
  /\ owed' = owed \ {j}
  /\ UNCHANGED settled

Next == \E j \in Job : Submit(j) \/ Settle(j) \/ Forget(j)

Spec == Init /\ [][Next]_vars

TypeOK == owed \subseteq Job /\ settled \subseteq Job
=============================================================================
