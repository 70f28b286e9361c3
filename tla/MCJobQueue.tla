---- MODULE MCJobQueue ----
(* Instances of JobQueue for TLC.  Jobs are interchangeable, and so are the   *)
(* process lives that may end; the one that may not is told apart.      *)
EXTENDS JobQueue, TLC

Symmetry == Permutations(Mortal) \cup Permutations(Job)
====
