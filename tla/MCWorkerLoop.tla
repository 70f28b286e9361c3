---- MODULE MCWorkerLoop ----
(* Instances of WorkerLoop for TLC.  Jobs are interchangeable, and so are the   *)
(* process lives that may end; the one that may not is told apart.      *)
EXTENDS WorkerLoop, TLC

Symmetry == Permutations(Mortal) \cup Permutations(Job)
====
