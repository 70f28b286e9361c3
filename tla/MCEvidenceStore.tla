-------------------------- MODULE MCEvidenceStore --------------------------
(* Instances of EvidenceStore for TLC: two publishers with a page each, met *)
(* in both orders, twice by one run, and a page without a publisher.        *)
EXTENDS EvidenceStore, TLC

CONSTANTS d1, d2, u1, u2

Found(d, u, last) == [domain |-> d, url |-> u, last |-> last]
A == Found(d1, u1, TRUE)
B == Found(d2, u2, TRUE)

Orders == {<<>>, <<[A EXCEPT !.last = FALSE], B>>, <<B, A>>, <<A, A>>, <<Found(None, u1, TRUE)>>}

Symmetry == Permutations(Run)
=============================================================================
