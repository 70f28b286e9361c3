--------------------------- MODULE EvidenceStore ---------------------------
(***************************************************************************)
(* The rows that all verifications share: publishers (sources) and the     *)
(* documents read from them, as written by EXTRACTING_EVIDENCE             *)
(* (retrieval/pipeline_ops.py, verification/pipeline.py).                  *)
(*                                                                         *)
(*   sources    committed rows of `sources`; its domain column is unique   *)
(*   documents  committed rows of `retrieved_documents`; its canonical_url *)
(*              is indexed and not unique                                  *)
(*   pc         where a run of the stage is                                *)
(*   todo       what it has still to store                                 *)
(*   session    its database session and transaction:                      *)
(*     pending    changes that the session has not flushed                 *)
(*     sending    changes of the flush it is in                            *)
(*     waiting    the statement among them that is blocked                 *)
(*     changed    rows updated by the transaction, locked until it ends    *)
(*     born       publishers inserted by the transaction                   *)
(*     added      documents inserted by the transaction                    *)
(*   met        pairs of runs that were active at the same time            *)
(*                                                                         *)
(* A stage is one transaction, in READ COMMITTED, and fetches articles     *)
(* between its statements.  autoflush is off: a query does not see what    *)
(* is pending.  The database breaks a cycle of waiting transactions by     *)
(* failing one.                                                            *)
(***************************************************************************)
EXTENDS Integers, Sequences, FiniteSets, FiniteSetsExt

CONSTANTS
  Run,      \* runs of the stage, each for a verification of its own
  Domain, Url,
  Plans,    \* what a run may have to store: sequences of items
  MaxWork,  \* bound: items of all runs together
  MaxKills, \* bound: runs whose worker dies
  None

\* last: it is the last document of its claim.
Item == [domain : Domain \cup {None}, url : Url, last : BOOLEAN]

ASSUME StoreAssumption ==
  /\ None \notin Domain
  /\ Plans \subseteq Seq(Item)
  /\ MaxWork \in Nat /\ MaxKills \in Nat

\* A document row is known by its URL, the run that added it and its place there.
Document == Url \X Run \X Nat
Source(d) == [table |-> "sources", key |-> d]
Page(u) == [table |-> "documents", key |-> u]
Row == {Source(d) : d \in Domain} \cup {Page(u) : u \in Url}
Change == [insert : BOOLEAN, row : Row]
Insert(row) == [insert |-> TRUE, row |-> row]
Update(row) == [insert |-> FALSE, row |-> row]

Session == [pending : SUBSET Change, sending : SUBSET Change, waiting : SUBSET Change,
            changed : SUBSET Row, born : SUBSET Domain, added : SUBSET Document]
Fresh == [pending |-> {}, sending |-> {}, waiting |-> {},
          changed |-> {}, born |-> {}, added |-> {}]

VARIABLES sources, documents, pc, todo, session, met

vars == <<sources, documents, pc, todo, session, met>>

Active == {"source", "document", "ending", "failing"}
Ended == {"completed", "degraded", "escaped", "killed"}

\* A run that has ended holds no transaction.
TypeOK ==
  /\ sources \subseteq Domain
  /\ documents \subseteq Document
  /\ pc \in [Run -> {"queued"} \cup Active \cup Ended]
  /\ todo \in [Run -> Seq(Item)]
  /\ session \in [Run -> Session]
  /\ met \subseteq SUBSET Run
  /\ \A r \in Run : pc[r] \in Ended => session[r] = Fresh

Init ==
  /\ sources = {} /\ documents = {} /\ met = {}
  /\ pc = [r \in Run |-> "queued"]
  /\ todo \in {t \in [Run -> Plans] : MapThenSumSet(LAMBDA r : Len(t[r]), Run) <= MaxWork}
  /\ session = [r \in Run |-> Fresh]

-----------------------------------------------------------------------------
(* What a session sees, and who blocks whom *)

item(r) == Head(todo[r])

Seen_committed_only(r, u) == {x \in documents : x[1] = u}

Seen(r, u) == {x \in documents \cup session[r].added : x[1] = u}

Known(r, d) == d \in sources \cup session[r].born

\* An insert waits for an uncommitted one with the same unique key, an update
\* for an uncommitted update of the row.
Blocks(q, c) ==
  IF c.insert THEN \E d \in session[q].born : c.row = Source(d)
              ELSE c.row \in session[q].changed
Blocked(r, c) == \E q \in Run \ {r} : Blocks(q, c)
WaitsFor(r, q) == r # q /\ \E c \in session[r].waiting : Blocks(q, c)

InCycle(r) ==
  \E C \in SUBSET Run :
    /\ r \in C
    /\ \A q \in C : (\E p \in C : WaitsFor(q, p)) /\ (\E p \in C : WaitsFor(p, q))

-----------------------------------------------------------------------------
(* The stage *)

Goto(r, place) == pc' = [pc EXCEPT ![r] = place]
At(r, place) == pc[r] = place /\ session[r].sending = {}

Pend(r, C) ==
  session' = [session EXCEPT ![r] = [@ EXCEPT !.pending = session[r].pending \cup C]]
Flush(r, C) ==
  session' = [session EXCEPT ![r] = [@ EXCEPT !.sending = session[r].pending \cup C, !.pending = {}]]

Begin(r) ==
  /\ pc[r] = "queued"
  /\ Goto(r, "source")
  /\ met' = met \cup {{r, q} : q \in {p \in Run \ {r} : pc[p] \in Active}}
  /\ UNCHANGED <<sources, documents, todo, session>>

\* get_or_create_source.  Whether the row in memory is a placeholder whose type the
\* item supplies is left open.
FindSource(r) ==
  /\ At(r, "source") /\ todo[r] # <<>>
  /\ LET d == item(r).domain
     IN  \/ d = None /\ UNCHANGED session
         \/ d # None /\ ~Known(r, d) /\ Flush(r, {Insert(Source(d))})
         \/ d # None /\ Known(r, d) /\ \E C \in SUBSET {Update(Source(d))} : Pend(r, C)
  /\ Goto(r, "document")
  /\ UNCHANGED <<sources, documents, todo, met>>

\* persist_document.  Whether a row that is found needs a change (a longer excerpt, a
\* mark of injected instructions) is left open.  The rows of evidence are flushed
\* after the last document of a claim.
FindDocument(r) ==
  /\ At(r, "document")
  /\ LET page == Page(item(r).url)
     IN  \/ Seen(r, item(r).url) = {} /\ Flush(r, {Insert(page)})
         \/ /\ \E x \in documents \cup session[r].added : Seen(r, item(r).url) = {x}
            /\ \E C \in SUBSET {Update(page)} : IF item(r).last THEN Flush(r, C) ELSE Pend(r, C)
  /\ todo' = [todo EXCEPT ![r] = Tail(@)]
  /\ Goto(r, "source")
  /\ UNCHANGED <<sources, documents, met>>

\* scalar_one_or_none() refuses two rows: the stage raises, and the handler of its
\* exception flushes and commits what has been stored by then.
FindTwoDocuments(r) ==
  /\ At(r, "document") /\ \E x, y \in Seen(r, item(r).url) : x # y
  /\ Flush(r, {}) /\ Goto(r, "failing")
  /\ UNCHANGED <<sources, documents, todo, met>>

EndStage(r) ==
  /\ At(r, "source") /\ todo[r] = <<>>
  /\ Flush(r, {}) /\ Goto(r, "ending")
  /\ UNCHANGED <<sources, documents, todo, met>>

-----------------------------------------------------------------------------
(* Flush, commit, rollback *)

\* The changes of a flush are sent one by one, in any order here.
Current(r) == IF session[r].waiting # {} THEN session[r].waiting ELSE session[r].sending
Violates(c) == c.insert /\ \E d \in sources : c.row = Source(d)

Wait(r) ==
  /\ session[r].waiting = {}
  /\ \E c \in session[r].sending :
       Blocked(r, c) /\ session' = [session EXCEPT ![r] = [@ EXCEPT !.waiting = {c}]]
  /\ UNCHANGED <<sources, documents, pc, todo, met>>

Carried(r, c) ==
  LET s == [session[r] EXCEPT !.sending = @ \ {c}, !.waiting = {}]
  IN  IF ~c.insert THEN [s EXCEPT !.changed = @ \cup {c.row}]
      ELSE IF c.row.table = "sources" THEN [s EXCEPT !.born = @ \cup {c.row.key}]
      ELSE [s EXCEPT !.added = @ \cup {<<c.row.key, r, Len(todo[r])>>}]

Execute(r) ==
  /\ \E c \in Current(r) :
       ~Blocked(r, c) /\ ~Violates(c) /\ session' = [session EXCEPT ![r] = Carried(r, c)]
  /\ UNCHANGED <<sources, documents, pc, todo, met>>

Rollback(r) == session' = [session EXCEPT ![r] = Fresh]

\* A statement fails on the unique key or as the victim of a deadlock.  The flush
\* rolls the transaction back, and the handler of the stage's exception, which
\* flushes again (pipeline.py:227), is refused: the exception leaves run().
Escape(r) ==
  /\ InCycle(r) \/ \E c \in Current(r) : ~Blocked(r, c) /\ Violates(c)
  /\ Rollback(r) /\ Goto(r, "escaped")
  /\ UNCHANGED <<sources, documents, todo, met>>

Commit_never(r) ==
  /\ At(r, "ending") /\ Goto(r, "completed")
  /\ UNCHANGED <<sources, documents, todo, session, met>>

Commit(r) ==
  /\ \/ At(r, "ending") /\ Goto(r, "completed")
     \/ At(r, "failing") /\ Goto(r, "degraded")
  /\ sources' = sources \cup session[r].born
  /\ documents' = documents \cup session[r].added
  /\ session' = [session EXCEPT ![r] = Fresh]
  /\ UNCHANGED <<todo, met>>

\* The worker dies and the database rolls back.
Kill(r) ==
  /\ pc[r] \in Active /\ Cardinality({q \in Run : pc[q] = "killed"}) < MaxKills
  /\ Rollback(r) /\ Goto(r, "killed")
  /\ UNCHANGED <<sources, documents, todo, met>>

Step(r) == \/ FindSource(r) \/ FindDocument(r) \/ FindTwoDocuments(r) \/ EndStage(r)
           \/ Wait(r) \/ Execute(r) \/ Escape(r) \/ Commit(r)

Next == \E r \in Run : Begin(r) \/ Step(r) \/ Kill(r)

Spec == Init /\ [][Next]_vars
FairSpec == Spec /\ \A r \in Run : WF_vars(Step(r))

-----------------------------------------------------------------------------
(* Properties *)

Raced(r, q) == {r, q} \in met

\* Only runs that overlap get in each other's way: a run stores a document once
\* and finds those that earlier runs have stored, so two rows for one URL come from
\* two runs that were active together, and so does every failure of the stage
\* (pipeline_ops.py:82-106, 198-239).
OnlyOverlapHarms ==
  /\ \A x, y \in documents : x[1] = y[1] /\ x # y => Raced(x[2], y[2])
  /\ \A r \in Run : pc[r] = "escaped" => \E q \in Run \ {r} : Raced(r, q)
  /\ \A r \in Run : pc[r] = "degraded" =>
       \E x, y \in documents : x[1] = y[1] /\ x # y /\ Raced(x[2], y[2])

\* Runs wait for each other's transactions in the middle of the stage, holding rows
\* themselves; still every run ends (pipeline.py:218-219, 242).
EveryRunEnds == \A r \in Run : pc[r] \in Active ~> pc[r] \in Ended

-----------------------------------------------------------------------------
(* What the documents say and the code does not do *)

\* "Store a retrieved document, reusing an existing row when we have it."
\* (pipeline_ops.py:198)
OneRowPerDocument == \A x, y \in documents : x[1] = y[1] => x = y

\* "Non-fatal: note it and carry on with less evidence." (pipeline.py:240)
NonFatalCarriesOn == \A r \in Run : pc[r] # "escaped"
=============================================================================
