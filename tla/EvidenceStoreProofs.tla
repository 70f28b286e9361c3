------------------------ MODULE EvidenceStoreProofs ------------------------
(***************************************************************************)
(* Theorems about EvidenceStore, for all runs, publishers and plans: only  *)
(* runs that are active together get in each other's way.                  *)
(***************************************************************************)
EXTENDS EvidenceStore, TLAPS

\* How the parts of a session hang together.
Sessions ==
  /\ \A r \in Run : pc[r] = "queued" => session[r] = Fresh
  /\ \A r \in Run : pc[r] = "document" => todo[r] # <<>>
  /\ \A r \in Run : session[r].waiting \subseteq session[r].sending
  /\ \A r \in Run : \A c \in session[r].pending : ~c.insert
  /\ \A r \in Run : \A x \in session[r].added : x[2] = r

\* Runs that are active now have met.
Together ==
  \A r, q \in Run : r # q /\ pc[r] \in Active /\ pc[q] \in Active => Raced(r, q)

Rows == documents \cup UNION {session[r].added : r \in Run}

\* Rows for one URL, committed or not, come from runs that met, and so does a row that
\* is about to be added.
RowsRaced == \A x, y \in Rows : x[1] = y[1] /\ x # y => Raced(x[2], y[2])
AddingRaced ==
  \A r \in Run, u \in Url : Insert(Page(u)) \in session[r].sending =>
    \A y \in Rows : y[1] = u => Raced(r, y[2])

\* A publisher that is there when a run inserts it came from a run that it met.
SourceRaced ==
  \A r \in Run, d \in Domain : Insert(Source(d)) \in session[r].sending /\ d \in sources =>
    \E q \in Run \ {r} : Raced(r, q)

FailingSawTwo ==
  \A r \in Run : pc[r] = "failing" =>
    \E x, y \in documents \cup session[r].added : x[1] = y[1] /\ x # y

IInv == /\ TypeOK /\ Sessions /\ Together /\ RowsRaced /\ AddingRaced
        /\ SourceRaced /\ FailingSawTwo /\ OnlyOverlapHarms

-----------------------------------------------------------------------------
(* Types and sessions *)

Shape == TypeOK /\ Sessions

LEMMA Kinds ==
  /\ \A d \in Domain : Source(d) \in Row
  /\ \A u \in Url : Page(u) \in Row
  /\ \A w \in Row : Insert(w) \in Change /\ Update(w) \in Change
  /\ \A w : Insert(w).insert /\ ~Update(w).insert
  /\ \A c \in Change : c.row.table = "sources" => c.row.key \in Domain
  /\ \A c \in Change : c.row.table # "sources" => c.row.key \in Url
<1>1. /\ \A d \in Domain : Source(d) \in Row
      /\ \A u \in Url : Page(u) \in Row
  BY DEF Row
<1>2. /\ \A w \in Row : Insert(w) \in Change /\ Update(w) \in Change
      /\ \A w : Insert(w).insert /\ ~Update(w).insert
  BY DEF Insert, Update, Change
<1>3. \A w \in Row : /\ w.table = "sources" => w.key \in Domain
                     /\ w.table # "sources" => w.key \in Url
  BY DEF Row, Source, Page
<1>4. \A c \in Change : c.row \in Row
  BY DEF Change
<1> QED
  BY <1>1, <1>2, <1>3, <1>4

LEMMA ItemTypes ==
  ASSUME TypeOK, NEW r \in Run, todo[r] # <<>>
  PROVE  /\ item(r).domain \in Domain \cup {None} /\ item(r).url \in Url
         /\ Tail(todo[r]) \in Seq(Item)
<1>1. todo[r] \in Seq(Item)
  BY DEF TypeOK
<1>2. Head(todo[r]) \in Item /\ Tail(todo[r]) \in Seq(Item)
  BY <1>1, SMT
<1> QED
  BY <1>2 DEF item, Item

LEMMA FreshTypes == Fresh \in Session
  BY DEF Fresh, Session

LEMMA CarriedTypes ==
  ASSUME Shape, NEW r \in Run, NEW c \in Current(r)
  PROVE  /\ c \in session[r].sending /\ c \in Change
         /\ Carried(r, c) \in Session
         /\ Carried(r, c).pending = session[r].pending
         /\ Carried(r, c).sending = session[r].sending \ {c}
         /\ Carried(r, c).waiting = {}
         /\ \A x \in Carried(r, c).added : x[2] = r
<1>1. c \in session[r].sending /\ session[r] \in Session
  BY DEF Current, Shape, Sessions, TypeOK
<1>2. c \in Change
  BY <1>1 DEF Session
<1>3. Len(todo[r]) \in Nat
  BY SMT DEF Shape, TypeOK
<1>4. c.row.table # "sources" => <<c.row.key, r, Len(todo[r])>> \in Document
  BY <1>2, <1>3, Kinds DEF Document
<1>5. c.row \in Row
  BY <1>2 DEF Change
<1>6. \A x \in session[r].added : x[2] = r
  BY DEF Shape, Sessions
<1>7. CASE ~c.insert
  BY <1>1, <1>2, <1>5, <1>6, <1>7 DEF Carried, Session
<1>8. CASE c.insert /\ c.row.table = "sources"
  BY <1>1, <1>2, <1>6, <1>8, Kinds DEF Carried, Session
<1>9. CASE c.insert /\ c.row.table # "sources"
  <2> DEFINE x == <<c.row.key, r, Len(todo[r])>>
  <2>1. x \in Document /\ x[2] = r
    BY <1>4, <1>9
  <2> HIDE DEF x
  <2>2. Carried(r, c) = [session[r] EXCEPT !.sending = @ \ {c}, !.waiting = {},
                                           !.added = @ \cup {x}]
    BY <1>1, <1>9 DEF Carried, x, Session
  <2>3. /\ Carried(r, c).pending = session[r].pending
        /\ Carried(r, c).sending = session[r].sending \ {c}
        /\ Carried(r, c).waiting = {}
        /\ Carried(r, c).added = session[r].added \cup {x}
    BY <1>1, <2>2 DEF Session
  <2>4. Carried(r, c) \in Session
    <3>1. session[r].sending \ {c} \in SUBSET Change /\ {} \in SUBSET Change
          /\ session[r].added \cup {x} \in SUBSET Document
      BY <1>1, <2>1 DEF Session
    <3> QED
      BY <1>1, <2>2, <3>1 DEF Session
  <2> QED
    BY <1>1, <1>2, <1>6, <2>1, <2>3, <2>4
<1> QED
  BY <1>7, <1>8, <1>9

LEMMA ShapeInit == Init => Shape
<1> SUFFICES ASSUME Init PROVE Shape
  OBVIOUS
<1>1. todo \in [Run -> Seq(Item)]
  <2>1. Plans \subseteq Seq(Item)
    BY StoreAssumption
  <2>2. todo \in [Run -> Plans]
    BY DEF Init
  <2> QED
    BY <2>1, <2>2
<1>2. session \in [Run -> Session] /\ pc \in [Run -> {"queued"}]
  BY FreshTypes DEF Init
<1>3. \A r \in Run : pc[r] = "queued" /\ session[r] = Fresh
  BY DEF Init
<1>4. TypeOK
  BY <1>1, <1>2, <1>3, Zenon DEF Init, TypeOK
<1>5. Sessions
  BY <1>3 DEF Sessions, Fresh
<1> QED
  BY <1>4, <1>5 DEF Shape

Place == {"queued"} \cup Active \cup Ended

\* What a step of r makes of r's own place and session is in order.
InOrder(r) ==
  /\ pc[r] \in {"queued"} \cup Ended => session[r] = Fresh
  /\ pc[r] = "document" => todo[r] # <<>>
  /\ session[r].waiting \subseteq session[r].sending
  /\ \A c \in session[r].pending : ~c.insert
  /\ \A x \in session[r].added : x[2] = r

LEMMA ShapeOrder == Shape => \A r \in Run : InOrder(r)
  BY DEF Shape, TypeOK, Sessions, InOrder

\* A step of one run keeps the shape if what it makes of its own session has it.
LEMMA Move ==
  ASSUME Shape, NEW r \in Run,
         session' \in [Run -> Session], pc' \in [Run -> Place], todo' \in [Run -> Seq(Item)],
         \A q \in Run \ {r} : session'[q] = session[q] /\ pc'[q] = pc[q] /\ todo'[q] = todo[q],
         InOrder(r)',
         sources' \subseteq Domain, documents' \subseteq Document, met' \subseteq SUBSET Run
  PROVE  Shape'
<1>1. ASSUME NEW q \in Run PROVE InOrder(q)'
  <2>1. CASE q = r
    BY <2>1
  <2>2. CASE q # r
    BY <2>2, ShapeOrder DEF InOrder
  <2> QED
    BY <2>1, <2>2
<1> QED
  BY <1>1 DEF Shape, TypeOK, Sessions, InOrder, Place

\* The session of one run replaced by another, the run sent to another place.
LEMMA Replaced ==
  ASSUME Shape, NEW r \in Run, NEW N \in Session, session' = [session EXCEPT ![r] = N]
  PROVE  /\ session' \in [Run -> Session] /\ session'[r] = N
         /\ \A q \in Run \ {r} : session'[q] = session[q]
  BY DEF Shape, TypeOK

LEMMA Gone ==
  ASSUME Shape, NEW r \in Run, NEW p \in Place, Goto(r, p)
  PROVE  /\ pc' \in [Run -> Place] /\ pc'[r] = p
         /\ \A q \in Run \ {r} : pc'[q] = pc[q]
  BY DEF Shape, TypeOK, Goto, Place

LEMMA ShapeStep == ASSUME Shape, [Next]_vars PROVE Shape'
<1>0. /\ session \in [Run -> Session] /\ pc \in [Run -> Place]
      /\ sources \subseteq Domain /\ documents \subseteq Document
      /\ met \subseteq SUBSET Run /\ todo \in [Run -> Seq(Item)]
  BY DEF Shape, TypeOK, Place
<1>01. \A r \in Run : InOrder(r)
  BY ShapeOrder
<1>02. /\ "source" \in Place /\ "document" \in Place /\ "ending" \in Place /\ "failing" \in Place
       /\ "completed" \in Place /\ "degraded" \in Place /\ "escaped" \in Place /\ "killed" \in Place
       /\ {"source", "document", "ending", "failing"} \cap ({"queued"} \cup Ended) = {}
  BY DEF Place, Active, Ended
<1>1. ASSUME NEW r \in Run, Begin(r) PROVE Shape'
  <2>1. met' \subseteq SUBSET Run
    BY <1>0, <1>1 DEF Begin
  <2>2. /\ session' = session /\ pc[r] = "queued" /\ Goto(r, "source")
        /\ UNCHANGED <<sources, documents, todo>>
    BY <1>1 DEF Begin
  <2>3. /\ pc' \in [Run -> Place] /\ pc'[r] = "source"
        /\ \A q \in Run \ {r} : pc'[q] = pc[q]
    BY <1>02, <2>2, Gone
  <2>4. InOrder(r)'
    BY <1>01, <1>02, <2>2, <2>3 DEF InOrder
  <2> QED
    BY <1>0, <2>1, <2>2, <2>3, <2>4, Move
<1>2. ASSUME NEW r \in Run, NEW p \in {"source", "document", "ending", "failing"}, pc' = [pc EXCEPT ![r] = p],
             NEW C \in SUBSET Change, Flush(r, C) \/ (Pend(r, C) /\ \A c \in C : ~c.insert),
             session[r].sending = {},
             todo' \in [Run -> Seq(Item)], \A q \in Run \ {r} : todo'[q] = todo[q],
             p = "document" => todo'[r] # <<>>,
             UNCHANGED <<sources, documents, met>>
      PROVE  Shape'
  <2>1. PICK N \in Session :
          /\ session' = [session EXCEPT ![r] = N]
          /\ N.waiting = {} /\ N.added = session[r].added
          /\ \A c \in N.pending : ~c.insert
    <3>1. session[r] \in Session /\ session[r].waiting = {} /\ \A c \in session[r].pending : ~c.insert
      BY <1>0, <1>01, <1>2 DEF InOrder
    <3>2. CASE Flush(r, C)
      <4> DEFINE N == [session[r] EXCEPT !.sending = session[r].pending \cup C, !.pending = {}]
      <4>1. session[r].pending \cup C \in SUBSET Change /\ {} \in SUBSET Change
        BY <1>2, <3>1 DEF Session
      <4>2. N \in Session /\ N.waiting = {} /\ N.added = session[r].added /\ N.pending = {}
        BY <3>1, <4>1 DEF Session
      <4>3. session' = [session EXCEPT ![r] = N]
        BY <1>0, <3>2 DEF Flush
      <4> QED
        BY <4>2, <4>3
    <3>3. CASE Pend(r, C) /\ \A c \in C : ~c.insert
      <4> DEFINE N == [session[r] EXCEPT !.pending = session[r].pending \cup C]
      <4>1. session[r].pending \cup C \in SUBSET Change
        BY <1>2, <3>1 DEF Session
      <4>2. /\ N \in Session /\ N.waiting = {} /\ N.added = session[r].added
            /\ N.pending = session[r].pending \cup C
        BY <3>1, <4>1 DEF Session
      <4>3. session' = [session EXCEPT ![r] = N]
        BY <1>0, <3>3 DEF Pend
      <4>4. \A c \in N.pending : ~c.insert
        BY <3>1, <3>3, <4>2
      <4> QED
        BY <4>2, <4>3, <4>4
    <3> QED
      BY <1>2, <3>2, <3>3
  <2>2. /\ session' \in [Run -> Session] /\ session'[r] = N
        /\ \A q \in Run \ {r} : session'[q] = session[q]
    BY <2>1, Replaced
  <2>3. /\ pc' \in [Run -> Place] /\ pc'[r] = p
        /\ \A q \in Run \ {r} : pc'[q] = pc[q]
    BY <1>0, <1>02, <1>2
  <2>4. InOrder(r)'
    BY <1>01, <1>02, <1>2, <2>1, <2>2, <2>3 DEF InOrder
  <2> QED
    BY <1>0, <1>2, <2>2, <2>3, <2>4, Move
<1>3. ASSUME NEW r \in Run, FindSource(r) PROVE Shape'
  <2> DEFINE d == item(r).domain
  <2>1. /\ session[r].sending = {} /\ todo[r] # <<>> /\ UNCHANGED <<sources, documents, todo, met>>
        /\ pc' = [pc EXCEPT ![r] = "document"] /\ Shape
    BY <1>3 DEF FindSource, At, Goto
  <2>2. d \in Domain \cup {None}
    BY <2>1, ItemTypes DEF Shape
  <2>3. PICK C \in SUBSET Change : Flush(r, C) \/ (Pend(r, C) /\ \A c \in C : ~c.insert)
    <3>1. CASE d = None /\ UNCHANGED session
      <4>1. [session[r] EXCEPT !.pending = session[r].pending \cup {}] = session[r]
        <5>1. session[r] \in Session /\ session[r].pending \cup {} = session[r].pending
          BY <1>0
        <5> QED
          BY <5>1 DEF Session
      <4>2. session' = [session EXCEPT ![r] = session[r]]
        BY <1>0, <3>1
      <4>3. Pend(r, {})
        BY <1>0, <4>1, <4>2 DEF Pend
      <4> QED
        BY <4>3
    <3>2. CASE d # None /\ Flush(r, {Insert(Source(d))})
      BY <2>2, <3>2, Kinds
    <3>3. CASE d # None /\ \E C \in SUBSET {Update(Source(d))} : Pend(r, C)
      BY <2>2, <3>3, Kinds
    <3> QED
      BY <1>3, <3>1, <3>2, <3>3 DEF FindSource
  <2> QED
    BY <1>0, <1>2, <2>1, <2>3
<1>4. ASSUME NEW r \in Run, FindDocument(r) PROVE Shape'
  <2> DEFINE page == Page(item(r).url)
  <2>1. /\ session[r].sending = {} /\ pc[r] = "document" /\ UNCHANGED <<sources, documents, met>>
        /\ pc' = [pc EXCEPT ![r] = "source"] /\ todo' = [todo EXCEPT ![r] = Tail(@)]
    BY <1>4 DEF FindDocument, At, Goto
  <2>2. todo[r] # <<>>
    BY <1>01, <2>1 DEF InOrder
  <2>3. item(r).url \in Url /\ Tail(todo[r]) \in Seq(Item)
    BY <2>2, ItemTypes DEF Shape
  <2>4. todo' \in [Run -> Seq(Item)] /\ \A q \in Run \ {r} : todo'[q] = todo[q]
    BY <1>0, <2>1, <2>3
  <2>5. PICK C \in SUBSET Change : Flush(r, C) \/ (Pend(r, C) /\ \A c \in C : ~c.insert)
    <3>1. CASE Flush(r, {Insert(page)})
      BY <2>3, <3>1, Kinds
    <3>2. CASE \E C \in SUBSET {Update(page)} : IF item(r).last THEN Flush(r, C) ELSE Pend(r, C)
      BY <2>3, <3>2, Kinds
    <3> QED
      BY <1>4, <3>1, <3>2 DEF FindDocument
  <2> QED
    BY <1>2, <2>1, <2>4, <2>5
<1>5. ASSUME NEW r \in Run, FindTwoDocuments(r) \/ EndStage(r) PROVE Shape'
  <2>1. PICK p \in {"failing", "ending"} : pc' = [pc EXCEPT ![r] = p]
    BY <1>5 DEF FindTwoDocuments, EndStage, Goto
  <2>2. Flush(r, {}) /\ session[r].sending = {} /\ UNCHANGED <<sources, documents, todo, met>>
    BY <1>5 DEF FindTwoDocuments, EndStage, At
  <2> QED
    BY <1>0, <1>2, <2>1, <2>2
<1>6. ASSUME NEW r \in Run, Wait(r) PROVE Shape'
  <2>1. PICK c \in session[r].sending : session' = [session EXCEPT ![r] = [@ EXCEPT !.waiting = {c}]]
    BY <1>6 DEF Wait
  <2> DEFINE N == [session[r] EXCEPT !.waiting = {c}]
  <2>2. session[r] \in Session /\ c \in Change
    BY <1>0 DEF Session
  <2>3. {c} \in SUBSET Change
    BY <2>2
  <2>4. /\ N \in Session /\ N.waiting = {c} /\ N.sending = session[r].sending
        /\ N.pending = session[r].pending /\ N.added = session[r].added
    BY <2>2, <2>3 DEF Session
  <2>5. session' = [session EXCEPT ![r] = N]
    BY <1>0, <2>1
  <2> HIDE DEF N
  <2>6. /\ session' \in [Run -> Session] /\ session'[r] = N
        /\ \A q \in Run \ {r} : session'[q] = session[q]
    BY <2>4, <2>5, Replaced
  <2>7. pc[r] \notin {"queued"} \cup Ended
    BY <1>01, <2>1 DEF InOrder, Fresh
  <2>8. UNCHANGED <<sources, documents, pc, todo, met>>
    BY <1>6 DEF Wait
  <2>9. InOrder(r)'
    BY <1>01, <2>4, <2>6, <2>7, <2>8 DEF InOrder
  <2> QED
    BY <1>0, <2>6, <2>8, <2>9, Move
<1>7. ASSUME NEW r \in Run, Execute(r) PROVE Shape'
  <2>1. PICK c \in Current(r) : session' = [session EXCEPT ![r] = Carried(r, c)]
    BY <1>7 DEF Execute
  <2>2. UNCHANGED <<sources, documents, pc, todo, met>>
    BY <1>7 DEF Execute
  <2>3. /\ c \in session[r].sending /\ Carried(r, c) \in Session
        /\ Carried(r, c).pending = session[r].pending
        /\ Carried(r, c).waiting = {}
        /\ \A x \in Carried(r, c).added : x[2] = r
    BY CarriedTypes
  <2>4. pc[r] \notin {"queued"} \cup Ended
    BY <1>01, <2>3 DEF InOrder, Fresh
  <2>5. /\ session' \in [Run -> Session] /\ session'[r] = Carried(r, c)
        /\ \A q \in Run \ {r} : session'[q] = session[q]
    BY <2>1, <2>3, Replaced
  <2>6. InOrder(r)'
    BY <1>01, <2>2, <2>3, <2>4, <2>5 DEF InOrder
  <2> QED
    BY <1>0, <2>2, <2>5, <2>6, Move
<1>8. ASSUME NEW r \in Run, NEW p \in Ended, Rollback(r), Goto(r, p),
             UNCHANGED <<sources, documents, todo, met>>
      PROVE  Shape'
  <2>1. /\ session' \in [Run -> Session] /\ session'[r] = Fresh
        /\ \A q \in Run \ {r} : session'[q] = session[q]
    BY <1>8, FreshTypes, Replaced DEF Rollback
  <2>2. /\ pc' \in [Run -> Place] /\ pc'[r] = p
        /\ \A q \in Run \ {r} : pc'[q] = pc[q]
    BY <1>8, Gone DEF Place
  <2>3. InOrder(r)'
    BY <2>1, <2>2 DEF InOrder, Fresh, Ended
  <2> QED
    BY <1>0, <1>8, <2>1, <2>2, <2>3, Move
<1>9. ASSUME NEW r \in Run, Commit(r) PROVE Shape'
  <2>1. session[r].born \subseteq Domain /\ session[r].added \subseteq Document
    BY <1>0 DEF Session
  <2>2. sources' \subseteq Domain /\ documents' \subseteq Document /\ UNCHANGED <<todo, met>>
    BY <1>0, <1>9, <2>1 DEF Commit
  <2>3. /\ session' \in [Run -> Session] /\ session'[r] = Fresh
        /\ \A q \in Run \ {r} : session'[q] = session[q]
    BY <1>9, FreshTypes, Replaced DEF Commit
  <2>4. PICK p \in {"completed", "degraded"} : Goto(r, p)
    BY <1>9 DEF Commit
  <2>5. /\ pc' \in [Run -> Place] /\ pc'[r] = p
        /\ \A q \in Run \ {r} : pc'[q] = pc[q]
    BY <1>02, <2>4, Gone
  <2>6. InOrder(r)'
    BY <2>3, <2>5 DEF InOrder, Fresh
  <2> QED
    BY <1>0, <2>2, <2>3, <2>5, <2>6, Move
<1>10. ASSUME NEW r \in Run, Escape(r) PROVE Shape'
  BY <1>8, <1>10 DEF Escape, Ended
<1>11. ASSUME NEW r \in Run, Kill(r) PROVE Shape'
  BY <1>8, <1>11 DEF Kill, Ended
<1>12. CASE UNCHANGED vars
  BY <1>12 DEF vars, Shape, TypeOK, Sessions
<1> QED
  BY <1>1, <1>3, <1>4, <1>5, <1>6, <1>7, <1>9, <1>10, <1>11, <1>12 DEF Next, Step

-----------------------------------------------------------------------------
(* What a step of a run does to the rows *)

LEMMA RowsAre ==
  /\ \A x : x \in Rows <=> x \in documents \/ \E q \in Run : x \in session[q].added
  /\ Shape => Rows \subseteq Document
<1>1. \A x : x \in Rows <=> x \in documents \/ \E q \in Run : x \in session[q].added
  BY DEF Rows
<1>2. Shape => \A q \in Run : session[q].added \subseteq Document
  <2> SUFFICES ASSUME Shape, NEW q \in Run PROVE session[q].added \subseteq Document
    OBVIOUS
  <2>1. session[q] \in Session
    BY DEF Shape, TypeOK
  <2> QED
    BY <2>1 DEF Session
<1>3. Shape => documents \subseteq Document
  BY DEF Shape, TypeOK
<1> QED
  BY <1>1, <1>2, <1>3

\* A row that a step of r adds is one that r was sending.
NewRows(r) ==
  /\ documents \subseteq documents'
  /\ \A x \in session'[r].added \ session[r].added :
       x[2] = r /\ Insert(Page(x[1])) \in session[r].sending \ session'[r].sending
  /\ \A x, y \in session'[r].added \ session[r].added : x = y
  /\ documents' \subseteq documents \cup session[r].added

\* An insert that it begins to send is one that its session did not find the row for.
NewInserts(r) ==
  \A c \in session'[r].sending : c.insert /\ c \notin session[r].sending =>
    /\ documents' = documents /\ sources' = sources /\ session'[r].added = session[r].added
    /\ \A u \in Url : c = Insert(Page(u)) => Seen(r, u) = {}
    /\ \A d \in Domain : c = Insert(Source(d)) => d \notin sources

\* Publishers are committed by an active run that has sent everything.
NewSources(r) ==
  /\ sources \subseteq sources'
  /\ sources' # sources => pc[r] \in Active /\ session'[r].sending = {}

\* Only Begin makes a run active.
NewPlace(r) ==
  /\ met \subseteq met'
  /\ pc'[r] \in Active /\ pc[r] \notin Active =>
       \A q \in Run \ {r} : pc[q] \in Active => {r, q} \in met'

\* How it comes to a bad end.
NewEnd(r) ==
  /\ pc'[r] = "failing" =>
       /\ session[r].added \subseteq session'[r].added
       /\ \/ pc[r] = "failing"
          \/ \E x, y \in documents \cup session[r].added : x[1] = y[1] /\ x # y
  /\ pc'[r] = "degraded" /\ pc[r] # "degraded" =>
       pc[r] = "failing" /\ documents' = documents \cup session[r].added
  /\ pc'[r] = "escaped" /\ pc[r] # "escaped" =>
       \/ InCycle(r)
       \/ \E d \in Domain : Insert(Source(d)) \in session[r].sending /\ d \in sources

Others(r) == \A q \in Run \ {r} : session'[q] = session[q] /\ pc'[q] = pc[q]

Effect(r) == /\ Others(r) /\ NewRows(r) /\ NewInserts(r) /\ NewSources(r)
             /\ NewPlace(r) /\ NewEnd(r)

LEMMA SourceIsNotPage ==
  /\ \A d : \A u : Insert(Source(d)) # Insert(Page(u))
  /\ \A d, e : Insert(Source(d)) = Insert(Source(e)) => d = e
  /\ \A u, v : Insert(Page(u)) = Insert(Page(v)) => u = v
<1>1. \A a, b : Insert(a) = Insert(b) => a = b
  BY DEF Insert
<1>2. \A d : \A u : Source(d) # Page(u)
  BY DEF Source, Page
<1>3. \A d, e : Source(d) = Source(e) => d = e
  BY DEF Source
<1>4. \A u, v : Page(u) = Page(v) => u = v
  BY DEF Page
<1> QED
  BY <1>1, <1>2, <1>3, <1>4

\* A step that sends no insert it was not sending, and adds no row.
LEMMA QuietEffect ==
  ASSUME NEW r \in Run, Others(r), NewEnd(r), pc'[r] \in Active => pc[r] \in Active,
         UNCHANGED <<sources, documents, met>>,
         session'[r].added \subseteq session[r].added,
         \A c \in session'[r].sending : c.insert => c \in session[r].sending
  PROVE  Effect(r)
  BY DEF Effect, NewRows, NewInserts, NewSources, NewPlace

\* What a flush, or a change left pending, makes of the session.
LEMMA Sends ==
  ASSUME Shape, NEW r \in Run, session[r].sending = {}, NEW C,
         Flush(r, C) \/ Pend(r, C)
  PROVE  /\ session'[r].added = session[r].added
         /\ \A q \in Run \ {r} : session'[q] = session[q]
         /\ \A c \in session'[r].sending : c.insert => c \in C
<1>1. session \in [Run -> Session] /\ \A c \in session[r].pending : ~c.insert
  BY DEF Shape, TypeOK, Sessions
<1>2. CASE Flush(r, C)
  <2>1. /\ session'[r] = [session[r] EXCEPT !.sending = session[r].pending \cup C, !.pending = {}]
        /\ \A q \in Run \ {r} : session'[q] = session[q]
    BY <1>1, <1>2 DEF Flush
  <2>2. /\ session'[r].added = session[r].added
        /\ session'[r].sending = session[r].pending \cup C
    BY <1>1, <2>1 DEF Session
  <2> QED
    BY <1>1, <2>1, <2>2
<1>3. CASE Pend(r, C)
  <2>1. /\ session'[r] = [session[r] EXCEPT !.pending = session[r].pending \cup C]
        /\ \A q \in Run \ {r} : session'[q] = session[q]
    BY <1>1, <1>3 DEF Pend
  <2>2. session'[r].added = session[r].added /\ session'[r].sending = session[r].sending
    BY <1>1, <2>1 DEF Session
  <2> QED
    BY <2>1, <2>2
<1> QED
  BY <1>2, <1>3

LEMMA Effects == ASSUME Shape, Next PROVE \E r \in Run : Effect(r)
<1>0. /\ session \in [Run -> Session] /\ pc \in [Run -> Place]
      /\ sources \subseteq Domain
  BY DEF Shape, TypeOK, Place
<1>1. ASSUME NEW r \in Run, Begin(r) PROVE Effect(r)
  <2>1. /\ session' = session /\ Goto(r, "source") /\ UNCHANGED <<sources, documents>>
        /\ met' = met \cup {{r, q} : q \in {p \in Run \ {r} : pc[p] \in Active}}
    BY <1>1 DEF Begin
  <2>2. Others(r)
    BY <1>0, <2>1 DEF Others, Goto
  <2>3. NewRows(r) /\ NewInserts(r) /\ NewSources(r)
    BY <2>1 DEF NewRows, NewInserts, NewSources
  <2>4. NewPlace(r) /\ NewEnd(r)
    BY <1>0, <2>1 DEF NewPlace, NewEnd, Goto
  <2> QED
    BY <2>2, <2>3, <2>4 DEF Effect
<1>2. ASSUME NEW r \in Run, FindSource(r) PROVE Effect(r)
  <2> DEFINE d == item(r).domain
  <2>1. /\ session[r].sending = {} /\ todo[r] # <<>> /\ UNCHANGED <<sources, documents, met>>
        /\ Goto(r, "document") /\ pc[r] \in Active
    BY <1>2 DEF FindSource, At, Active
  <2>2. d \in Domain \cup {None}
    BY <2>1, ItemTypes DEF Shape
  <2>3. NewEnd(r) /\ \A q \in Run \ {r} : pc'[q] = pc[q]
    BY <1>0, <2>1 DEF Goto, NewEnd
  <2>4. CASE UNCHANGED session
    <3>1. Others(r) /\ \A c \in session'[r].sending : c \in session[r].sending
      BY <2>3, <2>4 DEF Others
    <3> QED
      BY <2>1, <2>3, <2>4, <3>1, QuietEffect
  <2>5. CASE d # None /\ ~Known(r, d) /\ Flush(r, {Insert(Source(d))})
    <3>1. /\ session'[r].added = session[r].added
          /\ \A q \in Run \ {r} : session'[q] = session[q]
          /\ \A c \in session'[r].sending : c.insert => c = Insert(Source(d))
      BY <2>1, <2>5, Sends
    <3>2. d \notin sources
      BY <2>5 DEF Known
    <3> HIDE DEF d
    <3>3. NewInserts(r)
      BY <2>1, <3>1, <3>2, SourceIsNotPage DEF NewInserts
    <3> QED
      BY <2>1, <2>3, <3>1, <3>3 DEF Effect, Others, NewRows, NewSources, NewPlace
  <2>6. CASE d # None /\ \E C \in SUBSET {Update(Source(d))} : Pend(r, C)
    <3>1. PICK C \in SUBSET {Update(Source(d))} : Pend(r, C)
      BY <2>6
    <3>2. \A c \in C : ~c.insert
      BY <3>1, Kinds
    <3>3. /\ session'[r].added = session[r].added
          /\ \A q \in Run \ {r} : session'[q] = session[q]
          /\ \A c \in session'[r].sending : c.insert => c \in C
      BY <2>1, <3>1, Sends
    <3>4. Others(r) /\ \A c \in session'[r].sending : c.insert => c \in session[r].sending
      BY <2>3, <3>2, <3>3 DEF Others
    <3> QED
      BY <2>1, <2>3, <3>3, <3>4, QuietEffect
  <2> QED
    BY <1>2, <2>4, <2>5, <2>6 DEF FindSource
<1>3. ASSUME NEW r \in Run, FindDocument(r) PROVE Effect(r)
  <2> DEFINE u == item(r).url  page == Page(u)
  <2>1. /\ session[r].sending = {} /\ UNCHANGED <<sources, documents, met>>
        /\ Goto(r, "source") /\ pc[r] \in Active
    BY <1>3 DEF FindDocument, At, Active
  <2>2. NewEnd(r) /\ \A q \in Run \ {r} : pc'[q] = pc[q]
    BY <1>0, <2>1 DEF Goto, NewEnd
  <2>3. CASE Seen(r, u) = {} /\ Flush(r, {Insert(page)})
    <3>1. /\ session'[r].added = session[r].added
          /\ \A q \in Run \ {r} : session'[q] = session[q]
          /\ \A c \in session'[r].sending : c.insert => c = Insert(page)
      BY <2>1, <2>3, Sends
    <3> HIDE DEF u
    <3>2. NewInserts(r)
      BY <2>1, <2>3, <3>1, SourceIsNotPage DEF NewInserts
    <3> QED
      BY <2>1, <2>2, <3>1, <3>2 DEF Effect, Others, NewRows, NewSources, NewPlace
  <2>4. CASE \E C \in SUBSET {Update(page)} : IF item(r).last THEN Flush(r, C) ELSE Pend(r, C)
    <3>1. PICK C \in SUBSET {Update(page)} : Flush(r, C) \/ Pend(r, C)
      BY <2>4
    <3>2. \A c \in C : ~c.insert
      BY <3>1, Kinds
    <3>3. /\ session'[r].added = session[r].added
          /\ \A q \in Run \ {r} : session'[q] = session[q]
          /\ \A c \in session'[r].sending : c.insert => c \in C
      BY <2>1, <3>1, Sends
    <3>4. Others(r) /\ \A c \in session'[r].sending : c.insert => c \in session[r].sending
      BY <2>2, <3>2, <3>3 DEF Others
    <3> QED
      BY <2>1, <2>2, <3>3, <3>4, QuietEffect
  <2> QED
    BY <1>3, <2>3, <2>4 DEF FindDocument
<1>4. ASSUME NEW r \in Run, FindTwoDocuments(r) \/ EndStage(r) PROVE Effect(r)
  <2>1. /\ session[r].sending = {} /\ UNCHANGED <<sources, documents, met>>
        /\ \/ Goto(r, "ending")
           \/ Goto(r, "failing") /\ \E x, y \in Seen(r, item(r).url) : x # y
        /\ pc[r] \in Active /\ Flush(r, {})
    BY <1>4 DEF FindTwoDocuments, EndStage, At, Active
  <2>2. \A q \in Run \ {r} : pc'[q] = pc[q]
    BY <1>0, <2>1 DEF Goto
  <2>3. /\ session'[r].added = session[r].added
        /\ \A q \in Run \ {r} : session'[q] = session[q]
        /\ \A c \in session'[r].sending : ~c.insert
    BY <2>1, Sends
  <2>4. Others(r)
    BY <2>2, <2>3 DEF Others
  <2>5. NewEnd(r)
    <3>1. CASE Goto(r, "ending")
      BY <1>0, <3>1 DEF Goto, NewEnd
    <3>2. CASE Goto(r, "failing") /\ \E x, y \in Seen(r, item(r).url) : x # y
      <4>1. \E x, y \in documents \cup session[r].added : x[1] = y[1] /\ x # y
        BY <3>2 DEF Seen
      <4> QED
        BY <1>0, <2>3, <3>2, <4>1 DEF Goto, NewEnd
    <3> QED
      BY <2>1, <3>1, <3>2
  <2> QED
    BY <2>1, <2>3, <2>4, <2>5, QuietEffect
<1>5. ASSUME NEW r \in Run, Wait(r) PROVE Effect(r)
  <2>1. /\ \E c : session' = [session EXCEPT ![r] = [@ EXCEPT !.waiting = {c}]]
        /\ UNCHANGED <<sources, documents, pc, met>>
    BY <1>5 DEF Wait
  <2>2. /\ session'[r].added = session[r].added /\ session'[r].sending = session[r].sending
        /\ \A q \in Run \ {r} : session'[q] = session[q]
    BY <1>0, <2>1 DEF Session
  <2>3. Others(r) /\ NewEnd(r)
    <3>1. pc'[r] = "failing" => pc[r] = "failing"
      BY <2>1
    <3> QED
      BY <2>1, <2>2, <3>1 DEF Others, NewEnd
  <2> QED
    BY <2>1, <2>2, <2>3, QuietEffect
<1>6. ASSUME NEW r \in Run, Execute(r) PROVE Effect(r)
  <2>1. PICK c \in Current(r) : session' = [session EXCEPT ![r] = Carried(r, c)]
    BY <1>6 DEF Execute
  <2>2. UNCHANGED <<sources, documents, pc, met>>
    BY <1>6 DEF Execute
  <2>3. /\ c \in session[r].sending /\ c \in Change /\ Carried(r, c) \in Session
        /\ Carried(r, c).sending = session[r].sending \ {c}
    BY CarriedTypes
  <2>4. /\ session'[r] = Carried(r, c)
        /\ \A q \in Run \ {r} : session'[q] = session[q]
    BY <2>1, <2>3, Replaced
  <2>5. ASSUME NEW x \in Carried(r, c).added \ session[r].added
        PROVE  x = <<c.row.key, r, Len(todo[r])>> /\ x[2] = r /\ c = Insert(Page(x[1]))
    <3> DEFINE s == [session[r] EXCEPT !.sending = @ \ {c}, !.waiting = {}]
    <3>1. s.added = session[r].added
      BY <1>0 DEF Session
    <3>2. /\ ~c.insert => Carried(r, c).added = s.added
          /\ c.row.table = "sources" => Carried(r, c).added = s.added
      BY <1>0 DEF Carried, Session
    <3>3. c.insert /\ c.row.table # "sources"
      BY <2>5, <3>1, <3>2
    <3>4. Carried(r, c).added = session[r].added \cup {<<c.row.key, r, Len(todo[r])>>}
      BY <1>0, <3>3 DEF Carried, Session
    <3>5. x = <<c.row.key, r, Len(todo[r])>> /\ x[2] = r /\ x[1] = c.row.key
      BY <2>5, <3>4
    <3>6. c.row = Page(c.row.key)
      BY <2>3, <3>3 DEF Change, Row, Source, Page
    <3>7. c = [insert |-> TRUE, row |-> c.row]
      BY <2>3, <3>3 DEF Change
    <3> QED
      BY <3>5, <3>6, <3>7 DEF Insert
  <2>6. NewRows(r)
    BY <2>2, <2>3, <2>4, <2>5 DEF NewRows
  <2>7. NewInserts(r)
    BY <2>3, <2>4 DEF NewInserts
  <2>8. NewEnd(r)
    <3>1. session[r].added \subseteq Carried(r, c).added
      BY <1>0 DEF Carried, Session
    <3> QED
      BY <2>2, <2>4, <3>1 DEF NewEnd
  <2> QED
    BY <2>2, <2>4, <2>6, <2>7, <2>8 DEF Effect, Others, NewSources, NewPlace
<1>7. ASSUME NEW r \in Run, NEW p \in {"escaped", "killed"}, Rollback(r), Goto(r, p),
             UNCHANGED <<sources, documents, met>>,
             p = "escaped" => \/ InCycle(r)
                              \/ \E d \in Domain : Insert(Source(d)) \in session[r].sending /\ d \in sources
      PROVE  Effect(r)
  <2>1. /\ session'[r] = Fresh /\ pc'[r] = p
        /\ \A q \in Run \ {r} : session'[q] = session[q] /\ pc'[q] = pc[q]
    BY <1>0, <1>7 DEF Rollback, Goto
  <2>2. Others(r) /\ p \notin Active /\ session'[r].added = {} /\ session'[r].sending = {}
    BY <2>1 DEF Others, Fresh, Active
  <2>3. NewEnd(r)
    BY <1>7, <2>1 DEF NewEnd
  <2> QED
    BY <1>7, <2>1, <2>2, <2>3, QuietEffect
<1>8. ASSUME NEW r \in Run, Escape(r) \/ Kill(r) PROVE Effect(r)
  <2>1. CASE Kill(r)
    BY <1>7, <2>1 DEF Kill
  <2>2. CASE Escape(r)
    <3>1. ASSUME NEW c \in Current(r), Violates(c)
          PROVE  \E d \in Domain : Insert(Source(d)) \in session[r].sending /\ d \in sources
      <4>1. c \in session[r].sending /\ c \in Change
        BY CarriedTypes
      <4>2. PICK d \in sources : c.row = Source(d)
        BY <3>1 DEF Violates
      <4>3. c = Insert(Source(d))
        <5>1. c.insert = TRUE /\ c = [insert |-> c.insert, row |-> c.row]
          BY <3>1, <4>1 DEF Violates, Change
        <5> QED
          BY <4>2, <5>1 DEF Insert
      <4> QED
        BY <1>0, <4>1, <4>3
    <3> QED
      BY <1>7, <2>2, <3>1 DEF Escape
  <2> QED
    BY <1>8, <2>1, <2>2
<1>9. ASSUME NEW r \in Run, Commit(r) PROVE Effect(r)
  <2>1. /\ session'[r] = Fresh /\ pc[r] \in Active /\ pc'[r] \notin Active
        /\ \A q \in Run \ {r} : session'[q] = session[q] /\ pc'[q] = pc[q]
    BY <1>0, <1>9 DEF Commit, Goto, At, Active
  <2>2. /\ sources' = sources \cup session[r].born /\ met' = met
        /\ documents' = documents \cup session[r].added
    BY <1>9 DEF Commit
  <2>3. session'[r].added = {} /\ session'[r].sending = {}
    BY <2>1 DEF Fresh
  <2>4. NewEnd(r)
    BY <1>0, <1>9, <2>2 DEF Commit, Goto, At, NewEnd
  <2> QED
    BY <2>1, <2>2, <2>3, <2>4 DEF Effect, Others, NewRows, NewInserts, NewSources, NewPlace
<1> QED
  BY <1>1, <1>2, <1>3, <1>4, <1>5, <1>6, <1>8, <1>9 DEF Next, Step

-----------------------------------------------------------------------------
(* The invariant *)

Meetings == Together /\ RowsRaced /\ AddingRaced /\ SourceRaced

\* A run with anything in its session is active.
LEMMA Busy ==
  ASSUME Shape, NEW r \in Run
  PROVE  /\ session[r] # Fresh => pc[r] \in Active
         /\ session[r].sending # {} => pc[r] \in Active
         /\ session[r].added # {} => pc[r] \in Active
<1>1. pc[r] \in {"queued"} \cup Active \cup Ended
  BY DEF Shape, TypeOK
<1> QED
  BY <1>1, ShapeOrder DEF InOrder, Fresh

LEMMA MeetingsStep ==
  ASSUME Shape, Shape', Meetings, NEW r \in Run, Effect(r)
  PROVE  Meetings'
<1>0. /\ Others(r) /\ NewRows(r) /\ NewInserts(r) /\ NewSources(r) /\ NewPlace(r)
      /\ Together /\ RowsRaced /\ AddingRaced /\ SourceRaced /\ met \subseteq met'
  BY DEF Effect, Meetings, NewPlace
<1>1. Together'
  <2> SUFFICES ASSUME NEW p \in Run, NEW q \in Run, p # q, pc'[p] \in Active, pc'[q] \in Active
               PROVE  {p, q} \in met'
    BY DEF Together, Raced
  <2>1. CASE pc[p] \in Active /\ pc[q] \in Active
    BY <1>0, <2>1 DEF Together, Raced
  <2>2. CASE p = r
    BY <1>0, <2>1, <2>2 DEF Others, NewPlace
  <2>3. CASE q = r
    <3>1. {q, p} \in met'
      BY <1>0, <2>1, <2>3 DEF Others, NewPlace
    <3> QED
      BY <3>1
  <2>4. CASE p # r /\ q # r
    BY <1>0, <2>1, <2>4 DEF Others
  <2> QED
    BY <2>2, <2>3, <2>4
<1>2. \A x \in Rows' : x \in Rows \/ (x \in session'[r].added \ session[r].added)
  BY <1>0, RowsAre DEF Others, NewRows, Rows
<1>3. \A x \in Rows' : x[1] \in Url
  <2>1. documents' \subseteq Document /\ \A q \in Run : session'[q] \in Session
    BY DEF Shape, TypeOK
  <2>2. \A q \in Run : session'[q].added \subseteq Document
    BY <2>1 DEF Session
  <2>3. Rows' \subseteq Document
    BY <2>1, <2>2 DEF Rows
  <2> QED
    BY <2>3 DEF Document
<1>4. /\ \A q \in Run : session[q].sending # {} => pc[q] \in Active
      /\ \A q \in Run : session'[q].sending # {} => pc'[q] \in Active
      /\ \A q \in Run : session[q].added # {} => pc[q] \in Active
  <2>1. ASSUME NEW q \in Run, session'[q].sending # {} PROVE pc'[q] \in Active
    <3>1. session'[q] # Fresh
      BY <2>1 DEF Fresh
    <3>2. pc'[q] \in {"queued"} \cup Active \cup Ended
      BY DEF Shape, TypeOK
    <3> QED
      BY <3>1, <3>2 DEF Shape, TypeOK, Sessions
  <2> QED
    BY <2>1, Busy
<1>5. \A x \in Rows' \ Rows : x[2] = r /\ Insert(Page(x[1])) \in session[r].sending \ session'[r].sending
  BY <1>0, <1>2 DEF NewRows
<1>6. \A x, y \in Rows' \ Rows : x = y
  BY <1>0, <1>2 DEF NewRows
<1>7. RowsRaced'
  <2> SUFFICES ASSUME NEW x \in Rows', NEW y \in Rows', x[1] = y[1], x # y
               PROVE  {x[2], y[2]} \in met'
    BY DEF RowsRaced, Raced
  <2>1. CASE x \in Rows /\ y \in Rows
    BY <1>0, <2>1 DEF RowsRaced, Raced
  <2>2. CASE x \notin Rows /\ y \in Rows
    BY <1>0, <1>3, <1>5, <2>2 DEF AddingRaced, Raced
  <2>3. CASE x \in Rows /\ y \notin Rows
    <3>1. {y[2], x[2]} \in met'
      BY <1>0, <1>3, <1>5, <2>3 DEF AddingRaced, Raced
    <3> QED
      BY <3>1
  <2> QED
    BY <1>6, <2>1, <2>2, <2>3
<1>8. AddingRaced'
  <2> SUFFICES ASSUME NEW p \in Run, NEW u \in Url, Insert(Page(u)) \in session'[p].sending,
                      NEW y \in Rows', y[1] = u
               PROVE  {p, y[2]} \in met'
    BY DEF AddingRaced, Raced
  <2>1. CASE Insert(Page(u)) \in session[p].sending /\ y \in Rows
    BY <1>0, <2>1 DEF AddingRaced, Raced
  <2>2. CASE p # r /\ y \notin Rows
    <3>1. y[2] = r /\ pc[r] \in Active /\ pc[p] \in Active
      BY <1>0, <1>4, <1>5, <2>2 DEF Others
    <3> QED
      BY <1>0, <2>2, <3>1 DEF Together, Raced
  <2>3. CASE p = r /\ Insert(Page(u)) \notin session[r].sending
    <3>1. documents' = documents /\ session'[r].added = session[r].added /\ Seen(r, u) = {}
      BY <1>0, <2>3, SourceIsNotPage DEF NewInserts, Insert
    <3>2. y \notin documents /\ y \notin session[r].added
      BY <3>1 DEF Seen
    <3>3. y \in Rows
      BY <1>2, <3>1
    <3>4. PICK q \in Run : y \in session[q].added
      BY <3>2, <3>3, RowsAre
    <3>5. q # r /\ y[2] = q /\ pc'[q] \in Active
      BY <1>0, <1>4, <3>2, <3>4 DEF Others, Shape, Sessions
    <3>6. pc'[r] \in Active
      BY <1>4, <2>3
    <3> QED
      BY <1>1, <2>3, <3>5, <3>6 DEF Together, Raced
  <2> QED
    BY <1>0, <1>5, <2>1, <2>2, <2>3 DEF Others
<1>9. SourceRaced'
  <2> SUFFICES ASSUME NEW p \in Run, NEW d \in Domain, Insert(Source(d)) \in session'[p].sending,
                      d \in sources'
               PROVE  \E q \in Run \ {p} : {p, q} \in met'
    BY DEF SourceRaced, Raced
  <2>1. CASE Insert(Source(d)) \in session[p].sending /\ d \in sources
    BY <1>0, <2>1 DEF SourceRaced, Raced
  <2>2. CASE p # r /\ d \notin sources
    <3>1. pc[r] \in Active /\ pc[p] \in Active
      BY <1>0, <1>4, <2>2 DEF Others, NewSources
    <3> QED
      BY <1>0, <2>2, <3>1 DEF Together, Raced
  <2>3. CASE p = r
    <3>1. sources' = sources
      BY <1>0, <2>3 DEF NewSources
    <3>2. Insert(Source(d)) \in session[r].sending
      BY <1>0, <2>3, <3>1 DEF NewInserts, Insert
    <3> QED
      BY <2>1, <2>3, <3>1, <3>2
  <2> QED
    BY <1>0, <2>1, <2>2, <2>3 DEF Others
<1> QED
  BY <1>1, <1>7, <1>8, <1>9 DEF Meetings

\* Whoever a run waits for is active.
LEMMA CycleRaced ==
  ASSUME Shape, Together, NEW r \in Run, InCycle(r)
  PROVE  \E q \in Run \ {r} : Raced(r, q)
<1>1. PICK q \in Run : WaitsFor(r, q)
  BY DEF InCycle
<1>2. PICK c \in session[r].waiting : Blocks(q, c)
  BY <1>1 DEF WaitsFor
<1>3. r # q /\ pc[r] \in Active
  <2>1. session[r].sending # {}
    BY <1>2 DEF Shape, Sessions
  <2> QED
    BY <1>1, <2>1, Busy DEF WaitsFor
<1>4. pc[q] \in Active
  <2>1. session[q].born # {} \/ session[q].changed # {}
    BY <1>2 DEF Blocks
  <2>2. session[q] # Fresh
    BY <2>1 DEF Fresh
  <2> QED
    BY <2>2, Busy
<1> QED
  BY <1>3, <1>4 DEF Together

LEMMA EndsStep ==
  ASSUME Shape, Shape', Meetings, Meetings', FailingSawTwo, OnlyOverlapHarms,
         NEW r \in Run, Effect(r)
  PROVE  FailingSawTwo' /\ OnlyOverlapHarms'
<1>0. /\ Others(r) /\ NewEnd(r) /\ documents \subseteq documents' /\ met \subseteq met'
  BY DEF Effect, NewRows, NewPlace
<1>1. FailingSawTwo'
  <2> SUFFICES ASSUME NEW p \in Run, pc'[p] = "failing"
               PROVE  \E x, y \in documents' \cup session'[p].added : x[1] = y[1] /\ x # y
    BY DEF FailingSawTwo
  <2>1. session[p].added \subseteq session'[p].added
    BY <1>0 DEF Others, NewEnd
  <2>2. \E x, y \in documents \cup session[p].added : x[1] = y[1] /\ x # y
    BY <1>0 DEF Others, NewEnd, FailingSawTwo
  <2> QED
    BY <1>0, <2>1, <2>2
<1>2. \A x, y \in documents' : x[1] = y[1] /\ x # y => {x[2], y[2]} \in met'
  BY DEF Meetings, RowsRaced, Rows, Raced
<1>3. ASSUME NEW p \in Run, pc'[p] = "escaped" PROVE \E q \in Run \ {p} : {p, q} \in met'
  <2>1. CASE pc[p] = "escaped"
    BY <1>0, <2>1 DEF OnlyOverlapHarms, Raced
  <2>2. CASE pc[p] # "escaped"
    <3>1. p = r
      BY <1>0, <1>3, <2>2 DEF Others
    <3>2. \/ InCycle(r)
          \/ \E d \in Domain : Insert(Source(d)) \in session[r].sending /\ d \in sources
      BY <1>0, <1>3, <2>2, <3>1 DEF NewEnd
    <3>3. \E q \in Run \ {r} : Raced(r, q)
      BY <3>2, CycleRaced DEF Meetings, SourceRaced
    <3> QED
      BY <1>0, <3>1, <3>3 DEF Raced
  <2> QED
    BY <2>1, <2>2
<1>4. ASSUME NEW p \in Run, pc'[p] = "degraded"
      PROVE  \E x, y \in documents' : x[1] = y[1] /\ x # y /\ {x[2], y[2]} \in met'
  <2>1. \E x, y \in documents' : x[1] = y[1] /\ x # y
    <3>1. CASE pc[p] = "degraded"
      BY <1>0, <3>1 DEF OnlyOverlapHarms
    <3>2. CASE pc[p] # "degraded"
      BY <1>0, <1>4, <3>2 DEF Others, NewEnd, FailingSawTwo
    <3> QED
      BY <3>1, <3>2
  <2> QED
    BY <1>2, <2>1
<1> QED
  BY <1>1, <1>2, <1>3, <1>4 DEF OnlyOverlapHarms, Raced

-----------------------------------------------------------------------------
(* Theorems *)

LEMMA InvInit == Init => IInv
<1> SUFFICES ASSUME Init PROVE IInv
  OBVIOUS
<1>1. Shape
  BY ShapeInit
<1>2. \A r \in Run : pc[r] = "queued" /\ session[r].sending = {} /\ session[r].added = {}
  BY DEF Init, Fresh
<1>3. Rows = {}
  BY <1>2 DEF Rows, Init
<1>4. Together
  BY <1>2 DEF Together, Active
<1>5. RowsRaced /\ AddingRaced /\ SourceRaced
  BY <1>2, <1>3 DEF RowsRaced, AddingRaced, SourceRaced
<1>6. FailingSawTwo /\ OnlyOverlapHarms
  BY <1>2 DEF FailingSawTwo, OnlyOverlapHarms, Init
<1> QED
  BY <1>1, <1>4, <1>5, <1>6 DEF IInv, Shape

LEMMA InvStep == ASSUME IInv, [Next]_vars PROVE IInv'
<1>1. Shape /\ Meetings /\ FailingSawTwo /\ OnlyOverlapHarms
  BY DEF IInv, Shape, Meetings
<1>2. Shape'
  BY <1>1, ShapeStep
<1>3. CASE Next
  <2>1. PICK r \in Run : Effect(r)
    BY <1>1, <1>3, Effects
  <2>2. Meetings'
    BY <1>1, <1>2, <2>1, MeetingsStep
  <2>3. FailingSawTwo' /\ OnlyOverlapHarms'
    BY <1>1, <1>2, <2>1, <2>2, EndsStep
  <2> QED
    BY <1>2, <2>2, <2>3 DEF IInv, Shape, Meetings
<1>4. CASE UNCHANGED vars
  <2>1. Meetings'
    BY <1>1, <1>4 DEF vars, Meetings, Together, RowsRaced, AddingRaced, SourceRaced, Rows, Raced
  <2>2. FailingSawTwo' /\ OnlyOverlapHarms'
    BY <1>1, <1>4 DEF vars, FailingSawTwo, OnlyOverlapHarms, Raced
  <2> QED
    BY <1>2, <2>1, <2>2 DEF IInv, Shape, Meetings
<1> QED
  BY <1>3, <1>4

\* The rows and the sessions of the stage keep their types, and a run that has ended
\* holds no transaction (pipeline.py:215-227).
THEOREM StoreTypes == Spec => []TypeOK
<1>1. IInv => TypeOK
  BY DEF IInv
<1> QED
  BY <1>1, InvInit, InvStep, PTL DEF Spec

\* However many runs store whatever plans in whatever order: two rows for one URL come
\* from runs that were active together, a stage that gives up has read two such rows,
\* and one that the database refuses was active together with another
\* (pipeline_ops.py:82-106, 198-239; pipeline.py:215-242).
THEOREM StoreHarm == Spec => []OnlyOverlapHarms
<1>1. IInv => OnlyOverlapHarms
  BY DEF IInv
<1> QED
  BY <1>1, InvInit, InvStep, PTL DEF Spec
=============================================================================
