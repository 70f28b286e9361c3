---------------------------- MODULE Assessment ----------------------------
(***************************************************************************)
(* How the claims of one verification get their verdicts: the documents    *)
(* read for a claim (retrieval/pipeline_ops.py), the passages of theirs    *)
(* that are evidence (module Classification), the origins assigned to      *)
(* these, and SCORING (verification/stages.py) with the arithmetic of the  *)
(* module Scoring.                                                         *)
(*                                                                         *)
(*   claim    the claim in hand                                            *)
(*   read     the documents read so far for it                             *)
(*   score    what score_claim() makes of them, leaving aside the context  *)
(*            of the claim                                                 *)
(*   scored   the claims that are done                                     *)
(*   fetched  documents read for all claims                                *)
(*                                                                         *)
(* The code reads the documents of all claims before it scores any; as no  *)
(* claim sees another's evidence, one is finished here before the next is  *)
(* begun, and every state is one in which the scorer might be called.      *)
(***************************************************************************)
EXTENDS Classification, Scoring

CONSTANTS
  Report,        \* texts; two documents with one report are copies of it
  Publishers,    \* the kinds of publisher considered
  Texts,         \* the bodies of documents considered: sequences of passages
  Claims,        \* the claims considered
  MAX_FETCHES,   \* settings.max_article_fetches
  MaxDocuments,  \* bound: documents read for all claims together
  MaxClaims,     \* bound: claims
  MaxWork        \* bound: documents and claims together

Publisher == [type : SourceType, primary : BOOLEAN]
Claim == [text : ClaimText, context : Context, importance : 0..100]

ASSUME AssessmentAssumption ==
  /\ Publishers \subseteq Publisher
  /\ Texts \subseteq Seq(Passage)
  /\ Claims \subseteq Claim
  /\ {MAX_FETCHES, MaxDocuments, MaxClaims, MaxWork} \subseteq Nat

VARIABLES claim, read, score, scored, fetched

vars == <<claim, read, score, scored, fetched>>

Document == [report : Report, publisher : Publishers, text : Texts]

\* Evidence rows, by the place of their passage in the text.
Evidence == [relationship : Relationship, relevance : 0..100]
Scored == [verdict : ClaimVerdict, confidence : 0..One, importance : 0..100]

TypeOK ==
  /\ claim \in Claims
  /\ Len(read) <= MAX_FETCHES
  /\ \A k \in DOMAIN read :
       /\ [report |-> read[k].report, publisher |-> read[k].publisher,
           text |-> read[k].text] \in Document
       /\ \A i \in DOMAIN read[k].evidence : read[k].evidence[i] \in Evidence
  /\ scored \in Seq(Scored) /\ Len(scored) <= MaxClaims
  /\ fetched \in 0..MaxDocuments
  /\ score.verdict \in ClaimVerdict /\ score.confidence \in 0..One

-----------------------------------------------------------------------------
(* From documents to signals *)

\* Documents with one content hash are copies of one report.
Copies(docs, k) == {m \in DOMAIN docs : docs[m].report = docs[k].report}

Origin_of_passage(docs, k, i) == <<k, i>>

\* A document without a copy gets no cluster, and a passage without a cluster is
\* an origin of its own.
Origin(docs, k, i) ==
  IF Cardinality(Copies(docs, k)) = 1 THEN <<k, i>> ELSE <<docs[k].report, 0>>

PassagesOf(docs) == UNION {{<<k, i>> : i \in DOMAIN docs[k].evidence} : k \in DOMAIN docs}

SignalOf(docs, k, i) ==
  [id |-> <<k, i>>,
   relationship |-> docs[k].evidence[i].relationship,
   relevance |-> docs[k].evidence[i].relevance,
   type |-> docs[k].publisher.type,
   primary |-> docs[k].publisher.primary,
   origin |-> Origin(docs, k, i)]

Signals(docs) == {SignalOf(docs, p[1], p[2]) : p \in PassagesOf(docs)}

-----------------------------------------------------------------------------
(* Steps *)

Plain == [opinion |-> FALSE, satirical |-> FALSE, penalty |-> 0]
Score(docs) == score_claim(Signals(docs), Plain)

Init == claim \in Claims /\ read = <<>> /\ scored = <<>> /\ fetched = 0 /\ score = Score(<<>>)

ReadDocument(d) ==
  /\ Len(read) < MAX_FETCHES
  /\ fetched < MaxDocuments /\ fetched + Len(scored) < MaxWork
  /\ read' = Append(read, [report |-> d.report, publisher |-> d.publisher, text |-> d.text,
                           evidence |-> extract_evidence_for_claim(claim.text, d.text)])
  /\ score' = Score(read')
  /\ fetched' = fetched + 1
  /\ UNCHANGED <<claim, scored>>

ScoreClaim ==
  /\ Len(scored) < MaxClaims /\ fetched + Len(scored) < MaxWork
  /\ LET s == score_claim(Signals(read), claim.context)
     IN  scored' = Append(scored, [verdict |-> s.verdict, confidence |-> s.confidence,
                                   importance |-> claim.importance])
  /\ claim' \in Claims
  /\ read' = <<>>
  /\ score' = Score(<<>>)
  /\ UNCHANGED fetched

Next == \/ \E d \in Document : ReadDocument(d)
        \/ ScoreClaim

Spec == Init /\ [][Next]_vars

-----------------------------------------------------------------------------
(* Properties *)

\* The verdicts about truth, the least favourable first.
Order == <<"FALSE", "MISLEADING", "LIKELY_FALSE", "UNVERIFIED", "PARTLY_TRUE",
           "LIKELY_TRUE", "VERIFIED">>
Genre == {"OPINION", "SATIRE"}
Rank(v) == CHOOSE i \in 1..7 : Order[i] = v

\* The document a step reads.
Grows(s, t) == Len(t) > Len(s)
Newest == read'[Len(read')]
Twins == {k \in DOMAIN read : read[k].report = Newest.report}
Sides(d) == {d.evidence[i].relationship : i \in DOMAIN d.evidence}

\* Another copy of a report adds no independent origin on a side the report is on
\* already: "fifty reprints of one wire story" stay one (scoring.py:71-74, 276-277;
\* docs/RETRIEVAL.md:65).
CopiesAddNoOrigin ==
  [][Grows(read, read') /\ Sides(Newest) \subseteq UNION {Sides(read[k]) : k \in Twins}
       => score'.origins <= score.origins]_vars

\* Once there is enough evidence from two origins, a further report that only
\* supports the claim never makes its verdict less favourable, although it adds to
\* the mass and the origins that a refutation needs as well (scoring.py:395-451).
SupportNeverHurts ==
  [][( /\ Grows(read, read') /\ Twins = {} /\ Sides(Newest) = {"SUPPORTS"}
       /\ score.support + score.contradiction >= MIN_EVIDENCE_WEIGHT
       /\ score.origins >= 2 )
     => Rank(score'.verdict) >= Rank(score.verdict)]_vars

\* Evidence that verifies a claim would refute it if every passage said the
\* opposite: the bar for VERIFIED is nowhere lower than that for FALSE
\* (scoring.py:104-109).
RefutingIsNoHarder ==
  score.verdict = "VERIFIED" =>
    Decide(score.contradiction, score.support, score.origins, Plain) = "FALSE"

\* The passage states every figure of the claim, and denies nothing.
Restates(p) ==
  /\ ~p.denies
  /\ \A v \in _comparable_numbers(claim.text) \ {0} :
       \E w \in _comparable_numbers(p) : Corroborates(w, v)

\* A claim is never counted as refuted for documents that only repeat it, whatever
\* other figures they give beside its own: "If the passage states the same figure,
\* there is no disagreement" (evidence.py:227-237).
RestatingNeverRefutes ==
  (\A k \in DOMAIN read : \A i \in DOMAIN read[k].text :
     Restates(read[k].text[i]) /\ read[k].text[i].model # "CONTRADICTS")
    => score.contradiction = 0 /\ Rank(score.verdict) >= Rank("UNVERIFIED")

Overall == score_overall(scored, FALSE)
Ranks == {Rank(scored[k].verdict) :
            k \in {m \in Considered(scored) : scored[m].verdict \notin Genre}}

\* The overall verdict is never more favourable than "partly true" unless every
\* considered claim is, and a refuted claim decides it, however many others
\* hold up (scoring.py:518-520, 576-614).
WeakestClaimDecides ==
  Ranks # {} =>
    /\ Min(Ranks) < Rank("UNVERIFIED") => Overall.verdict = Order[Min(Ranks)]
    /\ Rank(Overall.verdict) > Rank("PARTLY_TRUE") => Overall.verdict = Order[Min(Ranks)]

\* With an important claim scored, no claim below the threshold moves verdict,
\* confidence or band of the whole (scoring.py:533-549).
MinorClaimsDoNotMatter ==
  [][( /\ Grows(scored, scored')
       /\ scored'[Len(scored')].importance < IMPORTANCE_THRESHOLD
       /\ \E k \in DOMAIN scored : scored[k].importance >= IMPORTANCE_THRESHOLD )
     => Overall' = Overall]_vars

-----------------------------------------------------------------------------
(* What the documents say and the code does not do *)

\* "you cannot reach `VERIFIED` on one origin no matter how many copies exist"
\* (docs/RETRIEVAL.md:71-72).
OneReportNeverVerifies ==
  Cardinality({read[k].report : k \in DOMAIN read}) = 1 => score.verdict # "VERIFIED"

\* "Strong, independent, well-sourced support" (scoring.py:422): a contradiction
\* is not what lifts a claim to VERIFIED.
ContradictionNeverVerifies ==
  [][Grows(read, read') /\ Sides(Newest) = {"CONTRADICTS"} /\ score.verdict # "VERIFIED"
       => score'.verdict # "VERIFIED"]_vars

\* "A passage citing a different time period is reporting a different figure, not
\* disputing this one." (evidence.py:294-295)
OtherPeriodIsNoDispute ==
  \A k \in DOMAIN read : \A i \in DOMAIN read[k].evidence :
    LET p == read[k].text[i]
        years(t) == {f.value : f \in {g \in t.figures : g.written = "bare" /\ IsYear(g.value)}}
    IN  ~p.denies /\ p.model = "none" /\ years(p) # {} /\ years(p) \cap years(claim.text) = {}
          => read[k].evidence[i].relationship # "CONTRADICTS"

\* "NEUTRAL unless the signals clearly point one way" (evidence.py:271): a passage
\* that denies is not counted as support.
DenialIsNoSupport ==
  \A k \in DOMAIN read : \A i \in DOMAIN read[k].evidence :
    read[k].text[i].denies /\ read[k].text[i].model = "none"
      => read[k].evidence[i].relationship # "SUPPORTS"

\* "If the passage states the same figure, there is no disagreement -- whatever
\* other numbers it also contains." (evidence.py:228-229)
SharedFigureIsNoDispute ==
  \A k \in DOMAIN read : \A i \in DOMAIN read[k].evidence :
    LET p == read[k].text[i]
    IN  ~p.denies /\ p.model = "none" /\ SharesFigure(claim.text, p)
          => read[k].evidence[i].relationship # "CONTRADICTS"

\* "Article bodies fetched per verification" (config.py:180).
FetchesAreCapped == fetched <= MAX_FETCHES
=============================================================================
