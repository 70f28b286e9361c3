--------------------------- MODULE Classification ---------------------------
(***************************************************************************)
(* retrieval/evidence.py: which passages of an article are evidence for a  *)
(* claim, and whether they support or contradict it.  Everything here is a *)
(* function of its arguments.  A text is what the rules can tell of it:    *)
(*                                                                         *)
(*   figures    the numbers in it, as values and how they are written      *)
(*   overlap    the share of the claim's words that occur in the passage,  *)
(*              in percent, rounded down                                   *)
(*   denies     it has a marker of denial, in either language              *)
(*   confirms   it has a marker of confirmation in the claim's language    *)
(*   relevance  what score_against_queries() makes of it, in percent       *)
(*   model      the label a language model gives it, "none" if there is    *)
(*              no model or no usable answer (ai/classifier.py)            *)
(*                                                                         *)
(* Figures are whole numbers here.  Directness, rationale and the          *)
(* classifier's own confidence are for the reader: scoring takes none.     *)
(***************************************************************************)
EXTENDS Integers, Sequences, FiniteSets

MIN_RELEVANCE == 15
MAX_PASSAGES == 3
YEAR_MIN == 1900
YEAR_MAX == 2100

Relationship == {"SUPPORTS", "CONTRADICTS", "NEUTRAL", "INSUFFICIENT"}

\* A value is what a scale word makes of the digits; "bare" digits have neither a
\* scale word nor a currency.
Figure == [value : Nat, written : {"bare", "scaled", "money"}]

ClaimText == [figures : SUBSET Figure, bangla : BOOLEAN]

Passage ==
  [figures : SUBSET Figure, overlap : 0..100, denies : BOOLEAN, confirms : BOOLEAN,
   relevance : 0..100, model : Relationship \cup {"none"}]

-----------------------------------------------------------------------------
IsYear(v) == v \in YEAR_MIN .. YEAR_MAX

\* claim_extraction.py: digits without a scale word that look like a year are
\* passed over, as dates; an amount of money is read once more as such.
extract_numbers(text) ==
  {f.value : f \in {g \in text.figures : g.written # "scaled" => ~IsYear(g.value)}}
extract_money(text) == {f.value : f \in {g \in text.figures : g.written = "money"}}

_extract_numbers(text) == extract_numbers(text) \cup extract_money(text)

_comparable_numbers(text) == {v \in _extract_numbers(text) : ~IsYear(v)}
Years(text) == {v \in _extract_numbers(text) : IsYear(v)}

\* Within 2 % of the claim's value; and 1.5 to 20 times the other.
Corroborates(p, v) == 50 * (v - p) <= v /\ 50 * (p - v) <= v
Disputes(p, v) ==
  LET larger == IF p > v THEN p ELSE v
      smaller == IF p > v THEN v ELSE p
  IN  smaller # 0 /\ 2 * larger >= 3 * smaller /\ larger <= 20 * smaller

\* Fault: a figure that is there as well does not settle the matter.
_numeric_conflict_anywhere(claim, passage) ==
  \E v \in _comparable_numbers(claim) : \E p \in _comparable_numbers(passage) : Disputes(p, v)

_numeric_conflict(claim, passage) ==
  \E v \in _comparable_numbers(claim) \ {0} :
    /\ ~\E p \in _comparable_numbers(passage) : Corroborates(p, v)
    /\ \E p \in _comparable_numbers(passage) : Disputes(p, v)

DiscussesOtherPeriod(claim, passage) ==
  Years(passage) # {} /\ Years(claim) \cap Years(passage) = {}

SharesFigure(claim, passage) ==
  _comparable_numbers(claim) \cap _comparable_numbers(passage) # {}

\* The thresholds of overlap that are lower for Bangla.
SupportThreshold(claim) == IF claim.bangla THEN 38 ELSE 50
RestatementThreshold(claim) == IF claim.bangla THEN 50 ELSE 65

\* Rules of contradiction come first; a passage that no rule matches is neutral.
classify_passage(claim, p) ==
  LET disputed == /\ _numeric_conflict(claim, p) /\ p.overlap >= 25
                  /\ ~DiscussesOtherPeriod(claim, p)
      denied == p.denies /\ p.overlap >= 30
      reported == \/ SharesFigure(claim, p) /\ p.overlap >= 25
                  \/ p.confirms /\ p.overlap >= SupportThreshold(claim)
                  \/ p.overlap >= RestatementThreshold(claim)
  IN  IF disputed \/ denied THEN "CONTRADICTS"
      ELSE IF reported THEN "SUPPORTS" ELSE "NEUTRAL"

\* _reclassify_with_llm: a model's answer replaces the label of the rules.
Label(claim, p) == IF p.model # "none" THEN p.model ELSE classify_passage(claim, p)

-----------------------------------------------------------------------------
\* The passages of a text that are relevant enough, and of these the best; a
\* stable sort keeps equals in their order.
Relevant(text) == {i \in DOMAIN text : text[i].relevance >= MIN_RELEVANCE}
Precedes(text, i, j) ==
  \/ text[i].relevance > text[j].relevance
  \/ text[i].relevance = text[j].relevance /\ i < j
Selected(text) ==
  {j \in Relevant(text) :
     Cardinality({i \in Relevant(text) : Precedes(text, i, j)}) < MAX_PASSAGES}

\* The evidence in a text, by the place of its passage.  (The order in which the
\* code returns it is that of the report.)
extract_evidence_for_claim(claim, text) ==
  [i \in Selected(text) |->
     [relationship |-> Label(claim, text[i]), relevance |-> text[i].relevance]]
=============================================================================
