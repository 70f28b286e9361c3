---- MODULE MCAssessment ----
(* Instances of Assessment for TLC.  Relevance and factors are chosen so that *)
(* one, two and three origins lie on either side of every threshold.          *)
EXTENDS Assessment, TLC

Agency == [type |-> "NEWS_AGENCY", primary |-> FALSE]
Official == [type |-> "OFFICIAL_GOVERNMENT", primary |-> TRUE]
Blog == [type |-> "BLOG", primary |-> FALSE]
TwoPublishers == {Official, Blog}

\* A claim with a figure, and one in Bangla with two.
F(v) == [value |-> v, written |-> "scaled"]
Year(y) == [value |-> y, written |-> "bare"]
Profit == [figures |-> {F(26000), Year(2025)}, bangla |-> FALSE]
Branches == [figures |-> {F(600), F(60)}, bangla |-> TRUE]

\* Passages that repeat a claim, deny, dispute or do not settle it, or do two of these.
For(r) == [figures |-> {}, overlap |-> 70, denies |-> FALSE, confirms |-> FALSE,
           relevance |-> r, model |-> "none"]
Against(r) == [For(r) EXCEPT !.denies = TRUE]
Beside(r) == [For(r) EXCEPT !.overlap = 20]
Figures(r, fs) == [For(r) EXCEPT !.overlap = 30, !.figures = fs]
Torn(r) == [Figures(r, {F(26000)}) EXCEPT !.overlap = 27, !.denies = TRUE]
Told(r, l) == [Beside(r) EXCEPT !.model = l]

FewTexts ==
  {<<>>, <<Torn(20)>>, <<For(90), For(90), For(70)>>, <<Against(90)>>,
   <<Against(90), Against(10), Against(90), Against(70), For(20)>>,
   <<Against(50), Told(90, "SUPPORTS")>>,
   <<Figures(90, {F(25977), F(15000), F(600), F(60)})>>,
   <<Figures(20, {F(15000), Year(2023), F(600)})>>}

Opinion == [opinion |-> TRUE, satirical |-> FALSE, penalty |-> 0]
FewClaims ==
  {[text |-> Profit, context |-> Plain, importance |-> 75],
   [text |-> Branches, context |-> Plain, importance |-> 50],
   [text |-> Branches, context |-> Opinion, importance |-> 50]}

Symmetry == Permutations(Report)
====
