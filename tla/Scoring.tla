------------------------------ MODULE Scoring ------------------------------
(***************************************************************************)
(* The arithmetic of verification/scoring.py: from labelled passages to    *)
(* the verdict of a claim, and from claims to the verdict of a submission. *)
(* Everything here is a function of its arguments.                         *)
(*                                                                         *)
(* Numbers are integers: percentages for what the code writes with two     *)
(* decimals (relevance, factors, importance), millionths for weights and   *)
(* confidence.  Weights and net scores are exact; the quotients inside a   *)
(* confidence are rounded down.  temporal_factor and directness stay at    *)
(* their default 1, which is all the pipeline passes (stages.py:504-517).  *)
(***************************************************************************)
EXTENDS Integers, FiniteSets, FiniteSetsExt

SOURCE_FACTORS ==
  [OFFICIAL_GOVERNMENT |-> 130, PRIMARY_DOCUMENT |-> 130, SCIENTIFIC_SOURCE |-> 125,
   OFFICIAL_COMPANY |-> 120, NEWS_AGENCY |-> 115, NEWS_ORGANIZATION |-> 100,
   SPECIALIST_PUBLICATION |-> 100, BLOG |-> 70, SOCIAL_MEDIA |-> 60,
   USER_PROVIDED |-> 55, UNKNOWN |-> 50]
SourceType == DOMAIN SOURCE_FACTORS

PRIMARY_SOURCE_BONUS == 15
SOURCE_FACTOR_MIN == 50
SOURCE_FACTOR_MAX == 130
CLUSTER_DAMPING == 15
TARGET_ORIGINS == 3
One == 1000000
Percent == 10000
MIN_EVIDENCE_WEIGHT == 45 * Percent
MIN_SUPPORT_FOR_VERIFIED == 200 * Percent
MIN_CONTRADICTION_FOR_FALSE == 150 * Percent
MIN_ORIGINS_FOR_VERIFIED == 3
MIN_ORIGINS_FOR_FALSE == 2
CONFIDENCE_HIGH == 70 * Percent
CONFIDENCE_MEDIUM == 40 * Percent
IMPORTANCE_THRESHOLD == 70
PENALTY_MISLEADING_THRESHOLD == 35

ClaimVerdict == {"FALSE", "LIKELY_FALSE", "UNVERIFIED", "PARTLY_TRUE", "LIKELY_TRUE",
                 "VERIFIED", "MISLEADING", "OPINION", "SATIRE"}
Band == {"LOW", "MEDIUM", "HIGH"}

Lesser(a, b) == IF a <= b THEN a ELSE b
Greater(a, b) == IF a >= b THEN a ELSE b

-----------------------------------------------------------------------------
(* One claim.  A signal is one passage: a record with id, relationship,      *)
(* relevance, type, primary and origin; a set of them is the evidence.       *)

source_factor(type, primary) ==
  Greater(SOURCE_FACTOR_MIN,
          Lesser(SOURCE_FACTOR_MAX,
                 SOURCE_FACTORS[type] + IF primary THEN PRIMARY_SOURCE_BONUS ELSE 0))

Weight(s) == s.relevance * source_factor(s.type, s.primary)

Side(E, side) == {s \in E : s.relationship = side}
Origins(E) == {s.origin : s \in E}

\* Only the strongest passage of an origin counts in full.
OriginWeight(E) ==
  LET strongest == Max({Weight(s) : s \in E})
  IN  100 * strongest + CLUSTER_DAMPING * (MapThenSumSet(Weight, E) - strongest)

SideWeight(E) ==
  MapThenSumSet(LAMBDA o : OriginWeight({s \in E : s.origin = o}), Origins(E))

\* net >= p percent of the evidence, and net <= -p percent of it.
NetAtLeast(S, C, p) == 100 * (S - C) >= p * (S + C)
NetAtMost(S, C, p) == 100 * (C - S) >= p * (S + C)

\* The context of a claim: whether it is an opinion or a prediction, whether it
\* comes from a satirical source, and its largest penalty.
Context == [opinion : BOOLEAN, satirical : BOOLEAN, penalty : 0..45]

ByGenre(x) == IF x.opinion THEN "OPINION" ELSE "SATIRE"
ByPenalty(x) == IF x.penalty >= PENALTY_MISLEADING_THRESHOLD THEN "MISLEADING" ELSE "PARTLY_TRUE"

Decide_exactly_three(S, C, O, x) ==
  IF S + C < MIN_EVIDENCE_WEIGHT THEN "UNVERIFIED"
  ELSE IF NetAtLeast(S, C, 75) /\ O = MIN_ORIGINS_FOR_VERIFIED THEN "VERIFIED"
  ELSE IF NetAtLeast(S, C, 50) THEN "LIKELY_TRUE"
  ELSE IF NetAtMost(S, C, 75) THEN "FALSE" ELSE "PARTLY_TRUE"

Decide_minima_swapped(S, C, O, x) ==
  IF S + C < MIN_EVIDENCE_WEIGHT THEN "UNVERIFIED"
  ELSE IF NetAtLeast(S, C, 75) /\ S >= MIN_CONTRADICTION_FOR_FALSE THEN "VERIFIED"
  ELSE IF NetAtLeast(S, C, 50) THEN "LIKELY_TRUE"
  ELSE IF NetAtMost(S, C, 75) /\ C >= MIN_SUPPORT_FOR_VERIFIED THEN "FALSE"
  ELSE IF NetAtMost(S, C, 40) THEN "LIKELY_FALSE" ELSE "PARTLY_TRUE"

\* The decision table; O is the number of independent origins on both sides.
Decide(S, C, O, x) ==
  IF S + C < MIN_EVIDENCE_WEIGHT \/ O = 0 THEN "UNVERIFIED"
  ELSE IF x.opinion \/ x.satirical THEN ByGenre(x)
  ELSE IF NetAtLeast(S, C, 60) /\ x.penalty > 0 THEN ByPenalty(x)
  ELSE IF /\ NetAtLeast(S, C, 75)
          /\ O >= MIN_ORIGINS_FOR_VERIFIED /\ S >= MIN_SUPPORT_FOR_VERIFIED THEN "VERIFIED"
  ELSE IF NetAtLeast(S, C, 50) THEN "LIKELY_TRUE"
  ELSE IF /\ NetAtMost(S, C, 75)
          /\ O >= MIN_ORIGINS_FOR_FALSE /\ C >= MIN_CONTRADICTION_FOR_FALSE THEN "FALSE"
  ELSE IF NetAtMost(S, C, 40) THEN "LIKELY_FALSE"
  ELSE IF S > 0 /\ C > 0 THEN "PARTLY_TRUE"
  ELSE "UNVERIFIED"

Coverage(O) == (One * Lesser(O, TARGET_ORIGINS)) \div TARGET_ORIGINS

\* 40 % coverage, 25 % mass, 20 % agreement, 15 % best source.
Confidence(S, C, O, E) ==
  LET T == S + C
      mass == Lesser(T, 4 * One) \div 4
      agreement == IF T = 0 THEN 0 ELSE (10000 * ((T - Lesser(S, C)) \div 100)) \div (T \div 100)
      best == IF E = {} THEN SOURCE_FACTOR_MIN
              ELSE Max({source_factor(s.type, s.primary) : s \in E})
      source == ((best - SOURCE_FACTOR_MIN) * One)
                  \div (SOURCE_FACTOR_MAX - SOURCE_FACTOR_MIN)
  IN  (40 * Coverage(O) + 25 * mass + 20 * 100 * agreement + 15 * source) \div 100

BandOf(confidence, verdict) ==
  IF verdict = "UNVERIFIED" \/ confidence < CONFIDENCE_MEDIUM THEN "LOW"
  ELSE IF confidence < CONFIDENCE_HIGH THEN "MEDIUM" ELSE "HIGH"

score_claim(E, x) ==
  LET pro == Side(E, "SUPPORTS")
      con == Side(E, "CONTRADICTS")
      S == SideWeight(pro)
      C == SideWeight(con)
      O == Cardinality(Origins(pro)) + Cardinality(Origins(con))
      verdict == Decide(S, C, O, x)
      confidence == Confidence(S, C, O, E)
  IN  [verdict |-> verdict, confidence |-> confidence, band |-> BandOf(confidence, verdict),
       support |-> S, contradiction |-> C, origins |-> O]

-----------------------------------------------------------------------------
(* The submission.  Claims are records with verdict, confidence and          *)
(* importance, in a set or indexed by one.                                   *)

\* The important claims, or all of them where none is.
Considered(claims) ==
  LET important == {k \in DOMAIN claims : claims[k].importance >= IMPORTANCE_THRESHOLD}
  IN  IF important = {} THEN DOMAIN claims ELSE important

VerdictsOf(claims, K) == {claims[k].verdict : k \in K}

DecideOverall_any(claims, K) ==
  LET V == VerdictsOf(claims, K)
  IN  IF "FALSE" \in V THEN "FALSE"
      ELSE IF "LIKELY_FALSE" \in V THEN "LIKELY_FALSE"
      ELSE IF V \cap {"VERIFIED", "LIKELY_TRUE"} # {} THEN "LIKELY_TRUE" ELSE "UNVERIFIED"

\* The overall table; the first rule that matches wins.
DecideOverall(claims, K) ==
  LET V == VerdictsOf(claims, K)
      substantive == V \ {"SATIRE", "OPINION"}
      unverified == Cardinality({k \in K : claims[k].verdict = "UNVERIFIED"})
  IN  IF "FALSE" \in V THEN "FALSE"
      ELSE IF "MISLEADING" \in V THEN "MISLEADING"
      ELSE IF "LIKELY_FALSE" \in V THEN "LIKELY_FALSE"
      ELSE IF V \in {{"SATIRE"}, {"OPINION"}} THEN CHOOSE v \in V : TRUE
      ELSE IF "PARTLY_TRUE" \in substantive THEN "PARTLY_TRUE"
      ELSE IF substantive = {"VERIFIED"} THEN "VERIFIED"
      ELSE IF substantive # {} /\ substantive \subseteq {"VERIFIED", "LIKELY_TRUE"} THEN "LIKELY_TRUE"
      ELSE IF unverified > 0 /\ 2 * unverified >= Cardinality(K) THEN "UNVERIFIED"
      ELSE IF substantive \cap {"VERIFIED", "LIKELY_TRUE"} # {} /\ "UNVERIFIED" \in substantive
        THEN "PARTLY_TRUE"
      ELSE "UNVERIFIED"

\* The mean of the confidences, weighted with the importance of the claims.
OverallConfidence(claims, K) ==
  LET imp(k) == Greater(1, claims[k].importance)
  IN  MapThenSumSet(LAMBDA k : claims[k].confidence * imp(k), K) \div MapThenSumSet(imp, K)

score_overall(claims, degraded) ==
  IF DOMAIN claims = {} THEN [verdict |-> "UNVERIFIED", confidence |-> 0, band |-> "LOW"]
  ELSE LET K == Considered(claims)
           verdict == DecideOverall(claims, K)
           confidence == OverallConfidence(claims, K)
           band == BandOf(confidence, verdict)
       IN  [verdict |-> verdict, confidence |-> confidence,
            band |-> IF degraded /\ band = "HIGH" THEN "MEDIUM" ELSE band]
=============================================================================
