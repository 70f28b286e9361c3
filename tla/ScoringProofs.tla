--------------------------- MODULE ScoringProofs ---------------------------
(***************************************************************************)
(* Theorems about the verdicts, for all evidence, documents and claims.    *)
(* First the decision tables of scoring.py as such; then, of the steps of  *)
(* Assessment, what another document and another claim may do to a verdict *)
(* and to the overall result; last its types.  AssessInv says what a state *)
(* is: the rows of the documents read are those extracted for the claim in *)
(* hand, and the score is what score_claim() makes of them.  Weights are   *)
(* sums over finite sets, which Folds defines by recursion; what is needed *)
(* of them follows from what would be the smallest set it fails for.       *)
(***************************************************************************)
EXTENDS Assessment, FiniteSetTheorems, WellFoundedInduction, TLAPS

\* "This must never resolve to VERIFIED" (scoring.py:413-414): a claim with a
\* penalty is not verified, whatever its evidence weighs.
THEOREM PenaltyNeverVerified ==
  ASSUME NEW S \in Nat, NEW C \in Nat, NEW O \in Nat, NEW x \in Context, x.penalty > 0
  PROVE  Decide(S, C, O, x) # "VERIFIED"
<1>1. NetAtLeast(S, C, 75) => NetAtLeast(S, C, 60)
  BY SMT DEF NetAtLeast
<1>2. ByGenre(x) # "VERIFIED" /\ ByPenalty(x) # "VERIFIED"
  BY DEF ByGenre, ByPenalty
<1> QED
  BY <1>1, <1>2 DEF Decide

\* The bar for FALSE is nowhere higher than that for VERIFIED: what verifies a
\* claim would refute it with the sides exchanged (scoring.py:104-109).
THEOREM VerifiedMirrorsFalse ==
  ASSUME NEW S \in Nat, NEW C \in Nat, NEW O \in Nat, Decide(S, C, O, Plain) = "VERIFIED"
  PROVE  Decide(C, S, O, Plain) = "FALSE"
<1> USE DEF MIN_EVIDENCE_WEIGHT, MIN_SUPPORT_FOR_VERIFIED, MIN_CONTRADICTION_FOR_FALSE,
            MIN_ORIGINS_FOR_VERIFIED, MIN_ORIGINS_FOR_FALSE, Percent
<1>1. /\ S + C >= MIN_EVIDENCE_WEIGHT /\ O # 0
      /\ NetAtLeast(S, C, 75) /\ O >= MIN_ORIGINS_FOR_VERIFIED /\ S >= MIN_SUPPORT_FOR_VERIFIED
  BY SMT DEF Decide, Plain, ByGenre, ByPenalty
<1>2. ~NetAtLeast(C, S, 75) /\ ~NetAtLeast(C, S, 50)
  BY <1>1, SMT DEF NetAtLeast
<1>3. NetAtMost(C, S, 75)
  BY <1>1, SMT DEF NetAtLeast, NetAtMost
<1> QED
  BY <1>1, <1>2, <1>3, SMT DEF Decide, Plain

\* Rank is the position in the order.
LEMMA Ranked ==
  /\ Rank("FALSE") = 1 /\ Rank("MISLEADING") = 2 /\ Rank("LIKELY_FALSE") = 3
  /\ Rank("UNVERIFIED") = 4 /\ Rank("PARTLY_TRUE") = 5 /\ Rank("LIKELY_TRUE") = 6
  /\ Rank("VERIFIED") = 7
<1>1. \A i \in 1..7 : i = 1 \/ i = 2 \/ i = 3 \/ i = 4 \/ i = 5 \/ i = 6 \/ i = 7
  BY SMT
<1>2. /\ Order[1] = "FALSE" /\ Order[2] = "MISLEADING" /\ Order[3] = "LIKELY_FALSE"
      /\ Order[4] = "UNVERIFIED" /\ Order[5] = "PARTLY_TRUE" /\ Order[6] = "LIKELY_TRUE"
      /\ Order[7] = "VERIFIED"
  BY DEF Order
<1>3. ASSUME NEW i \in 1..7 PROVE Rank(Order[i]) = i
  <2>1. \A k \in 1..7 : Order[k] = Order[i] => k = i
    BY <1>1, <1>2, SMT
  <2> HIDE DEF Order
  <2>2. (CHOOSE k \in 1..7 : Order[k] = Order[i]) = i
    BY <2>1
  <2> QED
    BY <2>2 DEF Rank
<1>4. 1 \in 1..7 /\ 2 \in 1..7 /\ 3 \in 1..7 /\ 4 \in 1..7 /\ 5 \in 1..7 /\ 6 \in 1..7 /\ 7 \in 1..7
  BY SMT
<1> QED
  BY <1>2, <1>3, <1>4

\* More support and more origins never make a plain claim's verdict less
\* favourable once there is enough evidence from two origins (scoring.py:395-451).
THEOREM SupportLifts ==
  ASSUME NEW S \in Nat, NEW C \in Nat, NEW O \in Nat,
         NEW T \in Nat, T >= S, NEW P \in Nat, P >= O,
         S + C >= MIN_EVIDENCE_WEIGHT, O >= 2
  PROVE  Rank(Decide(T, C, P, Plain)) >= Rank(Decide(S, C, O, Plain))
<1> USE DEF MIN_EVIDENCE_WEIGHT, MIN_SUPPORT_FOR_VERIFIED, MIN_CONTRADICTION_FOR_FALSE,
            MIN_ORIGINS_FOR_VERIFIED, MIN_ORIGINS_FOR_FALSE, Percent
<1>1. /\ NetAtLeast(S, C, 75) => NetAtLeast(T, C, 75)
      /\ NetAtLeast(S, C, 50) => NetAtLeast(T, C, 50)
      /\ NetAtMost(T, C, 75) => NetAtMost(S, C, 75)
      /\ NetAtMost(T, C, 40) => NetAtMost(S, C, 40)
  BY SMT DEF NetAtLeast, NetAtMost
<1>2. /\ NetAtLeast(S, C, 75) => NetAtLeast(S, C, 50)
      /\ NetAtLeast(T, C, 75) => NetAtLeast(T, C, 50)
      /\ NetAtMost(S, C, 75) => NetAtMost(S, C, 40)
      /\ NetAtLeast(T, C, 50) => ~NetAtMost(T, C, 40)
      /\ NetAtMost(T, C, 75) => NetAtMost(T, C, 40)
      /\ NetAtLeast(S, C, 50) => ~NetAtMost(S, C, 40)
      /\ S = 0 => NetAtMost(S, C, 75)
      /\ C = 0 => NetAtLeast(S, C, 75)
      /\ T = 0 => NetAtMost(T, C, 75)
      /\ C = 0 => NetAtLeast(T, C, 75)
  BY SMT DEF NetAtLeast, NetAtMost
<1> DEFINE before == Decide(S, C, O, Plain)
           after == Decide(T, C, P, Plain)
<1>3. S + C >= MIN_EVIDENCE_WEIGHT /\ T + C >= MIN_EVIDENCE_WEIGHT /\ P # 0 /\ O # 0 /\ P >= 2
  BY SMT
<1>4. Plain.opinion = FALSE /\ Plain.satirical = FALSE /\ ~(Plain.penalty > 0)
  BY SMT DEF Plain
<1> HIDE DEF MIN_EVIDENCE_WEIGHT, MIN_SUPPORT_FOR_VERIFIED, MIN_CONTRADICTION_FOR_FALSE
<1>5. before = IF NetAtLeast(S, C, 75) /\ O >= 3 /\ S >= MIN_SUPPORT_FOR_VERIFIED THEN "VERIFIED"
               ELSE IF NetAtLeast(S, C, 50) THEN "LIKELY_TRUE"
               ELSE IF NetAtMost(S, C, 75) /\ C >= MIN_CONTRADICTION_FOR_FALSE THEN "FALSE"
               ELSE IF NetAtMost(S, C, 40) THEN "LIKELY_FALSE" ELSE "PARTLY_TRUE"
  <2>1. ~(S + C < MIN_EVIDENCE_WEIGHT \/ O = 0)
    BY <1>3, SMT DEF MIN_EVIDENCE_WEIGHT
  <2>2. (S > 0 /\ C > 0) \/ NetAtMost(S, C, 40) \/ NetAtLeast(S, C, 50)
    BY <1>2, SMT
  <2>3. (NetAtMost(S, C, 75) /\ C >= MIN_CONTRADICTION_FOR_FALSE)
          <=> (NetAtMost(S, C, 75) /\ O >= 2 /\ C >= MIN_CONTRADICTION_FOR_FALSE)
    OBVIOUS
  <2> QED
    BY <1>4, <2>1, <2>2, <2>3 DEF Decide
<1>6. after = IF NetAtLeast(T, C, 75) /\ P >= 3 /\ T >= MIN_SUPPORT_FOR_VERIFIED THEN "VERIFIED"
              ELSE IF NetAtLeast(T, C, 50) THEN "LIKELY_TRUE"
              ELSE IF NetAtMost(T, C, 75) /\ C >= MIN_CONTRADICTION_FOR_FALSE THEN "FALSE"
              ELSE IF NetAtMost(T, C, 40) THEN "LIKELY_FALSE" ELSE "PARTLY_TRUE"
  <2>1. ~(T + C < MIN_EVIDENCE_WEIGHT \/ P = 0)
    BY <1>3, SMT DEF MIN_EVIDENCE_WEIGHT
  <2>2. (T > 0 /\ C > 0) \/ NetAtMost(T, C, 40) \/ NetAtLeast(T, C, 50)
    BY <1>2, SMT
  <2> QED
    BY <1>3, <1>4, <2>1, <2>2 DEF Decide
<1>7. /\ O >= 3 => P >= 3
      /\ S >= MIN_SUPPORT_FOR_VERIFIED => T >= MIN_SUPPORT_FOR_VERIFIED
  BY SMT DEF MIN_SUPPORT_FOR_VERIFIED
<1> HIDE DEF before, after
<1>8. Rank(after) >= Rank(before)
  BY <1>1, <1>2, <1>5, <1>6, <1>7, Ranked, SMT
<1> QED
  BY <1>8 DEF before, after

-----------------------------------------------------------------------------
(* The table of the submission *)

\* The table of one claim returns nothing else.
LEMMA DecideVerdict ==
  ASSUME NEW S, NEW C, NEW O, NEW x
  PROVE  Decide(S, C, O, x) \in ClaimVerdict
  BY DEF Decide, ByGenre, ByPenalty, ClaimVerdict

\* What is least in a set of ranks.
LEMMA LeastRank ==
  ASSUME NEW R \in SUBSET (1..7), R # {}
  PROVE  Min(R) \in R /\ \A y \in R : Min(R) <= y
<1>1. \A x \in R : x = 1 \/ x = 2 \/ x = 3 \/ x = 4 \/ x = 5 \/ x = 6 \/ x = 7
  BY SMT
<1>2. \E x \in R : \A y \in R : x <= y
  <2>1. CASE 1 \in R
    BY <1>1, <2>1, SMT
  <2>2. CASE 1 \notin R /\ 2 \in R
    BY <1>1, <2>2, SMT
  <2>3. CASE 1 \notin R /\ 2 \notin R /\ 3 \in R
    BY <1>1, <2>3, SMT
  <2>4. CASE 1 \notin R /\ 2 \notin R /\ 3 \notin R /\ 4 \in R
    BY <1>1, <2>4, SMT
  <2>5. CASE 1 \notin R /\ 2 \notin R /\ 3 \notin R /\ 4 \notin R
    <3>1. CASE 5 \in R
      BY <1>1, <2>5, <3>1, SMT
    <3>2. CASE 5 \notin R /\ 6 \in R
      BY <1>1, <2>5, <3>2, SMT
    <3>3. CASE 5 \notin R /\ 6 \notin R
      <4>1. \A x \in R : x = 7
        BY <1>1, <2>5, <3>3
      <4>2. PICK x \in R : TRUE
        OBVIOUS
      <4>3. 7 \in R
        BY <4>1, <4>2
      <4> QED
        BY <4>1, <4>3, SMT
    <3> QED
      BY <3>1, <3>2, <3>3
  <2> QED
    BY <2>1, <2>2, <2>3, <2>4, <2>5
<1> QED
  BY <1>2 DEF Min

\* The first rule that matches follows the least favourable of the claims
\* considered, where it is below UNVERIFIED or the result above PARTLY_TRUE.
LEMMA LeastDecides ==
  ASSUME NEW claims, NEW K,
         VerdictsOf(claims, K) \subseteq ClaimVerdict,
         NEW R, R = {Rank(v) : v \in VerdictsOf(claims, K) \ Genre}, R # {}
  PROVE  LET d == DecideOverall(claims, K)
         IN  /\ Min(R) < Rank("UNVERIFIED") => d = Order[Min(R)]
             /\ Rank(d) > Rank("PARTLY_TRUE") => d = Order[Min(R)]
<1> DEFINE V == VerdictsOf(claims, K)
           sub == V \ {"SATIRE", "OPINION"}
           n == Cardinality({k \in K : claims[k].verdict = "UNVERIFIED"})
           many == n > 0 /\ 2 * n >= Cardinality(K)
           d == DecideOverall(claims, K)
<1>1. sub = V \ Genre /\ sub # {}
  BY DEF Genre
<1>2. d = IF "FALSE" \in V THEN "FALSE"
          ELSE IF "MISLEADING" \in V THEN "MISLEADING"
          ELSE IF "LIKELY_FALSE" \in V THEN "LIKELY_FALSE"
          ELSE IF "PARTLY_TRUE" \in sub THEN "PARTLY_TRUE"
          ELSE IF sub = {"VERIFIED"} THEN "VERIFIED"
          ELSE IF sub # {} /\ sub \subseteq {"VERIFIED", "LIKELY_TRUE"} THEN "LIKELY_TRUE"
          ELSE IF many THEN "UNVERIFIED"
          ELSE IF sub \cap {"VERIFIED", "LIKELY_TRUE"} # {} /\ "UNVERIFIED" \in sub
            THEN "PARTLY_TRUE"
          ELSE "UNVERIFIED"
  <2>1. V \notin {{"SATIRE"}, {"OPINION"}}
    BY <1>1
  <2> QED
    BY <2>1, Zenon DEF DecideOverall
<1> HIDE DEF many, d
<1>3. \A v \in sub : v \in {"FALSE", "MISLEADING", "LIKELY_FALSE", "UNVERIFIED",
                            "PARTLY_TRUE", "LIKELY_TRUE", "VERIFIED"}
  BY DEF ClaimVerdict
<1>4. R = {Rank(v) : v \in sub}
  BY <1>1
<1> HIDE DEF sub
<1>5. R \subseteq 1..7
  BY <1>3, <1>4, Ranked, SMT
<1>6. Min(R) \in R /\ \A y \in R : Min(R) <= y
  BY <1>5, LeastRank
<1>7. PICK w \in sub : Min(R) = Rank(w)
  BY <1>4, <1>6
<1>8. Order[Min(R)] = w /\ \A v \in sub : Rank(w) <= Rank(v)
  <2>1. \A v \in sub : Rank(w) <= Rank(v)
    BY <1>4, <1>6, <1>7
  <2>2. /\ Order[1] = "FALSE" /\ Order[2] = "MISLEADING" /\ Order[3] = "LIKELY_FALSE"
        /\ Order[4] = "UNVERIFIED" /\ Order[5] = "PARTLY_TRUE" /\ Order[6] = "LIKELY_TRUE"
        /\ Order[7] = "VERIFIED"
    BY DEF Order
  <2> HIDE DEF Order
  <2>3. Order[Rank(w)] = w
    BY <1>3, <2>2, Ranked
  <2> QED
    BY <1>7, <2>1, <2>3
<1>9. "FALSE" \in V <=> "FALSE" \in sub
  BY DEF sub
<1>10. "MISLEADING" \in V <=> "MISLEADING" \in sub
  BY DEF sub
<1>11. "LIKELY_FALSE" \in V <=> "LIKELY_FALSE" \in sub
  BY DEF sub
<1> HIDE DEF V
<1>12. Rank(w) < Rank("UNVERIFIED") => d = w
  BY <1>2, <1>3, <1>8, <1>9, <1>10, <1>11, Ranked, SMT
<1>13. Rank(d) > Rank("PARTLY_TRUE") => d = w
  BY <1>2, <1>3, <1>8, <1>9, <1>10, <1>11, Ranked, SMT
<1> QED
  BY <1>7, <1>8, <1>12, <1>13 DEF d

\* Every scored claim has a verdict.
ScoredHaveVerdicts ==
  \E T : scored \in Seq(T) /\ \A c \in T : c.verdict \in ClaimVerdict

THEOREM ScoredVerdicts == Spec => []ScoredHaveVerdicts
<1>1. Init => ScoredHaveVerdicts
  <2> SUFFICES ASSUME Init PROVE ScoredHaveVerdicts
    OBVIOUS
  <2>1. scored \in Seq({})
    BY DEF Init
  <2> QED
    BY <2>1 DEF ScoredHaveVerdicts
<1>2. ScoredHaveVerdicts /\ [Next]_vars => ScoredHaveVerdicts'
  <2> SUFFICES ASSUME ScoredHaveVerdicts, [Next]_vars PROVE ScoredHaveVerdicts'
    OBVIOUS
  <2>1. PICK T : scored \in Seq(T) /\ \A c \in T : c.verdict \in ClaimVerdict
    BY DEF ScoredHaveVerdicts
  <2>2. ASSUME NEW d \in Document, ReadDocument(d) PROVE ScoredHaveVerdicts'
    BY <2>2, <2>1 DEF ReadDocument, ScoredHaveVerdicts
  <2>3. ASSUME ScoreClaim PROVE ScoredHaveVerdicts'
    <3> DEFINE s == score_claim(Signals(read), claim.context)
               r == [verdict |-> s.verdict, confidence |-> s.confidence,
                     importance |-> claim.importance]
    <3>1. scored' = Append(scored, r)
      BY <2>3 DEF ScoreClaim
    <3>2. s.verdict \in ClaimVerdict
      BY DecideVerdict DEF score_claim
    <3>3. r.verdict \in ClaimVerdict
      BY <3>2
    <3> HIDE DEF s, r
    <3>4. scored \in Seq(T \cup {r})
      BY <2>1, SMT
    <3>5. scored' \in Seq(T \cup {r})
      BY <3>1, <3>4, SMT
    <3> QED
      BY <2>1, <3>3, <3>5 DEF ScoredHaveVerdicts
  <2>4. CASE UNCHANGED vars
    BY <2>4, <2>1 DEF vars, ScoredHaveVerdicts
  <2> QED
    BY <2>2, <2>3, <2>4 DEF Next
<1> QED
  BY <1>1, <1>2, PTL DEF Spec

\* The weakest of the considered claims decides, for any evidence, any number of
\* claims and any importances.
THEOREM WeakestDecides == Spec => []WeakestClaimDecides
<1>1. ScoredHaveVerdicts => WeakestClaimDecides
  <2> SUFFICES ASSUME ScoredHaveVerdicts, Ranks # {} PROVE WeakestClaimDecides
    BY DEF WeakestClaimDecides
  <2>1. PICK T : scored \in Seq(T) /\ \A c \in T : c.verdict \in ClaimVerdict
    BY DEF ScoredHaveVerdicts
  <2> DEFINE K == Considered(scored)
  <2>2. K \subseteq DOMAIN scored
    BY DEF Considered
  <2>3. DOMAIN scored # {}
    BY <2>2 DEF Ranks
  <2>4. Overall.verdict = DecideOverall(scored, K)
    BY <2>3 DEF Overall, score_overall
  <2> HIDE DEF K
  <2>5. VerdictsOf(scored, K) \subseteq ClaimVerdict
    BY <2>1, <2>2, SMT DEF VerdictsOf
  <2>6. Ranks = {Rank(v) : v \in VerdictsOf(scored, K) \ Genre}
    BY DEF Ranks, VerdictsOf, K
  <2> QED
    BY <2>4, <2>5, <2>6, LeastDecides DEF WeakestClaimDecides
<1> QED
  BY <1>1, ScoredVerdicts, PTL

-----------------------------------------------------------------------------
(* Sums over finite sets *)

\* What the sums of Folds take first from a set.
Any(s) == CHOOSE x \in s : TRUE

\* f gives the sums of w over the subsets of S.
Adds(f, w, S) ==
  f = [s \in SUBSET S |-> IF s = {} THEN 0 ELSE w[Any(s)] + f[s \ {Any(s)}]]

LEMMA WeightsAdd ==
  ASSUME NEW E, \E f : Adds(f, [x \in E |-> Weight(x)], E)
  PROVE  \E f : Adds(f, [x \in E |-> Weight(x)], E) /\ MapThenSumSet(Weight, E) = f[E]
<1> DEFINE w == [x \in E |-> Weight(x)]
           Rule(f) == f = [s \in SUBSET E |->
                             IF s = {} THEN 0
                             ELSE Weight(CHOOSE x \in s : TRUE) + f[s \ {CHOOSE x \in s : TRUE}]]
           g == CHOOSE f : Rule(f)
<1>1. \A s \in SUBSET E : s # {} => w[Any(s)] = Weight(CHOOSE x \in s : TRUE)
  <2> SUFFICES ASSUME NEW s \in SUBSET E, s # {} PROVE Any(s) \in s
    BY DEF Any
  <2> QED BY DEF Any
<1>2. MapThenSumSet(Weight, E) = g[E]
  BY DEF MapThenSumSet, MapThenFoldSet
<1>3. ASSUME NEW f PROVE Adds(f, w, E) <=> Rule(f)
  <2>1. [s \in SUBSET E |-> IF s = {} THEN 0 ELSE w[Any(s)] + f[s \ {Any(s)}]]
         = [s \in SUBSET E |-> IF s = {} THEN 0
              ELSE Weight(CHOOSE x \in s : TRUE) + f[s \ {CHOOSE x \in s : TRUE}]]
    BY <1>1 DEF Any
  <2> QED BY <2>1 DEF Adds
<1>4. Rule(g)
  <2>1. PICK f : Adds(f, w, E)
    OBVIOUS
  <2>2. Rule(f)
    BY <1>3, <2>1
  <2> HIDE DEF Rule
  <2> QED BY <2>2
<1>5. Adds(g, w, E)
  BY <1>3, <1>4
<1> QED BY <1>2, <1>5

\* A set of numbers has a least one.
LEMMA Least ==
  ASSUME NEW T \in SUBSET Nat, T # {}
  PROVE  \E n \in T : \A m \in T : n <= m
<1>1. IsWellFoundedOn(OpToRel(<, Nat), Nat)
  BY NatLessThanWellFounded
<1> DEFINE R == {ss \in Nat \X Nat : ss[1] < ss[2]}
<1>2. OpToRel(<, Nat) = R
  BY DEF OpToRel
<1>3. IsWellFoundedOn(R, Nat)
  BY <1>1, <1>2
<1>4. PICK n \in T : \A m \in T : ~(<<m, n>> \in R)
  BY <1>3, WFMin
<1>5. \A m \in T : ~(m < n)
  BY <1>4
<1> QED BY <1>5

\* Of the subsets of a finite set with some property (those in F) one is smallest:
\* if it is not empty, what is left without any of its elements is not in F.
LEMMA Smallest ==
  ASSUME NEW S, IsFiniteSet(S), NEW F \in SUBSET (SUBSET S), F # {}
  PROVE  \E s \in F : /\ IsFiniteSet(s)
                      /\ \A x \in s : s \ {x} \in SUBSET S /\ s \ {x} \notin F
<1> DEFINE T == {Cardinality(s) : s \in F}
<1>1. \A s \in SUBSET S : IsFiniteSet(s) /\ Cardinality(s) \in Nat
  BY FS_Subset, FS_CardinalityType
<1>2. T \in SUBSET Nat /\ T # {}
  BY <1>1
<1>3. PICK n \in T : \A m \in T : n <= m
  BY <1>2, Least
<1>4. PICK s \in F : n = Cardinality(s)
  OBVIOUS
<1>5. ASSUME NEW x \in s, s \ {x} \in F PROVE FALSE
  <2>1. Cardinality(s \ {x}) = Cardinality(s) - 1
    BY <1>1, FS_RemoveElement
  <2>2. Cardinality(s \ {x}) \in T /\ Cardinality(s) \in Nat
    BY <1>1, <1>5
  <2> HIDE DEF T
  <2>3. n <= Cardinality(s \ {x})
    BY <1>3, <2>2
  <2> QED BY <1>4, <2>1, <2>2, <2>3
<1> QED BY <1>1, <1>5

LEMMA AnyIs == ASSUME NEW s, s # {} PROVE Any(s) \in s
BY DEF Any

\* The recursion of Folds has a solution: one for the sets of up to n elements,
\* for every n.
LEMMA SumsExist ==
  ASSUME NEW S, IsFiniteSet(S), NEW w
  PROVE  \E f : Adds(f, w, S)
<1> DEFINE D(n) == {s \in SUBSET S : Cardinality(s) <= n}
           Solves(f, n) == f = [s \in D(n) |-> IF s = {} THEN 0 ELSE w[Any(s)] + f[s \ {Any(s)}]]
           T == {n \in Nat : ~\E f : Solves(f, n)}
<1>1. \A s \in SUBSET S : /\ IsFiniteSet(s) /\ Cardinality(s) \in Nat
                          /\ s # {} => /\ s \ {Any(s)} \in SUBSET S
                                       /\ Cardinality(s) # 0
                                       /\ Cardinality(s \ {Any(s)}) = Cardinality(s) - 1
  BY AnyIs, FS_Subset, FS_CardinalityType, FS_RemoveElement, FS_EmptySet
<1>2. \E f : Solves(f, 0)
  <2> DEFINE f == [s \in D(0) |-> 0]
  <2>1. \A s \in D(0) : s = {}
    <3> SUFFICES ASSUME NEW s \in SUBSET S, Cardinality(s) <= 0 PROVE s = {}
      OBVIOUS
    <3>1. Cardinality(s) \in Nat /\ IsFiniteSet(s)
      BY <1>1
    <3>2. Cardinality(s) = 0
      BY <3>1
    <3> QED BY <3>1, <3>2, FS_EmptySet
  <2>2. Solves(f, 0)
    BY <2>1
  <2> QED BY <2>2
<1>3. ASSUME NEW n \in Nat, NEW f, Solves(f, n) PROVE \E g : Solves(g, n + 1)
  <2> DEFINE Sum1(h, s) == IF s = {} THEN 0 ELSE w[Any(s)] + h[s \ {Any(s)}]
             g == [s \in D(n + 1) |-> Sum1(f, s)]
  <2>1. \A s \in D(n) : f[s] = Sum1(f, s)
    BY <1>3
  <2>2. \A s \in D(n + 1) : s # {} => s \ {Any(s)} \in D(n)
    BY <1>1
  <2>3. \A s \in D(n) : s \in D(n + 1)
    <3> SUFFICES ASSUME NEW s \in SUBSET S, Cardinality(s) <= n PROVE Cardinality(s) <= n + 1
      OBVIOUS
    <3>1. Cardinality(s) \in Nat
      BY <1>1
    <3> QED BY <3>1
  <2> HIDE DEF D
  <2>4. \A s \in D(n + 1) : s # {} => g[s \ {Any(s)}] = f[s \ {Any(s)}]
    BY <2>1, <2>2, <2>3
  <2>5. g = [s \in D(n + 1) |-> Sum1(g, s)]
    <3>1. ASSUME NEW s \in D(n + 1) PROVE Sum1(g, s) = Sum1(f, s)
      <4>1. s # {} => g[s \ {Any(s)}] = f[s \ {Any(s)}]
        BY <2>4
      <4> HIDE DEF g
      <4> QED BY <4>1
    <3> HIDE DEF Sum1
    <3> QED BY <3>1
  <2>6. Solves(g, n + 1)
    BY <2>5
  <2> QED BY <2>6
<1> HIDE DEF D, Solves
<1>4. T = {}
  <2> SUFFICES ASSUME T # {} PROVE FALSE
    OBVIOUS
  <2>1. PICK n \in T : \A m \in T : n <= m
    BY Least
  <2>2. n # 0
    BY <1>2
  <2>3. n - 1 \in Nat /\ n = (n - 1) + 1
    BY <2>2
  <2>4. n - 1 \notin T
    BY <2>1, <2>3
  <2>5. PICK f : Solves(f, n - 1)
    BY <2>3, <2>4
  <2>6. \E g : Solves(g, (n - 1) + 1)
    BY <1>3, <2>3, <2>5
  <2> QED BY <2>1, <2>3, <2>6
<1>5. Cardinality(S) \in Nat
  BY FS_CardinalityType
<1>6. PICK f : Solves(f, Cardinality(S))
  BY <1>4, <1>5
<1>7. D(Cardinality(S)) = SUBSET S
  BY FS_Subset DEF D
<1>8. Adds(f, w, S)
  BY <1>6, <1>7 DEF Solves, Adds
<1> QED BY <1>8

\* A sum of numbers is a number no less than each of them.
LEMMA SumsAreNumbers ==
  ASSUME NEW S, IsFiniteSet(S), NEW w, \A x \in S : w[x] \in Nat, NEW f, Adds(f, w, S)
  PROVE  /\ f[{}] = 0
         /\ \A s \in SUBSET S : f[s] \in Nat /\ \A x \in s : w[x] <= f[s]
<1> DEFINE Good(s) == f[s] \in Nat /\ \A x \in s : w[x] <= f[s]
           F == {s \in SUBSET S : ~Good(s)}
<1>1. \A s \in SUBSET S : f[s] = IF s = {} THEN 0 ELSE w[Any(s)] + f[s \ {Any(s)}]
  BY DEF Adds
<1>2. F = {}
  <2> SUFFICES ASSUME F # {} PROVE FALSE
    OBVIOUS
  <2>1. PICK s \in F : \A x \in s : s \ {x} \in SUBSET S /\ s \ {x} \notin F
    <3>1. F \in SUBSET (SUBSET S)
      OBVIOUS
    <3> HIDE DEF F
    <3>2. \E z \in F : /\ IsFiniteSet(z)
                      /\ \A x \in z : z \ {x} \in SUBSET S /\ z \ {x} \notin F
      BY <3>1, Smallest
    <3> QED BY <3>2
  <2>2. CASE s = {}
    <3>1. f[s] = 0
      BY <1>1, <2>2
    <3> QED BY <2>2, <3>1
  <2>3. CASE s # {}
    <3> DEFINE a == Any(s)
               t == s \ {a}
    <3>1. a \in s /\ a \in S /\ t \in SUBSET S
      BY <2>3, AnyIs
    <3>2. f[t] \in Nat /\ \A x \in t : w[x] <= f[t]
      BY <2>1, <3>1
    <3>3. f[s] = w[a] + f[t]
      BY <1>1, <2>3
    <3>4. \A x \in s : x = a \/ x \in t
      OBVIOUS
    <3> HIDE DEF a, t
    <3>5. w[a] \in Nat
      BY <3>1
    <3>6. f[s] \in Nat /\ f[t] <= f[s] /\ w[a] <= f[s]
      BY <3>2, <3>3, <3>5
    <3>7. \A x \in t : w[x] \in Nat /\ w[x] <= f[t]
      BY <3>1, <3>2
    <3>8. \A x \in t : w[x] <= f[s]
      BY <3>2, <3>6, <3>7
    <3>9. \A x \in s : w[x] <= f[s]
      BY <3>4, <3>6, <3>8
    <3> QED BY <3>6, <3>9
  <2> QED BY <2>2, <2>3
<1>3. f[{}] = 0
  BY <1>1
<1> QED BY <1>2, <1>3

\* It does not matter which element is added last.
LEMMA SumWithout ==
  ASSUME NEW S, IsFiniteSet(S), NEW w, \A x \in S : w[x] \in Nat, NEW f, Adds(f, w, S)
  PROVE  \A s \in SUBSET S : \A y \in s : f[s] = w[y] + f[s \ {y}]
<1> DEFINE Good(s) == \A y \in s : f[s] = w[y] + f[s \ {y}]
           F == {s \in SUBSET S : ~Good(s)}
<1>1. \A s \in SUBSET S : f[s] = IF s = {} THEN 0 ELSE w[Any(s)] + f[s \ {Any(s)}]
  BY DEF Adds
<1>2. \A s \in SUBSET S : f[s] \in Nat
  BY SumsAreNumbers
<1>3. F = {}
  <2> SUFFICES ASSUME F # {} PROVE FALSE
    OBVIOUS
  <2>1. PICK s \in F : \A x \in s : s \ {x} \in SUBSET S /\ s \ {x} \notin F
    <3>1. F \in SUBSET (SUBSET S)
      OBVIOUS
    <3> HIDE DEF F
    <3>2. \E z \in F : /\ IsFiniteSet(z)
                      /\ \A x \in z : z \ {x} \in SUBSET S /\ z \ {x} \notin F
      BY <3>1, Smallest
    <3> QED BY <3>2
  <2>2. PICK y \in s : f[s] # w[y] + f[s \ {y}]
    OBVIOUS
  <2> DEFINE a == Any(s)
             both == (s \ {a}) \ {y}
  <2>3. a \in s /\ f[s] = w[a] + f[s \ {a}]
    BY <1>1, <2>2, AnyIs
  <2>4. a # y /\ y \in s \ {a} /\ a \in s \ {y}
    BY <2>2, <2>3
  <2>5. Good(s \ {a}) /\ Good(s \ {y})
    BY <2>1, <2>2, <2>3
  <2>6. f[s \ {a}] = w[y] + f[both]
    BY <2>4, <2>5
  <2>7. both = (s \ {y}) \ {a}
    OBVIOUS
  <2>8. f[s \ {y}] = w[a] + f[both]
    BY <2>4, <2>5, <2>7
  <2>9. w[a] \in Nat /\ w[y] \in Nat /\ f[both] \in Nat
    BY <1>2, <2>3
  <2> HIDE DEF a, both
  <2> QED BY <2>2, <2>3, <2>6, <2>8, <2>9
<1> QED BY <1>3

\* What is added to a sum does not make it less.
LEMMA SumGrows ==
  ASSUME NEW S, IsFiniteSet(S), NEW w, \A x \in S : w[x] \in Nat, NEW f, Adds(f, w, S),
         NEW s \in SUBSET S
  PROVE  f[s] <= f[S]
<1> DEFINE F == {t \in SUBSET S : s \subseteq t /\ ~(f[s] <= f[t])}
<1>1. \A t \in SUBSET S : f[t] \in Nat
  BY SumsAreNumbers
<1>2. F = {}
  <2> SUFFICES ASSUME F # {} PROVE FALSE
    OBVIOUS
  <2>1. PICK t \in F : \A x \in t : t \ {x} \in SUBSET S /\ t \ {x} \notin F
    <3>1. F \in SUBSET (SUBSET S)
      OBVIOUS
    <3> HIDE DEF F
    <3>2. \E z \in F : /\ IsFiniteSet(z)
                      /\ \A x \in z : z \ {x} \in SUBSET S /\ z \ {x} \notin F
      BY <3>1, Smallest
    <3> QED BY <3>2
  <2>2. t # s
    BY <1>1
  <2>3. PICK y \in t : y \notin s
    BY <2>2
  <2>4. s \subseteq t \ {y} /\ t \ {y} \in SUBSET S
    BY <2>3
  <2>5. f[s] <= f[t \ {y}]
    BY <2>1, <2>4
  <2>6. f[t] = w[y] + f[t \ {y}]
    BY SumWithout
  <2>7. w[y] \in Nat /\ f[t \ {y}] \in Nat /\ f[s] \in Nat
    BY <1>1, <2>4
  <2> QED BY <2>5, <2>6, <2>7
<1> QED BY <1>2

\* Sums of the same numbers are the same, over whatever set they are defined.
LEMMA SumsAgree ==
  ASSUME NEW S, IsFiniteSet(S), NEW w, NEW f, Adds(f, w, S),
         NEW R, S \subseteq R, NEW v, NEW g, Adds(g, v, R),
         \A x \in S : v[x] = w[x]
  PROVE  \A s \in SUBSET S : f[s] = g[s]
<1> DEFINE F == {s \in SUBSET S : f[s] # g[s]}
<1>1. \A s \in SUBSET S : f[s] = IF s = {} THEN 0 ELSE w[Any(s)] + f[s \ {Any(s)}]
  BY DEF Adds
<1>2. \A s \in SUBSET R : g[s] = IF s = {} THEN 0 ELSE v[Any(s)] + g[s \ {Any(s)}]
  BY DEF Adds
<1>3. F = {}
  <2> SUFFICES ASSUME F # {} PROVE FALSE
    OBVIOUS
  <2>1. PICK s \in F : \A x \in s : s \ {x} \in SUBSET S /\ s \ {x} \notin F
    <3>1. F \in SUBSET (SUBSET S)
      OBVIOUS
    <3> HIDE DEF F
    <3>2. \E z \in F : /\ IsFiniteSet(z)
                      /\ \A x \in z : z \ {x} \in SUBSET S /\ z \ {x} \notin F
      BY <3>1, Smallest
    <3> QED BY <3>2
  <2>2. s \in SUBSET S /\ s \in SUBSET R /\ f[s] # g[s]
    OBVIOUS
  <2>3. s # {}
    BY <1>1, <1>2, <2>2
  <2>4. Any(s) \in s
    BY <2>3, AnyIs
  <2>5. f[s \ {Any(s)}] = g[s \ {Any(s)}] /\ w[Any(s)] = v[Any(s)]
    BY <2>1, <2>4
  <2>6. f[s] = w[Any(s)] + f[s \ {Any(s)}] /\ g[s] = v[Any(s)] + g[s \ {Any(s)}]
    BY <1>1, <1>2, <2>2, <2>3
  <2> QED BY <2>2, <2>5, <2>6
<1> QED BY <1>3

\* What the divisor of the agreement of the sides needs: a mass that is not zero is
\* not rounded to it.
Coarse(x) == x = 0 \/ x >= 100

LEMMA NothingAddsNothing ==
  ASSUME NEW S, NEW w, \A x \in S : w[x] = 0, NEW f, Adds(f, w, S), IsFiniteSet(S)
  PROVE  f[S] = 0
<1> DEFINE z == [s \in SUBSET S |-> 0]
<1>1. Adds(z, w, S)
  <2>1. ASSUME NEW s \in SUBSET S
        PROVE  z[s] = IF s = {} THEN 0 ELSE w[Any(s)] + z[s \ {Any(s)}]
    <3>1. s # {} => w[Any(s)] = 0 /\ z[s \ {Any(s)}] = 0
      BY AnyIs
    <3> QED BY <3>1
  <2> QED BY <2>1 DEF Adds
<1>2. z[S] = 0
  OBVIOUS
<1> HIDE DEF z
<1>3. z[S] = f[S]
  BY <1>1, SumsAgree
<1> QED BY <1>2, <1>3

-----------------------------------------------------------------------------
(* The weight of a side *)

\* What can be weighed: finitely many signals, each with its weight.
Weighable(E) == IsFiniteSet(E) /\ \A s \in E : Weight(s) \in Nat

OfOrigin(E, o) == {s \in E : s.origin = o}

LEMMA OriginsAreFinite ==
  ASSUME NEW E, IsFiniteSet(E) PROVE IsFiniteSet(Origins(E))
<1> DEFINE f == [s \in E |-> s.origin]
<1>1. f \in Surjection(E, Origins(E))
  BY DEF Origins, Surjection
<1> QED BY <1>1, FS_Surjection

LEMMA GreatestIs ==
  ASSUME NEW T \in SUBSET Nat, T # {}, NEW b \in Nat, \A t \in T : t <= b
  PROVE  Max(T) \in T /\ \A t \in T : t <= Max(T)
<1> DEFINE U == {b - t : t \in T}
<1>1. U \in SUBSET Nat /\ U # {}
  <2>1. \A t \in T : t \in Nat /\ t <= b
    OBVIOUS
  <2>2. \A t \in T : b - t \in Nat
    BY <2>1
  <2> QED BY <2>2
<1>2. PICK u \in U : \A m \in U : u <= m
  <2> HIDE DEF U
  <2> QED BY <1>1, Least
<1>3. PICK t \in T : u = b - t
  OBVIOUS
<1>4. ASSUME NEW s \in T PROVE t >= s
  <2>1. b - s \in U /\ b - t \in Int
    OBVIOUS
  <2>2. b - t <= b - s
    BY <1>2, <1>3, <2>1
  <2> QED BY <2>2
<1>5. \E x \in T : \A y \in T : x >= y
  BY <1>4
<1>6. Max(T) \in T /\ \A y \in T : Max(T) >= y
  BY <1>5 DEF Max
<1> QED BY <1>6

\* The strongest passage of an origin weighs no more than all of them.
LEMMA OriginIsWeighed ==
  ASSUME NEW E, Weighable(E), E # {}
  PROVE  OriginWeight(E) \in Nat /\ Coarse(OriginWeight(E))
<1> DEFINE w == [x \in E |-> Weight(x)]
           T == {Weight(s) : s \in E}
<1>1. PICK f : Adds(f, w, E) /\ MapThenSumSet(Weight, E) = f[E]
  <2>1. \E g : Adds(g, w, E)
    <3> HIDE DEF w
    <3> QED BY SumsExist DEF Weighable
  <2> QED BY <2>1, WeightsAdd
<1>2. \A x \in E : w[x] \in Nat /\ w[x] = Weight(x)
  BY DEF Weighable
<1>3. f[E] \in Nat /\ \A x \in E : w[x] <= f[E]
  <2> HIDE DEF w
  <2> QED BY <1>1, <1>2, SumsAreNumbers DEF Weighable
<1>4. T \in SUBSET Nat /\ T # {} /\ \A t \in T : t <= f[E]
  BY <1>2, <1>3
<1>5. Max(T) \in T /\ \A t \in T : t <= Max(T)
  <2> HIDE DEF T
  <2> QED BY <1>3, <1>4, GreatestIs
<1>6. OriginWeight(E) = 100 * Max(T) + CLUSTER_DAMPING * (f[E] - Max(T))
  BY <1>1 DEF OriginWeight
<1>7. Max(T) \in Nat /\ Max(T) <= f[E]
  BY <1>4, <1>5
<1>8. \E x \in E : w[x] = Max(T)
  BY <1>2, <1>5
<1>9. CASE f[E] = 0
  <2> HIDE DEF T
  <2> QED BY <1>3, <1>6, <1>7, <1>9 DEF Coarse, CLUSTER_DAMPING
<1>10. CASE f[E] # 0 /\ Max(T) = 0
  <2>1. \A t \in T : t = 0
    <3> HIDE DEF T
    <3> QED BY <1>4, <1>5, <1>10
  <2>2. \A x \in E : w[x] = 0
    BY <1>2, <2>1
  <2> HIDE DEF w, T
  <2> QED BY <1>1, <1>10, <2>2, NothingAddsNothing DEF Weighable
<1>11. CASE Max(T) # 0
  <2> HIDE DEF T
  <2>1. Max(T) >= 1 /\ f[E] - Max(T) \in Nat
    BY <1>3, <1>7, <1>11
  <2> QED BY <1>6, <1>7, <2>1 DEF Coarse, CLUSTER_DAMPING
<1>12. OriginWeight(E) \in Nat
  <2> HIDE DEF T
  <2> QED BY <1>3, <1>6, <1>7 DEF CLUSTER_DAMPING
<1> QED BY <1>9, <1>10, <1>11, <1>12

\* The weight of a side is a sum over its origins.
SideSum(f, E) ==
  /\ Adds(f, [o \in Origins(E) |-> OriginWeight(OfOrigin(E, o))], Origins(E))
  /\ SideWeight(E) = f[Origins(E)]

LEMMA SideAdds ==
  ASSUME NEW E, IsFiniteSet(E)
  PROVE  \E f : SideSum(f, E)
<1> DEFINE D == Origins(E)
           w == [o \in D |-> OriginWeight(OfOrigin(E, o))]
           Rule(f) == f = [s \in SUBSET D |->
                             IF s = {} THEN 0
                             ELSE OriginWeight({x \in E : x.origin = CHOOSE o \in s : TRUE})
                                    + f[s \ {CHOOSE o \in s : TRUE}]]
           g == CHOOSE f : Rule(f)
<1>1. \A s \in SUBSET D : s # {} =>
        w[Any(s)] = OriginWeight({x \in E : x.origin = CHOOSE o \in s : TRUE})
  <2> SUFFICES ASSUME NEW s \in SUBSET D, s # {} PROVE Any(s) \in D
    BY DEF Any, OfOrigin
  <2> QED BY AnyIs
<1>2. SideWeight(E) = g[D]
  BY DEF SideWeight, MapThenSumSet, MapThenFoldSet
<1>3. ASSUME NEW f PROVE Adds(f, w, D) <=> Rule(f)
  <2>1. [s \in SUBSET D |-> IF s = {} THEN 0 ELSE w[Any(s)] + f[s \ {Any(s)}]]
         = [s \in SUBSET D |-> IF s = {} THEN 0
              ELSE OriginWeight({x \in E : x.origin = CHOOSE o \in s : TRUE})
                     + f[s \ {CHOOSE o \in s : TRUE}]]
    <3> HIDE DEF D, w
    <3> QED BY <1>1 DEF Any
  <2> QED BY <2>1 DEF Adds
<1>4. Rule(g)
  <2>1. PICK f : Adds(f, w, D)
    <3> HIDE DEF w
    <3> QED BY OriginsAreFinite, SumsExist
  <2>2. Rule(f)
    BY <1>3, <2>1
  <2> HIDE DEF Rule
  <2> QED BY <2>2
<1>5. Adds(g, w, D)
  BY <1>3, <1>4
<1> HIDE DEF g
<1> QED BY <1>2, <1>5 DEF SideSum

LEMMA OriginsWeigh ==
  ASSUME NEW E, Weighable(E), NEW o \in Origins(E)
  PROVE  OriginWeight(OfOrigin(E, o)) \in Nat
<1>1. OfOrigin(E, o) \in SUBSET E /\ OfOrigin(E, o) # {}
  BY DEF OfOrigin, Origins
<1>2. Weighable(OfOrigin(E, o))
  BY <1>1, FS_Subset DEF Weighable
<1> QED BY <1>1, <1>2, OriginIsWeighed

LEMMA SideIsWeighed ==
  ASSUME NEW E, Weighable(E)
  PROVE  /\ SideWeight(E) \in Nat /\ Cardinality(Origins(E)) \in Nat
         /\ E = {} => SideWeight(E) = 0
<1> DEFINE D == Origins(E)
           w == [o \in D |-> OriginWeight(OfOrigin(E, o))]
<1>1. PICK f : Adds(f, w, D) /\ SideWeight(E) = f[D]
  BY SideAdds DEF SideSum, Weighable
<1>2. IsFiniteSet(D) /\ \A o \in D : w[o] \in Nat
  BY OriginsAreFinite, OriginsWeigh DEF Weighable
<1>3. f[D] \in Nat /\ f[{}] = 0
  <2> HIDE DEF D, w
  <2> QED BY <1>1, <1>2, SumsAreNumbers
<1>4. E = {} => D = {}
  BY DEF Origins
<1> QED BY <1>1, <1>2, <1>3, <1>4, FS_CardinalityType

LEMMA SideIsCoarse ==
  ASSUME NEW E, Weighable(E)
  PROVE  Coarse(SideWeight(E))
<1> DEFINE D == Origins(E)
           w == [o \in D |-> OriginWeight(OfOrigin(E, o))]
<1>1. PICK f : Adds(f, w, D) /\ SideWeight(E) = f[D]
  BY SideAdds DEF SideSum, Weighable
<1>2. IsFiniteSet(D) /\ \A o \in D : w[o] \in Nat
  BY OriginsAreFinite, OriginsWeigh DEF Weighable
<1>3. \A o \in D : Coarse(w[o])
  <2> SUFFICES ASSUME NEW o \in D PROVE Coarse(OriginWeight(OfOrigin(E, o)))
    OBVIOUS
  <2>1. OfOrigin(E, o) \in SUBSET E /\ OfOrigin(E, o) # {}
    BY DEF OfOrigin, Origins
  <2>2. Weighable(OfOrigin(E, o))
    BY <2>1, FS_Subset DEF Weighable
  <2> QED BY <2>1, <2>2, OriginIsWeighed
<1> HIDE DEF D, w
<1>4. f[D] \in Nat /\ \A o \in D : w[o] <= f[D]
  BY <1>1, <1>2, SumsAreNumbers
<1>5. CASE \A o \in D : w[o] = 0
  BY <1>1, <1>2, <1>5, NothingAddsNothing DEF Coarse
<1>6. CASE \E o \in D : w[o] # 0
  BY <1>1, <1>2, <1>3, <1>4, <1>6 DEF Coarse
<1> QED BY <1>5, <1>6

\* A side that gains signals of other origins does not lose weight.
LEMMA SideGrows ==
  ASSUME NEW E, Weighable(E), NEW F, Weighable(F), E \subseteq F,
         \A s \in F \ E : s.origin \notin Origins(E)
  PROVE  /\ SideWeight(E) <= SideWeight(F)
         /\ Cardinality(Origins(E)) <= Cardinality(Origins(F))
<1> DEFINE D == Origins(E)
           w == [o \in D |-> OriginWeight(OfOrigin(E, o))]
           H == Origins(F)
           v == [o \in H |-> OriginWeight(OfOrigin(F, o))]
<1>1. PICK f : Adds(f, w, D) /\ SideWeight(E) = f[D]
  BY SideAdds DEF SideSum, Weighable
<1>2. PICK g : Adds(g, v, H) /\ SideWeight(F) = g[H]
  BY SideAdds DEF SideSum, Weighable
<1>3. IsFiniteSet(D) /\ IsFiniteSet(H) /\ D \in SUBSET H
  <2>1. D \in SUBSET H
    BY DEF Origins
  <2> QED BY <2>1, OriginsAreFinite DEF Weighable
<1>4. \A o \in H : v[o] \in Nat
  BY OriginsWeigh
<1>5. \A o \in D : v[o] = w[o]
  <2> SUFFICES ASSUME NEW o \in D PROVE OfOrigin(E, o) = OfOrigin(F, o)
    BY <1>3
  <2> QED BY DEF OfOrigin
<1> HIDE DEF D, w, H, v
<1>6. f[D] = g[D]
  <2>1. D \subseteq H /\ D \in SUBSET D
    BY <1>3
  <2>2. \A s \in SUBSET D : f[s] = g[s]
    BY <1>1, <1>2, <1>3, <1>5, <2>1, SumsAgree
  <2> QED BY <2>1, <2>2
<1>7. g[D] <= g[H]
  BY <1>2, <1>3, <1>4, SumGrows
<1>8. Cardinality(D) <= Cardinality(H)
  BY <1>3, FS_Subset
<1> QED BY <1>1, <1>2, <1>6, <1>7, <1>8 DEF D, H

-----------------------------------------------------------------------------
(* Every state is a call of the scorer *)

\* The documents read for a claim, with their evidence.
DocumentsFor(c) ==
  {[report |-> d.report, publisher |-> d.publisher, text |-> d.text,
    evidence |-> extract_evidence_for_claim(c.text, d.text)] : d \in Document}

AssessInv ==
  claim \in Claims /\ read \in Seq(DocumentsFor(claim)) /\ score = Score(read)

LEMMA AssessInvariant == Spec => []AssessInv
<1>1. Init => AssessInv
  BY DEF Init, AssessInv
<1>2. AssessInv /\ [Next]_vars => AssessInv'
  <2> SUFFICES ASSUME AssessInv, [Next]_vars PROVE AssessInv'
    OBVIOUS
  <2>1. ASSUME NEW d \in Document, ReadDocument(d) PROVE AssessInv'
    <3> DEFINE r == [report |-> d.report, publisher |-> d.publisher, text |-> d.text,
                     evidence |-> extract_evidence_for_claim(claim.text, d.text)]
    <3>1. read' = Append(read, r) /\ claim' = claim /\ score' = Score(read')
      BY <2>1 DEF ReadDocument
    <3>2. r \in DocumentsFor(claim)
      BY DEF DocumentsFor
    <3>3. DocumentsFor(claim)' = DocumentsFor(claim)
      BY <3>1 DEF DocumentsFor
    <3> HIDE DEF r
    <3>4. read' \in Seq(DocumentsFor(claim))
      BY <3>1, <3>2 DEF AssessInv
    <3> QED BY <3>1, <3>3, <3>4 DEF AssessInv
  <2>2. CASE ScoreClaim
    <3>1. claim' \in Claims /\ read' = <<>> /\ score' = Score(<<>>)
      BY <2>2 DEF ScoreClaim
    <3> QED BY <3>1 DEF AssessInv
  <2>3. CASE UNCHANGED vars
    BY <2>3 DEF vars, AssessInv, DocumentsFor
  <2> QED BY <2>1, <2>2, <2>3 DEF Next
<1> QED BY <1>1, <1>2, PTL DEF Spec

-----------------------------------------------------------------------------
(* From passages to evidence *)

\* No row counts against the claim whose passage states all of its figures and
\* denies nothing, unless a language model says so.
RepetitionIsNoRefutation ==
  \A k \in DOMAIN read : \A i \in DOMAIN read[k].evidence :
    Restates(read[k].text[i]) /\ read[k].text[i].model # "CONTRADICTS"
      => read[k].evidence[i].relationship # "CONTRADICTS"

\* The rules find no disagreement where every figure is corroborated.
LEMMA CorroboratedIsNoConflict ==
  ASSUME NEW p, Restates(p)
  PROVE  classify_passage(claim.text, p) # "CONTRADICTS"
<1>1. ~_numeric_conflict(claim.text, p)
  BY DEF Restates, _numeric_conflict
<1> QED
  BY <1>1 DEF classify_passage, Restates

\* For any claim and any article, of whatever length and with whatever figures:
\* repeating a claim is no evidence against it.
THEOREM RepetitionCountsFor == Spec => []RepetitionIsNoRefutation
<1>1. AssessInv => RepetitionIsNoRefutation
  <2> SUFFICES ASSUME AssessInv,
                      NEW k \in DOMAIN read, NEW i \in DOMAIN read[k].evidence,
                      Restates(read[k].text[i]), read[k].text[i].model # "CONTRADICTS"
               PROVE  read[k].evidence[i].relationship # "CONTRADICTS"
    BY DEF RepetitionIsNoRefutation
  <2>1. read[k] \in DocumentsFor(claim)
    BY DEF AssessInv
  <2>2. read[k].evidence = extract_evidence_for_claim(claim.text, read[k].text)
    BY <2>1 DEF DocumentsFor
  <2>3. read[k].evidence[i].relationship = Label(claim.text, read[k].text[i])
    BY <2>2 DEF extract_evidence_for_claim
  <2> QED
    BY <2>3, CorroboratedIsNoConflict DEF Label
<1> QED
  BY <1>1, AssessInvariant, PTL

-----------------------------------------------------------------------------
(* Signals *)

LEMMA FactorIs ==
  ASSUME NEW type \in SourceType, NEW primary \in BOOLEAN
  PROVE  source_factor(type, primary) \in SOURCE_FACTOR_MIN .. SOURCE_FACTOR_MAX
<1>1. SOURCE_FACTORS[type] \in Nat
  BY DEF SourceType, SOURCE_FACTORS
<1>2. (IF primary THEN PRIMARY_SOURCE_BONUS ELSE 0) \in Nat
  BY DEF PRIMARY_SOURCE_BONUS
<1> QED
  BY <1>1, <1>2 DEF source_factor, Greater, Lesser, SOURCE_FACTOR_MIN, SOURCE_FACTOR_MAX

\* A document's evidence is finite, and each row of it is one of a passage.
LEMMA DocumentIs ==
  ASSUME NEW c, NEW r \in DocumentsFor(c)
  PROVE  /\ IsFiniteSet(DOMAIN r.evidence) /\ DOMAIN r.evidence \subseteq DOMAIN r.text
         /\ DOMAIN r.evidence \subseteq Nat \ {0}
         /\ r.publisher \in Publisher
         /\ \A i \in DOMAIN r.evidence :
              r.evidence[i] \in Evidence /\ r.evidence[i].relevance \in Nat
<1>1. PICK d \in Document : r = [report |-> d.report, publisher |-> d.publisher, text |-> d.text,
                                 evidence |-> extract_evidence_for_claim(c.text, d.text)]
  BY DEF DocumentsFor
<1>2. d.text \in Seq(Passage) /\ d.publisher \in Publisher
  BY AssessmentAssumption DEF Document
<1>3. DOMAIN d.text = 1 .. Len(d.text) /\ Len(d.text) \in Nat
  BY <1>2
<1>4. IsFiniteSet(DOMAIN d.text) /\ DOMAIN d.text \subseteq Nat \ {0}
  <2>1. IsFiniteSet(1 .. Len(d.text))
    BY <1>3, FS_Interval
  <2>2. 1 .. Len(d.text) \subseteq Nat \ {0}
    BY <1>3
  <2> QED BY <1>3, <2>1, <2>2
<1>5. Selected(d.text) \in SUBSET DOMAIN d.text
  BY DEF Selected, Relevant
<1>6. \A i \in DOMAIN d.text :
        d.text[i].relevance \in 0 .. 100 /\ Label(c.text, d.text[i]) \in Relationship
  <2>1. \A i \in DOMAIN d.text : d.text[i] \in Passage
    BY <1>2, <1>3
  <2>2. \A p \in Passage : p.relevance \in 0 .. 100 /\ p.model \in Relationship \cup {"none"}
    BY DEF Passage
  <2>3. \A p : classify_passage(c.text, p) \in Relationship
    BY DEF classify_passage, Relationship
  <2> QED BY <2>1, <2>2, <2>3 DEF Label
<1>7. /\ DOMAIN extract_evidence_for_claim(c.text, d.text) = Selected(d.text)
      /\ \A i \in Selected(d.text) :
           extract_evidence_for_claim(c.text, d.text)[i]
             = [relationship |-> Label(c.text, d.text[i]), relevance |-> d.text[i].relevance]
  BY DEF extract_evidence_for_claim
<1>8. /\ IsFiniteSet(Selected(d.text)) /\ Selected(d.text) \subseteq DOMAIN d.text
      /\ \A i \in Selected(d.text) : extract_evidence_for_claim(c.text, d.text)[i] \in Evidence
  <2>1. IsFiniteSet(Selected(d.text)) /\ Selected(d.text) \subseteq DOMAIN d.text
    BY <1>4, <1>5, FS_Subset
  <2>2. ASSUME NEW i \in Selected(d.text)
        PROVE  extract_evidence_for_claim(c.text, d.text)[i] \in Evidence
    <3>1. d.text[i].relevance \in 0 .. 100 /\ Label(c.text, d.text[i]) \in Relationship
      BY <1>6, <2>1
    <3>2. [relationship |-> Label(c.text, d.text[i]), relevance |-> d.text[i].relevance]
            \in Evidence
      BY <3>1 DEF Evidence
    <3> QED BY <1>7, <3>2
  <2> QED BY <2>1, <2>2
<1>9. \A e \in Evidence : e.relevance \in Nat
  BY DEF Evidence
<1> QED BY <1>1, <1>2, <1>4, <1>7, <1>8, <1>9

\* The signals of one side, each with its document and the place of its passage.
OnSide(docs, side, k, i) ==
  /\ k \in DOMAIN docs /\ i \in DOMAIN docs[k].evidence
  /\ docs[k].evidence[i].relationship = side

LEMMA SideIs ==
  ASSUME NEW docs, NEW side
  PROVE  LET E == Side(Signals(docs), side)
         IN  /\ \A s \in E : \E k, i : OnSide(docs, side, k, i) /\ s = SignalOf(docs, k, i)
             /\ \A k, i : OnSide(docs, side, k, i) => SignalOf(docs, k, i) \in E
<1> DEFINE P == PassagesOf(docs)
<1>1. \A p \in P : p = <<p[1], p[2]>> /\ p[1] \in DOMAIN docs /\ p[2] \in DOMAIN docs[p[1]].evidence
  BY DEF PassagesOf
<1>2. \A k \in DOMAIN docs : \A i \in DOMAIN docs[k].evidence : <<k, i>> \in P
  BY DEF PassagesOf
<1>3. \A k, i : SignalOf(docs, k, i).relationship = docs[k].evidence[i].relationship
  BY DEF SignalOf
<1> HIDE DEF P
<1>4. Signals(docs) = {SignalOf(docs, p[1], p[2]) : p \in P}
  BY DEF Signals, P
<1>5. ASSUME NEW s \in Side(Signals(docs), side)
      PROVE  \E k, i : OnSide(docs, side, k, i) /\ s = SignalOf(docs, k, i)
  <2>1. PICK p \in P : s = SignalOf(docs, p[1], p[2])
    BY <1>4 DEF Side
  <2>2. s.relationship = side
    BY DEF Side
  <2> QED BY <1>1, <1>3, <2>1, <2>2 DEF OnSide
<1>6. ASSUME NEW k, NEW i, OnSide(docs, side, k, i)
      PROVE  SignalOf(docs, k, i) \in Side(Signals(docs), side)
  <2>1. <<k, i>> \in P
    BY <1>2, <1>6 DEF OnSide
  <2>2. SignalOf(docs, k, i) \in Signals(docs)
    BY <1>4, <2>1
  <2> QED BY <1>3, <1>6, <2>2 DEF Side, OnSide
<1> QED BY <1>5, <1>6

\* The signals of documents can be weighed, and have a factor.
LEMMA SignalsAreWeighable ==
  ASSUME NEW c, NEW docs \in Seq(DocumentsFor(c))
  PROVE  /\ Weighable(Signals(docs))
         /\ \A s \in Signals(docs) :
              source_factor(s.type, s.primary) \in SOURCE_FACTOR_MIN .. SOURCE_FACTOR_MAX
<1> DEFINE P == PassagesOf(docs)
           f == [p \in P |-> SignalOf(docs, p[1], p[2])]
           rows == [k \in DOMAIN docs |-> {<<k, i>> : i \in DOMAIN docs[k].evidence}]
<1>1. \A k \in DOMAIN docs : docs[k] \in DocumentsFor(c)
  OBVIOUS
<1>2. IsFiniteSet(P)
  <2>1. IsFiniteSet(DOMAIN docs)
    <3>1. DOMAIN docs = 1 .. Len(docs) /\ Len(docs) \in Nat
      OBVIOUS
    <3> QED BY <3>1, FS_Interval
  <2>2. \A k \in DOMAIN docs : IsFiniteSet(rows[k])
    <3> SUFFICES ASSUME NEW k \in DOMAIN docs PROVE IsFiniteSet(rows[k])
      OBVIOUS
    <3> DEFINE h == [i \in DOMAIN docs[k].evidence |-> <<k, i>>]
    <3>1. IsFiniteSet(DOMAIN docs[k].evidence)
      BY <1>1, DocumentIs
    <3>2. h \in Surjection(DOMAIN docs[k].evidence, rows[k])
      BY DEF Surjection
    <3> HIDE DEF h, rows
    <3> QED BY <3>1, <3>2, FS_Surjection
  <2> DEFINE All == {rows[k] : k \in DOMAIN docs}
             g == [k \in DOMAIN docs |-> rows[k]]
  <2>3. IsFiniteSet(All)
    <3>1. g \in Surjection(DOMAIN docs, All)
      <4> HIDE DEF rows
      <4> QED BY DEF Surjection
    <3> HIDE DEF g, All
    <3> QED BY <2>1, <3>1, FS_Surjection
  <2>4. P = UNION All
    BY DEF PassagesOf
  <2>5. \A T \in All : IsFiniteSet(T)
    BY <2>2
  <2> HIDE DEF P, All
  <2> QED BY <2>3, <2>4, <2>5, FS_UNION
<1>3. IsFiniteSet(Signals(docs))
  <2>1. f \in Surjection(P, Signals(docs))
    BY DEF Surjection, Signals
  <2> HIDE DEF f, P
  <2> QED BY <1>2, <2>1, FS_Surjection
<1>4. ASSUME NEW s \in Signals(docs)
      PROVE  /\ Weight(s) \in Nat
             /\ source_factor(s.type, s.primary) \in SOURCE_FACTOR_MIN .. SOURCE_FACTOR_MAX
  <2>1. PICK p \in P : s = SignalOf(docs, p[1], p[2])
    BY DEF Signals
  <2>2. p[1] \in DOMAIN docs /\ p[2] \in DOMAIN docs[p[1]].evidence
    BY DEF PassagesOf
  <2>3. docs[p[1]].publisher \in Publisher /\ docs[p[1]].evidence[p[2]].relevance \in Nat
    BY <1>1, <2>2, DocumentIs
  <2>4. s.relevance \in Nat /\ s.type \in SourceType /\ s.primary \in BOOLEAN
    BY <2>1, <2>3 DEF SignalOf, Publisher
  <2> HIDE DEF f, P, rows
  <2>5. source_factor(s.type, s.primary) \in SOURCE_FACTOR_MIN .. SOURCE_FACTOR_MAX
    BY <2>4, FactorIs
  <2>6. source_factor(s.type, s.primary) \in Nat
    <3>1. SOURCE_FACTOR_MIN .. SOURCE_FACTOR_MAX \subseteq Nat
      BY DEF SOURCE_FACTOR_MIN, SOURCE_FACTOR_MAX
    <3> QED BY <2>5, <3>1
  <2> QED BY <2>4, <2>5, <2>6 DEF Weight
<1> QED BY <1>3, <1>4 DEF Weighable

LEMMA SidesAreWeighable ==
  ASSUME NEW c, NEW docs \in Seq(DocumentsFor(c)), NEW side
  PROVE  Weighable(Side(Signals(docs), side))
<1>1. Weighable(Signals(docs))
  BY SignalsAreWeighable
<1>2. Side(Signals(docs), side) \subseteq Signals(docs)
  BY DEF Side
<1> QED BY <1>1, <1>2, FS_Subset DEF Weighable

\* What the scorer makes of documents.
LEMMA ScoreOf ==
  ASSUME NEW c, NEW docs \in Seq(DocumentsFor(c))
  PROVE  LET pro == Side(Signals(docs), "SUPPORTS")
             con == Side(Signals(docs), "CONTRADICTS")
             s == Score(docs)
         IN  /\ Weighable(pro) /\ Weighable(con)
             /\ s.support = SideWeight(pro) /\ s.support \in Nat
             /\ s.contradiction = SideWeight(con) /\ s.contradiction \in Nat
             /\ s.origins = Cardinality(Origins(pro)) + Cardinality(Origins(con))
             /\ s.origins \in Nat
             /\ s.verdict = Decide(s.support, s.contradiction, s.origins, Plain)
<1> DEFINE pro == Side(Signals(docs), "SUPPORTS")
           con == Side(Signals(docs), "CONTRADICTS")
           s == Score(docs)
<1>1. Weighable(pro) /\ Weighable(con)
  BY SidesAreWeighable
<1>2. /\ SideWeight(pro) \in Nat /\ Cardinality(Origins(pro)) \in Nat
      /\ SideWeight(con) \in Nat /\ Cardinality(Origins(con)) \in Nat
  <2> HIDE DEF pro, con, s
  <2> QED BY <1>1, SideIsWeighed
<1>3. /\ s.support = SideWeight(pro) /\ s.contradiction = SideWeight(con)
      /\ s.origins = Cardinality(Origins(pro)) + Cardinality(Origins(con))
      /\ s.verdict = Decide(SideWeight(pro), SideWeight(con),
                            Cardinality(Origins(pro)) + Cardinality(Origins(con)), Plain)
  BY DEF Score, score_claim
<1> HIDE DEF pro, con, s
<1>4. s.origins \in Nat
  BY <1>2, <1>3
<1>5. s.verdict = Decide(s.support, s.contradiction, s.origins, Plain)
  BY <1>3
<1> QED BY <1>1, <1>2, <1>3, <1>4, <1>5 DEF pro, con, s

-----------------------------------------------------------------------------
(* Verdicts *)

\* Whatever was read for the claim: had every passage said the opposite, a
\* verified claim would be refuted (scoring.py:104-109).
THEOREM RefutingAsEasy == Spec => []RefutingIsNoHarder
<1>1. AssessInv => RefutingIsNoHarder
  BY ScoreOf, VerifiedMirrorsFalse DEF RefutingIsNoHarder, AssessInv
<1> QED BY <1>1, AssessInvariant, PTL

\* No support is lost on a claim that nothing contradicts.
LEMMA UncontradictedIsNotRefuted ==
  ASSUME NEW S \in Nat, NEW O \in Nat
  PROVE  Rank(Decide(S, 0, O, Plain)) >= Rank("UNVERIFIED")
<1>1. S + 0 >= MIN_EVIDENCE_WEIGHT => NetAtLeast(S, 0, 50) /\ NetAtLeast(S, 0, 60)
  BY DEF NetAtLeast, MIN_EVIDENCE_WEIGHT, Percent
<1>2. Plain.opinion = FALSE /\ Plain.satirical = FALSE /\ ~(Plain.penalty > 0)
  BY DEF Plain
<1>3. S + 0 < MIN_EVIDENCE_WEIGHT \/ S + 0 >= MIN_EVIDENCE_WEIGHT
  BY DEF MIN_EVIDENCE_WEIGHT, Percent
<1>4. Decide(S, 0, O, Plain) \in {"UNVERIFIED", "VERIFIED", "LIKELY_TRUE"}
  BY <1>1, <1>2, <1>3 DEF Decide
<1> QED BY <1>4, Ranked

\* Documents that only repeat a claim, however many, of whatever length and with
\* whatever other figures, leave nothing against it and never refute it
\* (evidence.py:227-237), unless a language model speaks against it.
THEOREM RestatingIsSafe == Spec => []RestatingNeverRefutes
<1>1. AssessInv /\ RepetitionIsNoRefutation => RestatingNeverRefutes
  <2> SUFFICES ASSUME AssessInv, RepetitionIsNoRefutation,
                      \A k \in DOMAIN read : \A i \in DOMAIN read[k].text :
                        Restates(read[k].text[i]) /\ read[k].text[i].model # "CONTRADICTS"
               PROVE  score.contradiction = 0 /\ Rank(score.verdict) >= Rank("UNVERIFIED")
    BY DEF RestatingNeverRefutes
  <2> DEFINE con == Side(Signals(read), "CONTRADICTS")
  <2>1. con = {}
    <3> SUFFICES ASSUME NEW s \in con PROVE FALSE
      OBVIOUS
    <3>1. PICK k, i : OnSide(read, "CONTRADICTS", k, i)
      BY SideIs
    <3>2. read[k] \in DocumentsFor(claim)
      BY <3>1 DEF AssessInv, OnSide
    <3>3. i \in DOMAIN read[k].text
      BY <3>1, <3>2, DocumentIs DEF OnSide
    <3> QED BY <3>1, <3>3 DEF RepetitionIsNoRefutation, OnSide
  <2>2. Weighable(con) /\ score.contradiction = SideWeight(con)
    BY ScoreOf DEF AssessInv
  <2>3. score.contradiction = 0
    <3> HIDE DEF con
    <3> QED BY <2>1, <2>2, SideIsWeighed
  <2>4. /\ score.support \in Nat /\ score.origins \in Nat
        /\ score.verdict = Decide(score.support, 0, score.origins, Plain)
    BY <2>3, ScoreOf DEF AssessInv
  <2> QED BY <2>3, <2>4, UncontradictedIsNotRefuted
<1> QED BY <1>1, AssessInvariant, RepetitionCountsFor, PTL

-----------------------------------------------------------------------------
(* One document more *)

\* The documents that are copies of the one that is added, the n-th.
TwinsOf(docs, r) == {k \in DOMAIN docs : docs[k].report = r.report}

LEMMA Appended ==
  ASSUME NEW T, NEW docs \in Seq(T), NEW r \in T
  PROVE  LET n == Len(docs) + 1
             new == Append(docs, r)
         IN  /\ n \notin DOMAIN docs /\ DOMAIN new = DOMAIN docs \cup {n}
             /\ new[n] = r /\ \A k \in DOMAIN docs : new[k] = docs[k]
<1> DEFINE n == Len(docs) + 1
           new == Append(docs, r)
<1>1. DOMAIN docs = 1 .. Len(docs) /\ Len(docs) \in Nat
  OBVIOUS
<1>2. new \in Seq(T) /\ Len(new) = n /\ new[n] = r /\ \A k \in 1 .. Len(docs) : new[k] = docs[k]
  OBVIOUS
<1>3. DOMAIN new = 1 .. n
  BY <1>2
<1>4. 1 .. n = 1 .. Len(docs) \cup {n} /\ n \notin 1 .. Len(docs)
  BY <1>1
<1> QED BY <1>1, <1>2, <1>3, <1>4

\* A cluster is never of one document only; documents without a twin keep theirs.
LEMMA OriginMoves ==
  ASSUME NEW T, NEW docs \in Seq(T), NEW r \in T, NEW i,
         NEW k \in DOMAIN docs \cup {Len(docs) + 1}
  PROVE  LET n == Len(docs) + 1
             new == Append(docs, r)
         IN  /\ k \in TwinsOf(docs, r) \/ (k = n /\ TwinsOf(docs, r) # {})
                  => Origin(new, k, i) = <<r.report, 0>>
             /\ k \in DOMAIN docs \ TwinsOf(docs, r) => Origin(new, k, i) = Origin(docs, k, i)
             /\ k = n /\ TwinsOf(docs, r) = {} => Origin(new, k, i) = <<n, i>>
<1> DEFINE n == Len(docs) + 1
           new == Append(docs, r)
           twins == TwinsOf(docs, r)
<1>1. /\ n \notin DOMAIN docs /\ DOMAIN new = DOMAIN docs \cup {n}
      /\ new[n] = r /\ \A m \in DOMAIN docs : new[m] = docs[m]
  BY Appended
<1>2. IsFiniteSet(Copies(new, k))
  <2>1. DOMAIN docs = 1 .. Len(docs) /\ Len(docs) \in Nat
    OBVIOUS
  <2>2. IsFiniteSet(DOMAIN docs)
    BY <2>1, FS_Interval
  <2>3. IsFiniteSet(DOMAIN new)
    BY <1>1, <2>2, FS_AddElement
  <2> QED BY <2>3, FS_Subset DEF Copies
<1> HIDE DEF n, new
<1>3. ASSUME k \in twins \/ (k = n /\ twins # {}) PROVE Origin(new, k, i) = <<r.report, 0>>
  <2>1. PICK t \in twins : k \in twins => t = k
    BY <1>3
  <2>2. /\ new[k].report = r.report /\ new[t].report = r.report
        /\ t \in Copies(new, k) /\ n \in Copies(new, k) /\ t # n
    BY <1>1, <1>3, <2>1 DEF TwinsOf, Copies
  <2>3. ~\E x : Copies(new, k) = {x}
    BY <2>2
  <2>4. Cardinality(Copies(new, k)) # 1
    BY <1>2, <2>3, FS_Singleton
  <2> QED BY <2>2, <2>4 DEF Origin
<1>4. ASSUME k \in DOMAIN docs \ twins PROVE Origin(new, k, i) = Origin(docs, k, i)
  <2>1. docs[k].report # r.report /\ new[k] = docs[k]
    BY <1>1, <1>4 DEF TwinsOf
  <2>2. Copies(new, k) = Copies(docs, k)
    BY <1>1, <1>4, <2>1 DEF Copies
  <2> QED BY <2>1, <2>2 DEF Origin
<1>5. ASSUME k = n, twins = {} PROVE Origin(new, k, i) = <<n, i>>
  <2>1. Copies(new, k) = {n}
    BY <1>1, <1>5 DEF Copies, TwinsOf
  <2>2. Cardinality(Copies(new, k)) = 1
    BY <2>1, FS_Singleton
  <2> QED BY <1>5, <2>2 DEF Origin
<1> QED BY <1>3, <1>4, <1>5 DEF n, new

\* Documents of different reports have no origin in common.
LEMMA OriginsApart ==
  ASSUME NEW docs, NEW k, NEW m, NEW i, NEW j, i # 0, j # 0,
         docs[k].report # docs[m].report
  PROVE  Origin(docs, k, i) # Origin(docs, m, j)
<1>1. k # m
  OBVIOUS
<1>2. Origin(docs, k, i) \in {<<k, i>>, <<docs[k].report, 0>>}
      /\ Origin(docs, m, j) \in {<<m, j>>, <<docs[m].report, 0>>}
  BY DEF Origin
<1> QED BY <1>1, <1>2

LEMMA OriginsOnSide ==
  ASSUME NEW docs, NEW side
  PROVE  LET O == Origins(Side(Signals(docs), side))
         IN  /\ \A o \in O : \E k, i : OnSide(docs, side, k, i) /\ o = Origin(docs, k, i)
             /\ \A k, i : OnSide(docs, side, k, i) => Origin(docs, k, i) \in O
<1> DEFINE E == Side(Signals(docs), side)
<1>1. \A k, i : SignalOf(docs, k, i).origin = Origin(docs, k, i)
  BY DEF SignalOf
<1>2. /\ \A s \in E : \E k, i : OnSide(docs, side, k, i) /\ s = SignalOf(docs, k, i)
      /\ \A k, i : OnSide(docs, side, k, i) => SignalOf(docs, k, i) \in E
  BY SideIs
<1> HIDE DEF E
<1>3. Origins(E) = {s.origin : s \in E}
  BY DEF Origins
<1> QED BY <1>1, <1>2, <1>3 DEF E

\* The labels of a side are those of the documents.
LEMMA OnSideOf ==
  ASSUME NEW docs, NEW side, NEW k, NEW i, OnSide(docs, side, k, i)
  PROVE  side \in Sides(docs[k])
BY DEF OnSide, Sides

\* A copy moves the origins of its twins into one, and has none beside it on a
\* side where one of them is.
LEMMA CopiesMerge ==
  ASSUME NEW c, NEW docs \in Seq(DocumentsFor(c)), NEW r \in DocumentsFor(c), NEW side,
         side \in Sides(r) => \E t \in TwinsOf(docs, r) : side \in Sides(docs[t])
  PROVE  Cardinality(Origins(Side(Signals(Append(docs, r)), side)))
           <= Cardinality(Origins(Side(Signals(docs), side)))
<1> DEFINE n == Len(docs) + 1
           new == Append(docs, r)
           twins == TwinsOf(docs, r)
           O == Origins(Side(Signals(docs), side))
           P == Origins(Side(Signals(new), side))
           Moved(o) == \E k \in twins : \E i : OnSide(docs, side, k, i) /\ o = Origin(docs, k, i)
           f == [o \in O |-> IF Moved(o) THEN <<r.report, 0>> ELSE o]
<1>1. /\ n \notin DOMAIN docs /\ DOMAIN new = DOMAIN docs \cup {n}
      /\ new[n] = r /\ \A k \in DOMAIN docs : new[k] = docs[k]
  BY Appended
<1>2. \A k \in DOMAIN docs : \A i : OnSide(new, side, k, i) <=> OnSide(docs, side, k, i)
  BY <1>1 DEF OnSide
<1>3. \A k, i : OnSide(docs, side, k, i) => i # 0
  BY DocumentIs DEF OnSide
<1>4. \A k \in twins : \A i : Origin(new, k, i) = <<r.report, 0>>
  BY OriginMoves DEF TwinsOf
<1>5. \A k \in DOMAIN docs \ twins : \A i : Origin(new, k, i) = Origin(docs, k, i)
  BY OriginMoves
<1>6. twins # {} => \A i : Origin(new, n, i) = <<r.report, 0>>
  BY OriginMoves
<1>7. ASSUME NEW k, NEW i, OnSide(docs, side, k, i)
      PROVE  Moved(Origin(docs, k, i)) <=> k \in twins
  <2>1. k \in twins => Moved(Origin(docs, k, i))
    BY <1>7
  <2>2. ASSUME k \notin twins, NEW m \in twins, NEW j, OnSide(docs, side, m, j)
        PROVE  Origin(docs, k, i) # Origin(docs, m, j)
    <3>1. docs[k].report # docs[m].report
      BY <1>7, <2>2 DEF TwinsOf, OnSide
    <3> QED BY <1>3, <1>7, <2>2, <3>1, OriginsApart
  <2> QED BY <2>1, <2>2
<1>8. /\ \A o \in O : \E k, i : OnSide(docs, side, k, i) /\ o = Origin(docs, k, i)
      /\ \A k, i : OnSide(docs, side, k, i) => Origin(docs, k, i) \in O
  BY OriginsOnSide
<1>9. /\ \A o \in P : \E k, i : OnSide(new, side, k, i) /\ o = Origin(new, k, i)
      /\ \A k, i : OnSide(new, side, k, i) => Origin(new, k, i) \in P
  BY OriginsOnSide
<1>10. \A k \in DOMAIN docs : k \in twins \/ k \in DOMAIN docs \ twins
  OBVIOUS
<1>11. \A k, i : OnSide(docs, side, k, i) => k \in DOMAIN docs
  BY DEF OnSide
<1>12. \A k, i : OnSide(new, side, k, i) => k \in DOMAIN docs \/ k = n
  BY <1>1 DEF OnSide
<1>13. ASSUME NEW i, OnSide(new, side, n, i)
       PROVE  \E t, j : t \in twins /\ OnSide(docs, side, t, j)
  <2>1. side \in Sides(r)
    BY <1>1, <1>13, OnSideOf
  <2>2. PICK t \in twins : side \in Sides(docs[t])
    BY <2>1
  <2>3. PICK j \in DOMAIN docs[t].evidence : docs[t].evidence[j].relationship = side
    BY <2>2 DEF Sides
  <2> QED BY <2>3 DEF OnSide, TwinsOf
<1> HIDE DEF n, new, twins, O, P, Moved
<1>14. ASSUME NEW k, NEW i, OnSide(docs, side, k, i)
       PROVE  f[Origin(docs, k, i)] = Origin(new, k, i)
  BY <1>4, <1>5, <1>7, <1>8, <1>10, <1>11, <1>14
<1>15. \A o \in O : f[o] \in P
  <2> HIDE DEF f
  <2> QED BY <1>2, <1>8, <1>9, <1>11, <1>14
<1>16. \A p \in P : \E o \in O : f[o] = p
  <2> SUFFICES ASSUME NEW p \in P PROVE \E o \in O : f[o] = p
    OBVIOUS
  <2>1. PICK k, i : OnSide(new, side, k, i) /\ p = Origin(new, k, i)
    BY <1>9
  <2> HIDE DEF f
  <2>2. CASE k \in DOMAIN docs
    <3>1. OnSide(docs, side, k, i)
      BY <1>2, <2>1, <2>2
    <3> QED BY <1>8, <1>14, <2>1, <3>1
  <2>3. CASE k = n
    <3>1. PICK t, j : t \in twins /\ OnSide(docs, side, t, j)
      BY <1>13, <2>1, <2>3
    <3>2. Origin(new, t, j) = p
      BY <1>4, <1>6, <2>1, <2>3, <3>1
    <3> QED BY <1>8, <1>14, <3>1, <3>2
  <2> QED BY <1>12, <2>1, <2>2, <2>3
<1>17. f \in Surjection(O, P)
  BY <1>15, <1>16 DEF Surjection
<1>18. IsFiniteSet(O)
  <2>1. IsFiniteSet(Side(Signals(docs), side))
    BY SidesAreWeighable DEF Weighable
  <2> QED BY <2>1, OriginsAreFinite DEF O
<1>19. Cardinality(P) <= Cardinality(O)
  <2> HIDE DEF f
  <2> QED BY <1>17, <1>18, FS_Surjection
<1> QED BY <1>19 DEF O, P, new

\* A step after which more is read has read one document.
LEMMA OneIsRead ==
  ASSUME AssessInv, AssessInv', [Next]_vars, Grows(read, read')
  PROVE  /\ Newest \in DocumentsFor(claim) /\ read' = Append(read, Newest)
         /\ read \in Seq(DocumentsFor(claim)) /\ read' \in Seq(DocumentsFor(claim))
         /\ Twins = TwinsOf(read, Newest)
         /\ score = Score(read) /\ score' = Score(read')
<1>1. read \in Seq(DocumentsFor(claim)) /\ score = Score(read)
  BY DEF AssessInv
<1>2. ~ScoreClaim
  <2> SUFFICES ASSUME ScoreClaim PROVE FALSE
    OBVIOUS
  <2>1. Len(read') = 0 /\ Len(read) \in Nat
    BY <1>1 DEF ScoreClaim
  <2> QED BY <2>1 DEF Grows
<1>3. ~UNCHANGED vars
  <2> SUFFICES ASSUME read' = read PROVE FALSE
    BY DEF vars
  <2>1. Len(read) \in Nat
    BY <1>1
  <2> QED BY <2>1 DEF Grows
<1>4. PICK d \in Document : ReadDocument(d)
  BY <1>2, <1>3 DEF Next
<1> DEFINE r == [report |-> d.report, publisher |-> d.publisher, text |-> d.text,
                 evidence |-> extract_evidence_for_claim(claim.text, d.text)]
<1>5. r \in DocumentsFor(claim)
  BY DEF DocumentsFor
<1>6. read' = Append(read, r) /\ score' = Score(read')
  BY <1>4 DEF ReadDocument
<1> HIDE DEF r
<1>7. read' \in Seq(DocumentsFor(claim)) /\ Len(read') = Len(read) + 1 /\ read'[Len(read) + 1] = r
  BY <1>1, <1>5, <1>6
<1>8. Newest = r
  BY <1>7 DEF Newest
<1> QED BY <1>1, <1>5, <1>6, <1>7, <1>8 DEF Twins, TwinsOf

\* However many reprints of one report are read: they add nothing to the number of
\* origins on a side the report is on (scoring.py:71-74).
THEOREM CopiesAreOne == Spec => CopiesAddNoOrigin
<1>1. ASSUME AssessInv, AssessInv', [Next]_vars, Grows(read, read'),
             Sides(Newest) \subseteq UNION {Sides(read[k]) : k \in Twins}
      PROVE  score'.origins <= score.origins
  <2> DEFINE r == Newest
             count(docs, side) == Cardinality(Origins(Side(Signals(docs), side)))
  <2>1. /\ r \in DocumentsFor(claim) /\ read' = Append(read, r)
        /\ read \in Seq(DocumentsFor(claim)) /\ read' \in Seq(DocumentsFor(claim))
        /\ Twins = TwinsOf(read, r)
        /\ score = Score(read) /\ score' = Score(read')
    BY <1>1, OneIsRead
  <2>2. \A side : side \in Sides(r) => \E t \in TwinsOf(read, r) : side \in Sides(read[t])
    BY <1>1, <2>1
  <2> HIDE DEF r
  <2>3. /\ count(Append(read, r), "SUPPORTS") <= count(read, "SUPPORTS")
        /\ count(Append(read, r), "CONTRADICTS") <= count(read, "CONTRADICTS")
    BY <2>1, <2>2, CopiesMerge
  <2>4. /\ score.origins = count(read, "SUPPORTS") + count(read, "CONTRADICTS")
        /\ score'.origins = count(read', "SUPPORTS") + count(read', "CONTRADICTS")
    BY <2>1, ScoreOf
  <2>5. \A side : count(read, side) \in Nat /\ count(read', side) \in Nat
    BY <2>1, SidesAreWeighable, SideIsWeighed
  <2> HIDE DEF count
  <2> QED BY <2>1, <2>3, <2>4, <2>5
<1>2. AssessInv /\ AssessInv' /\ [Next]_vars =>
        [Grows(read, read') /\ Sides(Newest) \subseteq UNION {Sides(read[k]) : k \in Twins}
           => score'.origins <= score.origins]_vars
  BY <1>1
<1> QED BY <1>2, AssessInvariant, PTL DEF Spec, CopiesAddNoOrigin

\* A report without a copy among those read leaves their signals as they are, and
\* brings origins of its own.
LEMMA ReportComesAlone ==
  ASSUME NEW c, NEW docs \in Seq(DocumentsFor(c)), NEW r \in DocumentsFor(c), NEW side,
         TwinsOf(docs, r) = {}
  PROVE  LET E == Side(Signals(docs), side)
             F == Side(Signals(Append(docs, r)), side)
         IN  /\ E \subseteq F /\ \A s \in F \ E : s.origin \notin Origins(E)
             /\ side \notin Sides(r) => F = E
<1> DEFINE n == Len(docs) + 1
           new == Append(docs, r)
           E == Side(Signals(docs), side)
           F == Side(Signals(new), side)
<1>1. /\ n \notin DOMAIN docs /\ DOMAIN new = DOMAIN docs \cup {n}
      /\ new[n] = r /\ \A k \in DOMAIN docs : new[k] = docs[k]
  BY Appended
<1>2. \A k \in DOMAIN docs : \A i : OnSide(new, side, k, i) <=> OnSide(docs, side, k, i)
  BY <1>1 DEF OnSide
<1>3. \A k \in DOMAIN docs : \A i : Origin(new, k, i) = Origin(docs, k, i)
  BY OriginMoves
<1>4. \A i : Origin(new, n, i) = <<n, i>>
  BY OriginMoves
<1>5. \A k \in DOMAIN docs : \A i : SignalOf(new, k, i) = SignalOf(docs, k, i)
  BY <1>1, <1>3 DEF SignalOf
<1>6. \A k, i : OnSide(new, side, k, i) => k \in DOMAIN docs \/ k = n
  BY <1>1 DEF OnSide
<1>7. \A i : OnSide(new, side, n, i) => i # 0 /\ side \in Sides(r)
  BY <1>1, DocumentIs DEF OnSide, Sides
<1>8. /\ \A s \in E : \E k, i : OnSide(docs, side, k, i) /\ s = SignalOf(docs, k, i)
      /\ \A k, i : OnSide(docs, side, k, i) => SignalOf(docs, k, i) \in E
  BY SideIs
<1>9. /\ \A s \in F : \E k, i : OnSide(new, side, k, i) /\ s = SignalOf(new, k, i)
      /\ \A k, i : OnSide(new, side, k, i) => SignalOf(new, k, i) \in F
  BY SideIs
<1>10. \A k, i : OnSide(docs, side, k, i) => k \in DOMAIN docs
  BY DEF OnSide
<1>11. \A o \in Origins(E) : \E k, i : OnSide(docs, side, k, i) /\ o = Origin(docs, k, i)
  BY OriginsOnSide
<1>12. \A k, i : SignalOf(new, k, i).origin = Origin(new, k, i)
  BY DEF SignalOf
<1> HIDE DEF n, new, E, F
<1>13. E \subseteq F
  BY <1>2, <1>5, <1>8, <1>9, <1>10
<1>14. ASSUME NEW s \in F \ E PROVE \E i : OnSide(new, side, n, i) /\ s = SignalOf(new, n, i)
  <2>1. PICK k, i : OnSide(new, side, k, i) /\ s = SignalOf(new, k, i)
    BY <1>9
  <2>2. k \notin DOMAIN docs
    BY <1>2, <1>5, <1>8, <2>1
  <2> QED BY <1>6, <2>1, <2>2
<1>15. ASSUME NEW s \in F \ E PROVE s.origin \notin Origins(E)
  <2>1. PICK i : OnSide(new, side, n, i) /\ s = SignalOf(new, n, i)
    BY <1>14
  <2>2. s.origin = <<n, i>> /\ i # 0
    BY <1>4, <1>7, <1>12, <2>1
  <2>3. ASSUME NEW k, NEW j, OnSide(docs, side, k, j), s.origin = Origin(docs, k, j)
        PROVE  FALSE
    <3>1. Origin(docs, k, j) \in {<<k, j>>, <<docs[k].report, 0>>}
      BY DEF Origin
    <3> QED BY <1>1, <1>10, <2>2, <2>3, <3>1
  <2> QED BY <1>11, <2>3
<1>16. side \notin Sides(r) => F = E
  BY <1>7, <1>13, <1>14
<1> QED BY <1>13, <1>15, <1>16 DEF E, F, new

\* However many documents were read before: a further report that only supports
\* the claim leaves its verdict or lifts it (scoring.py:395-451).
THEOREM SupportIsSafe == Spec => SupportNeverHurts
<1>1. ASSUME AssessInv, AssessInv', [Next]_vars,
             Grows(read, read'), Twins = {}, Sides(Newest) = {"SUPPORTS"},
             score.support + score.contradiction >= MIN_EVIDENCE_WEIGHT, score.origins >= 2
      PROVE  Rank(score'.verdict) >= Rank(score.verdict)
  <2> DEFINE r == Newest
             side(docs, x) == Side(Signals(docs), x)
             pro == side(read, "SUPPORTS")
             con == side(read, "CONTRADICTS")
             pros == side(read', "SUPPORTS")
             cons == side(read', "CONTRADICTS")
  <2>1. /\ r \in DocumentsFor(claim) /\ read' = Append(read, r)
        /\ read \in Seq(DocumentsFor(claim)) /\ read' \in Seq(DocumentsFor(claim))
        /\ Twins = TwinsOf(read, r)
        /\ score = Score(read) /\ score' = Score(read')
    BY <1>1, OneIsRead
  <2>2. Sides(r) = {"SUPPORTS"} /\ TwinsOf(read, r) = {}
    BY <1>1, <2>1
  <2> HIDE DEF r
  <2>3. pro \subseteq pros /\ \A s \in pros \ pro : s.origin \notin Origins(pro)
    BY <2>1, <2>2, ReportComesAlone
  <2>4. cons = con
    BY <2>1, <2>2, ReportComesAlone
  <2>5. /\ Weighable(pro) /\ score.support = SideWeight(pro) /\ score.support \in Nat
        /\ score.contradiction = SideWeight(con) /\ score.contradiction \in Nat
        /\ score.origins = Cardinality(Origins(pro)) + Cardinality(Origins(con))
        /\ score.origins \in Nat /\ Weighable(con)
        /\ score.verdict = Decide(score.support, score.contradiction, score.origins, Plain)
    BY <2>1, ScoreOf
  <2>6. /\ Weighable(pros) /\ score'.support = SideWeight(pros) /\ score'.support \in Nat
        /\ score'.contradiction = SideWeight(cons) /\ score'.contradiction \in Nat
        /\ score'.origins = Cardinality(Origins(pros)) + Cardinality(Origins(cons))
        /\ score'.origins \in Nat
        /\ score'.verdict = Decide(score'.support, score'.contradiction, score'.origins, Plain)
    BY <2>1, ScoreOf
  <2> HIDE DEF pro, con, pros, cons
  <2>7. /\ SideWeight(pro) <= SideWeight(pros)
        /\ Cardinality(Origins(pro)) <= Cardinality(Origins(pros))
    BY <2>3, <2>5, <2>6, SideGrows
  <2>8. /\ Cardinality(Origins(pro)) \in Nat /\ Cardinality(Origins(pros)) \in Nat
        /\ Cardinality(Origins(con)) \in Nat
    BY <2>5, <2>6, SideIsWeighed
  <2>9. score'.support >= score.support
    BY <2>5, <2>6, <2>7
  <2>10. score'.origins >= score.origins
    BY <2>4, <2>5, <2>6, <2>7, <2>8
  <2>11. score'.contradiction = score.contradiction
    BY <2>4, <2>5, <2>6
  <2> QED BY <1>1, <2>5, <2>6, <2>9, <2>10, <2>11, SupportLifts
<1>2. AssessInv /\ AssessInv' /\ [Next]_vars =>
        [( /\ Grows(read, read') /\ Twins = {} /\ Sides(Newest) = {"SUPPORTS"}
           /\ score.support + score.contradiction >= MIN_EVIDENCE_WEIGHT
           /\ score.origins >= 2 )
         => Rank(score'.verdict) >= Rank(score.verdict)]_vars
  BY <1>1
<1> QED BY <1>2, AssessInvariant, PTL DEF Spec, SupportNeverHurts

-----------------------------------------------------------------------------
(* The submission as a whole *)

Importance(claims, k) == Greater(1, claims[k].importance)

\* The confidence of the whole is a quotient of two sums over the claims considered.
ConfidenceSums(f, g, claims, K) ==
  /\ Adds(f, [k \in K |-> claims[k].confidence * Importance(claims, k)], K)
  /\ Adds(g, [k \in K |-> Importance(claims, k)], K)
  /\ OverallConfidence(claims, K) = f[K] \div g[K]

LEMMA ConfidenceAdds ==
  ASSUME NEW claims, NEW K, IsFiniteSet(K)
  PROVE  \E f, g : ConfidenceSums(f, g, claims, K)
<1> DEFINE v == [k \in K |-> claims[k].confidence * Importance(claims, k)]
           w == [k \in K |-> Importance(claims, k)]
           Over(f) == f = [s \in SUBSET K |->
                             IF s = {} THEN 0
                             ELSE claims[CHOOSE k \in s : TRUE].confidence
                                    * Greater(1, claims[CHOOSE k \in s : TRUE].importance)
                                  + f[s \ {CHOOSE k \in s : TRUE}]]
           Under(g) == g = [s \in SUBSET K |->
                              IF s = {} THEN 0
                              ELSE Greater(1, claims[CHOOSE k \in s : TRUE].importance)
                                   + g[s \ {CHOOSE k \in s : TRUE}]]
           f0 == CHOOSE f : Over(f)
           g0 == CHOOSE g : Under(g)
<1>1. OverallConfidence(claims, K) = f0[K] \div g0[K]
  BY DEF OverallConfidence, MapThenSumSet, MapThenFoldSet
<1>2. \A s \in SUBSET K : s # {} => Any(s) \in K
  BY AnyIs
<1>3. ASSUME NEW f PROVE Adds(f, v, K) <=> Over(f)
  <2>1. [s \in SUBSET K |-> IF s = {} THEN 0 ELSE v[Any(s)] + f[s \ {Any(s)}]]
         = [s \in SUBSET K |-> IF s = {} THEN 0
              ELSE claims[CHOOSE k \in s : TRUE].confidence
                     * Greater(1, claims[CHOOSE k \in s : TRUE].importance)
                   + f[s \ {CHOOSE k \in s : TRUE}]]
    BY <1>2 DEF Any, Importance
  <2> QED BY <2>1 DEF Adds
<1>4. ASSUME NEW g PROVE Adds(g, w, K) <=> Under(g)
  <2>1. [s \in SUBSET K |-> IF s = {} THEN 0 ELSE w[Any(s)] + g[s \ {Any(s)}]]
         = [s \in SUBSET K |-> IF s = {} THEN 0
              ELSE Greater(1, claims[CHOOSE k \in s : TRUE].importance)
                   + g[s \ {CHOOSE k \in s : TRUE}]]
    BY <1>2 DEF Any, Importance
  <2> QED BY <2>1 DEF Adds
<1>5. Over(f0)
  <2>1. PICK f : Adds(f, v, K)
    <3> HIDE DEF v
    <3> QED BY SumsExist
  <2>2. Over(f)
    BY <1>3, <2>1
  <2> HIDE DEF Over
  <2> QED BY <2>2
<1>6. Under(g0)
  <2>1. PICK g : Adds(g, w, K)
    <3> HIDE DEF w
    <3> QED BY SumsExist
  <2>2. Under(g)
    BY <1>4, <2>1
  <2> HIDE DEF Under
  <2> QED BY <2>2
<1>7. Adds(f0, v, K) /\ Adds(g0, w, K)
  BY <1>3, <1>4, <1>5, <1>6
<1> HIDE DEF f0, g0
<1> QED BY <1>1, <1>7 DEF ConfidenceSums

\* The result of the whole depends on the claims considered only.
LEMMA ConsideredDecide ==
  ASSUME NEW c, NEW d, NEW K, IsFiniteSet(K), \A k \in K : d[k] = c[k]
  PROVE  /\ DecideOverall(d, K) = DecideOverall(c, K)
         /\ OverallConfidence(d, K) = OverallConfidence(c, K)
<1>1. VerdictsOf(d, K) = VerdictsOf(c, K)
  BY DEF VerdictsOf
<1>2. {k \in K : d[k].verdict = "UNVERIFIED"} = {k \in K : c[k].verdict = "UNVERIFIED"}
  OBVIOUS
<1>3. DecideOverall(d, K) = DecideOverall(c, K)
  <2>1. Cardinality({k \in K : d[k].verdict = "UNVERIFIED"})
          = Cardinality({k \in K : c[k].verdict = "UNVERIFIED"})
    BY <1>2
  <2> QED BY <1>1, <2>1, SMT DEF DecideOverall
<1>4. PICK f, g : ConfidenceSums(f, g, c, K)
  BY ConfidenceAdds
<1>5. PICK h, e : ConfidenceSums(h, e, d, K)
  BY ConfidenceAdds
<1>6. h[K] = f[K]
  <2> DEFINE v == [k \in K |-> c[k].confidence * Importance(c, k)]
             w == [k \in K |-> d[k].confidence * Importance(d, k)]
  <2>1. Adds(f, v, K) /\ Adds(h, w, K)
    BY <1>4, <1>5 DEF ConfidenceSums
  <2>2. \A k \in K : w[k] = v[k]
    BY DEF Importance
  <2> HIDE DEF v, w
  <2> QED BY <2>1, <2>2, SumsAgree
<1>7. e[K] = g[K]
  <2> DEFINE v == [k \in K |-> Importance(c, k)]
             w == [k \in K |-> Importance(d, k)]
  <2>1. Adds(g, v, K) /\ Adds(e, w, K)
    BY <1>4, <1>5 DEF ConfidenceSums
  <2>2. \A k \in K : w[k] = v[k]
    BY DEF Importance
  <2> HIDE DEF v, w
  <2> QED BY <2>1, <2>2, SumsAgree
<1> QED BY <1>3, <1>4, <1>5, <1>6, <1>7 DEF ConfidenceSums

\* However many claims there are, and whatever the one that is scored: with an
\* important claim scored before, a minor one leaves the overall result as it is
\* (scoring.py:533-549).
THEOREM MinorClaimsAreOverruled == Spec => MinorClaimsDoNotMatter
<1>1. ASSUME AssessInv, ScoredHaveVerdicts, [Next]_vars, Grows(scored, scored'),
             scored'[Len(scored')].importance < IMPORTANCE_THRESHOLD,
             \E k \in DOMAIN scored : scored[k].importance >= IMPORTANCE_THRESHOLD
      PROVE  Overall' = Overall
  <2>1. PICK T : scored \in Seq(T)
    BY <1>1 DEF ScoredHaveVerdicts
  <2> DEFINE n == Len(scored) + 1
             K == Considered(scored)
  <2>2. \E r : scored' = Append(scored, r) /\ r.importance \in Nat
    <3>1. ~UNCHANGED scored
      <4>1. Len(scored) \in Nat
        BY <2>1
      <4> QED BY <1>1, <4>1 DEF Grows
    <3>2. ScoreClaim
      BY <1>1, <3>1 DEF Next, ReadDocument, vars
    <3>3. claim.importance \in 0 .. 100
      BY <1>1, AssessmentAssumption DEF AssessInv, Claim
    <3> DEFINE s == score_claim(Signals(read), claim.context)
               row == [verdict |-> s.verdict, confidence |-> s.confidence,
                       importance |-> claim.importance]
    <3>4. scored' = Append(scored, row)
      BY <3>2 DEF ScoreClaim
    <3>5. row.importance \in Nat
      BY <3>3
    <3> HIDE DEF row
    <3> QED BY <3>4, <3>5
  <2> PICK r : scored' = Append(scored, r) /\ r.importance \in Nat
    BY <2>2
  <2>3. scored \in Seq(T \cup {r})
    BY <2>1
  <2>4. /\ n \notin DOMAIN scored /\ DOMAIN scored' = DOMAIN scored \cup {n}
        /\ scored'[n] = r /\ \A k \in DOMAIN scored : scored'[k] = scored[k]
    <3> DEFINE S == T \cup {r}
    <3>1. scored \in Seq(S) /\ r \in S
      BY <2>3
    <3> HIDE DEF S
    <3>2. LET m == Len(scored) + 1
              new == Append(scored, r)
          IN  /\ m \notin DOMAIN scored /\ DOMAIN new = DOMAIN scored \cup {m}
              /\ new[m] = r /\ \A k \in DOMAIN scored : new[k] = scored[k]
      BY <3>1, Appended
    <3>3. scored' = Append(scored, r)
      OBVIOUS
    <3> QED BY <3>2, <3>3
  <2>5. Len(scored') = n
    BY <2>2, <2>3
  <2>6. ~(r.importance >= IMPORTANCE_THRESHOLD)
    <3>1. IMPORTANCE_THRESHOLD \in Nat /\ r.importance < IMPORTANCE_THRESHOLD
      BY <1>1, <2>4, <2>5 DEF IMPORTANCE_THRESHOLD
    <3> QED BY <3>1
  <2> HIDE DEF n
  <2>7. Considered(scored') = K /\ K \subseteq DOMAIN scored
    BY <1>1, <2>4, <2>6, Zenon DEF Considered
  <2>8. IsFiniteSet(K)
    <3>1. DOMAIN scored = 1 .. Len(scored) /\ Len(scored) \in Nat
      BY <2>1
    <3>2. IsFiniteSet(DOMAIN scored)
      BY <3>1, FS_Interval
    <3> QED BY <2>7, <3>2, FS_Subset
  <2>9. \A k \in K : scored'[k] = scored[k]
    BY <2>4, <2>7
  <2>10. DOMAIN scored # {} /\ DOMAIN scored' # {}
    BY <1>1, <2>4
  <2> HIDE DEF K
  <2>11. /\ DecideOverall(scored', K) = DecideOverall(scored, K)
         /\ OverallConfidence(scored', K) = OverallConfidence(scored, K)
    BY <2>8, <2>9, ConsideredDecide
  <2>12. Overall = score_overall(scored, FALSE) /\ Overall' = score_overall(scored', FALSE)
    BY DEF Overall
  <2>13. score_overall(scored', FALSE) = score_overall(scored, FALSE)
    BY <2>7, <2>10, <2>11, Zenon DEF score_overall, K
  <2> QED BY <2>12, <2>13
<1>2. AssessInv /\ ScoredHaveVerdicts /\ [Next]_vars =>
        [( /\ Grows(scored, scored')
           /\ scored'[Len(scored')].importance < IMPORTANCE_THRESHOLD
           /\ \E k \in DOMAIN scored : scored[k].importance >= IMPORTANCE_THRESHOLD )
         => Overall' = Overall]_vars
  BY <1>1
<1> QED BY <1>2, AssessInvariant, ScoredVerdicts, PTL DEF Spec, MinorClaimsDoNotMatter

-----------------------------------------------------------------------------
(* Types *)

LEMMA QuotientIs ==
  ASSUME NEW x \in Nat, NEW b \in Nat \ {0}, NEW m \in Nat, x <= m * b
  PROVE  x \div b \in 0 .. m
<1> DEFINE q == x \div b
<1>1. q \in Int /\ b * q <= x /\ x < b * (q + 1)
  BY Z3
<1> HIDE DEF q
<1>2. q <= m
  <2>1. SUFFICES ASSUME q >= m + 1 PROVE FALSE
    BY <1>1
  <2>2. b * q >= b * (m + 1)
    BY <2>1, <1>1
  <2>3. b * (m + 1) = m * b + b
    OBVIOUS
  <2> QED BY <1>1, <2>2, <2>3
<1>3. q >= 0
  <2>1. SUFFICES ASSUME q + 1 <= 0 PROVE FALSE
    BY <1>1
  <2>2. b * (q + 1) <= 0
    BY <2>1, <1>1
  <2> QED BY <1>1, <2>2
<1> QED BY <1>1, <1>2, <1>3 DEF q

\* The weighted mean of shares is a share.
LEMMA MeanIs ==
  ASSUME NEW one \in Nat, NEW x \in Nat, x <= one, NEW y \in Nat, y <= one,
         NEW u \in Nat, u <= one, NEW z \in Nat, 100 * z <= one
  PROVE  (40 * x + 25 * y + 20 * 100 * z + 15 * u) \div 100 \in 0 .. one
<1> DEFINE n == 40 * x + 25 * y + 20 * 100 * z + 15 * u
<1>1. n \in Nat /\ n <= one * 100
  OBVIOUS
<1> HIDE DEF n
<1>2. n \div 100 \in 0 .. one
  BY <1>1, QuotientIs
<1> QED BY <1>2 DEF n

\* The confidence of a claim is a share of one, and no quotient in it has a divisor
\* of zero (scoring.py:329-375).
LEMMA ConfidenceIs ==
  ASSUME NEW S \in Nat, NEW C \in Nat, Coarse(S), Coarse(C), NEW O \in Nat, NEW E,
         \A s \in E : source_factor(s.type, s.primary) \in SOURCE_FACTOR_MIN .. SOURCE_FACTOR_MAX
  PROVE  Confidence(S, C, O, E) \in 0 .. One
<1> DEFINE T == S + C
           mass == Lesser(T, 4 * One) \div 4
           agreement == IF T = 0 THEN 0
                        ELSE (10000 * ((T - Lesser(S, C)) \div 100)) \div (T \div 100)
           F == {source_factor(s.type, s.primary) : s \in E}
           best == IF E = {} THEN SOURCE_FACTOR_MIN ELSE Max(F)
           source == ((best - SOURCE_FACTOR_MIN) * One)
                       \div (SOURCE_FACTOR_MAX - SOURCE_FACTOR_MIN)
<1>1. Coverage(O) \in 0 .. One
  <2> DEFINE n == Lesser(O, TARGET_ORIGINS)
  <2>1. n \in Nat /\ n <= 3
    BY DEF Lesser, TARGET_ORIGINS
  <2> HIDE DEF n
  <2>2. One * n \in Nat /\ One * n <= One * 3 /\ One \in Nat
    BY <2>1, SMT DEF One
  <2>3. (One * n) \div 3 \in 0 .. One
    <3> HIDE DEF n
    <3> QED BY <2>2, QuotientIs, SMT
  <2> QED BY <2>3 DEF Coverage, TARGET_ORIGINS, n
<1>2. mass \in 0 .. One
  <2> DEFINE n == Lesser(T, 4 * One)
  <2>1. n \in Nat /\ n <= One * 4 /\ One \in Nat
    BY SMT DEF Lesser, One
  <2> HIDE DEF n
  <2>2. n \div 4 \in 0 .. One
    BY <2>1, QuotientIs, SMT
  <2> QED BY <2>2 DEF n
<1>3. agreement \in Nat /\ agreement <= 10000
  <2>1. CASE T = 0
    BY <2>1
  <2>2. CASE T # 0
    <3> DEFINE m == Lesser(S, C)
               a == 10000 * ((T - m) \div 100)
               b == T \div 100
    <3>1. T \in Nat /\ T >= 100 /\ m \in Nat /\ m <= T
      BY <2>2 DEF Coarse, Lesser
    <3> HIDE DEF m, T
    <3>2. b \in Nat \ {0} /\ a \in Nat /\ a <= 10000 * b
      BY <3>1
    <3>3. agreement = a \div b
      BY <2>2 DEF m
    <3> HIDE DEF a, b
    <3>4. a \div b \in Nat /\ a \div b <= 10000
      BY <3>2, QuotientIs, SMT
    <3> HIDE DEF agreement
    <3> QED BY <3>3, <3>4
  <2> HIDE DEF agreement, T
  <2> QED BY <2>1, <2>2
<1>4. best \in 50 .. 130
  <2>1. CASE E = {}
    BY <2>1 DEF SOURCE_FACTOR_MIN
  <2>2. CASE E # {}
    <3>1. F # {} /\ F \subseteq 50 .. 130
      BY <2>2 DEF SOURCE_FACTOR_MIN, SOURCE_FACTOR_MAX
    <3> HIDE DEF F
    <3>2. F \in SUBSET Nat /\ \A t \in F : t <= 130
      BY <3>1
    <3>3. Max(F) \in F
      BY <3>1, <3>2, GreatestIs
    <3> QED BY <2>2, <3>1, <3>3
  <2> QED BY <2>1, <2>2
<1> HIDE DEF best
<1>5. source \in 0 .. One
  <2> DEFINE n == (best - SOURCE_FACTOR_MIN) * One
  <2>1. n \in Nat /\ n <= One * 80 /\ One \in Nat
    BY <1>4, SMT DEF SOURCE_FACTOR_MIN, One
  <2> HIDE DEF n
  <2>2. n \div 80 \in 0 .. One
    BY <2>1, QuotientIs, SMT
  <2>3. SOURCE_FACTOR_MAX - SOURCE_FACTOR_MIN = 80
    BY DEF SOURCE_FACTOR_MIN, SOURCE_FACTOR_MAX
  <2> QED BY <2>2, <2>3 DEF n
<1>6. Confidence(S, C, O, E)
        = (40 * Coverage(O) + 25 * mass + 20 * 100 * agreement + 15 * source) \div 100
  BY DEF Confidence, best
<1> HIDE DEF mass, agreement, source, T
<1>7. (40 * Coverage(O) + 25 * mass + 20 * 100 * agreement + 15 * source) \div 100 \in 0 .. One
  <2>1. One \in Nat
    BY SMT DEF One
  <2>2. 100 * agreement <= One
    BY <1>3, SMT DEF One
  <2>3. \A x \in 0 .. One : x \in Nat /\ x <= One
    BY <2>1, SMT
  <2> QED BY <1>1, <1>2, <1>3, <1>5, <2>1, <2>2, <2>3, MeanIs, SMT
<1> QED BY <1>6, <1>7

\* What the scorer makes of the documents read for a claim, in any context.
LEMMA ScoreIs ==
  ASSUME NEW c, NEW docs \in Seq(DocumentsFor(c)), NEW x
  PROVE  LET s == score_claim(Signals(docs), x)
         IN  s.verdict \in ClaimVerdict /\ s.confidence \in 0 .. One
<1> DEFINE pro == Side(Signals(docs), "SUPPORTS")
           con == Side(Signals(docs), "CONTRADICTS")
           O == Cardinality(Origins(pro)) + Cardinality(Origins(con))
<1>1. Weighable(pro) /\ Weighable(con)
  BY SidesAreWeighable
<1>2. /\ \A s \in Signals(docs) :
           source_factor(s.type, s.primary) \in SOURCE_FACTOR_MIN .. SOURCE_FACTOR_MAX
  BY SignalsAreWeighable
<1>3. /\ score_claim(Signals(docs), x).verdict = Decide(SideWeight(pro), SideWeight(con), O, x)
      /\ score_claim(Signals(docs), x).confidence
           = Confidence(SideWeight(pro), SideWeight(con), O, Signals(docs))
  BY DEF score_claim
<1> HIDE DEF pro, con
<1>4. /\ SideWeight(pro) \in Nat /\ SideWeight(con) \in Nat /\ O \in Nat
      /\ Coarse(SideWeight(pro)) /\ Coarse(SideWeight(con))
  <2>1. /\ SideWeight(pro) \in Nat /\ Cardinality(Origins(pro)) \in Nat
        /\ SideWeight(con) \in Nat /\ Cardinality(Origins(con)) \in Nat
    BY <1>1, SideIsWeighed
  <2> QED BY <1>1, <2>1, SideIsCoarse
<1> HIDE DEF O
<1>5. Confidence(SideWeight(pro), SideWeight(con), O, Signals(docs)) \in 0 .. One
  BY <1>2, <1>4, ConfidenceIs
<1> QED BY <1>3, <1>5, DecideVerdict

\* Type correctness, for any evidence: what is read and scored stays within its
\* bounds, and so do relevance, verdict and confidence.
THEOREM AssessmentTypes == Spec => []TypeOK
<1>1. AssessInv /\ Init => TypeOK
  <2> SUFFICES ASSUME AssessInv, Init PROVE TypeOK
    OBVIOUS
  <2>1. score.verdict \in ClaimVerdict /\ score.confidence \in 0 .. One
    <3>1. read \in Seq(DocumentsFor(claim)) /\ score = score_claim(Signals(read), Plain)
      BY DEF AssessInv, Score
    <3> QED BY <3>1, ScoreIs
  <2>2. /\ Len(read) = 0 /\ DOMAIN read = {} /\ scored \in Seq(Scored) /\ Len(scored) = 0
        /\ fetched = 0 /\ claim \in Claims
    BY DEF Init
  <2> QED BY <2>1, <2>2, AssessmentAssumption DEF TypeOK
<1>2. AssessInv /\ AssessInv' /\ TypeOK /\ [Next]_vars => TypeOK'
  <2> SUFFICES ASSUME AssessInv, AssessInv', TypeOK, [Next]_vars PROVE TypeOK'
    OBVIOUS
  <2>1. /\ claim' \in Claims
        /\ score'.verdict \in ClaimVerdict /\ score'.confidence \in 0 .. One
    <3>1. /\ claim' \in Claims /\ read' \in Seq(DocumentsFor(claim)')
          /\ score' = score_claim(Signals(read'), Plain)
      BY DEF AssessInv, Score
    <3>2. DocumentsFor(claim)' = DocumentsFor(claim')
      BY DEF DocumentsFor
    <3> QED BY <3>1, <3>2, ScoreIs
  <2>2. \A k \in DOMAIN read' :
          /\ [report |-> read'[k].report, publisher |-> read'[k].publisher,
              text |-> read'[k].text] \in Document
          /\ \A i \in DOMAIN read'[k].evidence : read'[k].evidence[i] \in Evidence
    <3> SUFFICES ASSUME NEW k \in DOMAIN read'
                 PROVE  /\ [report |-> read'[k].report, publisher |-> read'[k].publisher,
                            text |-> read'[k].text] \in Document
                        /\ \A i \in DOMAIN read'[k].evidence : read'[k].evidence[i] \in Evidence
      OBVIOUS
    <3>1. read'[k] \in DocumentsFor(claim)'
      BY DEF AssessInv
    <3>2. DocumentsFor(claim)' = DocumentsFor(claim')
      BY DEF DocumentsFor
    <3>3. \A i \in DOMAIN read'[k].evidence : read'[k].evidence[i] \in Evidence
      BY <3>1, <3>2, DocumentIs
    <3>4. PICK d \in Document :
            read'[k] = [report |-> d.report, publisher |-> d.publisher, text |-> d.text,
                        evidence |-> extract_evidence_for_claim(claim'.text, d.text)]
      BY <3>1, <3>2 DEF DocumentsFor
    <3>5. d = [report |-> read'[k].report, publisher |-> read'[k].publisher,
               text |-> read'[k].text]
      BY <3>4 DEF Document
    <3> QED BY <3>3, <3>5
  <2>3. ASSUME NEW d \in Document, ReadDocument(d) PROVE TypeOK'
    <3>1. /\ Len(read) < MAX_FETCHES /\ fetched < MaxDocuments /\ fetched' = fetched + 1
          /\ scored' = scored
      BY <2>3 DEF ReadDocument
    <3>2. \E r : /\ read' = Append(read, r) /\ r \in DocumentsFor(claim)
                 /\ read \in Seq(DocumentsFor(claim))
      <4> DEFINE r == [report |-> d.report, publisher |-> d.publisher, text |-> d.text,
                       evidence |-> extract_evidence_for_claim(claim.text, d.text)]
      <4>1. read' = Append(read, r) /\ r \in DocumentsFor(claim)
        BY <2>3 DEF ReadDocument, DocumentsFor
      <4> HIDE DEF r
      <4> QED BY <4>1 DEF AssessInv
    <3>3. Len(read') = Len(read) + 1 /\ Len(read) \in Nat
      BY <3>2
    <3>4. Len(read') <= MAX_FETCHES
      BY <3>1, <3>3, AssessmentAssumption
    <3>5. fetched' \in 0 .. MaxDocuments
      BY <3>1, AssessmentAssumption DEF TypeOK
    <3>6. scored' \in Seq(Scored) /\ Len(scored') <= MaxClaims
      BY <3>1 DEF TypeOK
    <3> QED BY <2>1, <2>2, <3>4, <3>5, <3>6 DEF TypeOK
  <2>4. CASE ScoreClaim
    <3> DEFINE s == score_claim(Signals(read), claim.context)
               row == [verdict |-> s.verdict, confidence |-> s.confidence,
                       importance |-> claim.importance]
    <3>1. /\ scored' = Append(scored, row) /\ Len(scored) < MaxClaims
          /\ read' = <<>> /\ fetched' = fetched
      BY <2>4 DEF ScoreClaim
    <3>2. s.verdict \in ClaimVerdict /\ s.confidence \in 0 .. One
      <4>1. read \in Seq(DocumentsFor(claim))
        BY DEF AssessInv
      <4> QED BY <4>1, ScoreIs
    <3>3. claim.importance \in 0 .. 100
      BY AssessmentAssumption DEF TypeOK, Claim
    <3> HIDE DEF s
    <3>4. row \in Scored
      BY <3>2, <3>3 DEF Scored
    <3> HIDE DEF row
    <3>5. scored \in Seq(Scored)
      BY DEF TypeOK
    <3>6. scored' \in Seq(Scored) /\ Len(scored') = Len(scored) + 1 /\ Len(scored) \in Nat
      BY <3>1, <3>4, <3>5
    <3>7. Len(scored') <= MaxClaims
      BY <3>1, <3>6, AssessmentAssumption
    <3>8. Len(read') <= MAX_FETCHES
      BY <3>1, AssessmentAssumption
    <3>9. fetched' \in 0 .. MaxDocuments
      BY <3>1 DEF TypeOK
    <3> QED BY <2>1, <2>2, <3>6, <3>7, <3>8, <3>9 DEF TypeOK
  <2>5. CASE UNCHANGED vars
    BY <2>5 DEF vars, TypeOK
  <2> QED BY <2>3, <2>4, <2>5 DEF Next
<1> QED BY <1>1, <1>2, AssessInvariant, PTL DEF Spec
=============================================================================
