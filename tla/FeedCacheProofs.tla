--------------------------- MODULE FeedCacheProofs ---------------------------
(***************************************************************************)
(* The search over feeds and sites, for any feeds, pages, claims, scores   *)
(* and number of verifications in one process.  The items of a feed are    *)
(* those of one answer (Stored); what a search works with came in time     *)
(* (Found) and has the score of the claim in hand until its list is made   *)
(* (Rated); and a list is in the order of what its items were worth then   *)
(* (Listed), which no later score or title changes.                        *)
(***************************************************************************)
EXTENDS FeedCache, FiniteSetTheorems, SequenceTheorems, TLAPS

Entry == [claim : Claim, items : Seq(Item), seen : SUBSET Item]

Stored == \A f \in Feed :
  /\ IsFiniteSet(cache[f].items)
  /\ \A i \in cache[f].items : i.from = f /\ i.at = cache[f].at

Found ==
  /\ IsFiniteSet(results)
  /\ \A i \in results : i.from \in Feed /\ started - i.at < TTL

Rated ==
  /\ pending # {} => pc = "feeds"
  /\ pc \in {"feeds", "site"} => claims # <<>>
  /\ pc = "site" =>
       \A i \in results : i \in DOMAIN score /\ score[i] = Relevance(Head(claims), i)

InOrder(entry) ==
  /\ \A m \in 1 .. Len(entry.items) : Worth(entry, entry.items[m]) >= MinScore
  /\ \A m, n \in 1 .. Len(entry.items) :
       m < n => Worth(entry, entry.items[m]) >= Worth(entry, entry.items[n])

Listed ==
  /\ retrieved \in Seq(Entry)
  /\ \A k \in 1 .. Len(retrieved) : InOrder(retrieved[k])

FeedInv == TypeOK /\ Stored /\ Found /\ Rated /\ Listed

-----------------------------------------------------------------------------
(* Sets and sequences *)

LEMMA ImageIsFinite ==
  ASSUME NEW f, IsFiniteSet(DOMAIN f)
  PROVE  IsFiniteSet({f[x] : x \in DOMAIN f})
<1> DEFINE T == {f[x] : x \in DOMAIN f}
           g == [x \in DOMAIN f |-> f[x]]
<1>1. g \in Surjection(DOMAIN f, T)
  BY DEF Surjection
<1> QED BY <1>1, FS_Surjection

\* An arrangement of a finite set is a sequence of all its elements.
LEMMA RankedIs ==
  ASSUME NEW S, NEW items \in SUBSET S, IsFiniteSet(items), NEW s, NEW q \in Ranked(items, s)
  PROVE  /\ q \in Seq(S) /\ ToSet(q) \subseteq items
         /\ \A k \in 1 .. Len(q) : q[k] \in items
         /\ \A j, k \in 1 .. Len(q) : j < k => s[q[j]] >= s[q[k]]
<1>1. Cardinality(items) \in Nat
  BY FS_CardinalityType
<1>2. q \in [1 .. Cardinality(items) -> items]
  BY DEF Ranked, SetToSeqs
<1>3. q \in Seq(items)
  BY <1>1, <1>2
<1>4. \A j, k \in 1 .. Len(q) : j < k => s[q[j]] >= s[q[k]]
  BY DEF Ranked
<1>5. q \in Seq(S)
  BY <1>3, SeqMonotonic
<1>6. \A k \in 1 .. Len(q) : q[k] \in items
  BY <1>3
<1> QED BY <1>3, <1>4, <1>5, <1>6 DEF ToSet

LEMMA FirstIs ==
  ASSUME NEW S, NEW q \in Seq(S), NEW n \in Nat
  PROVE  /\ First(q, n) \in Seq(S)
         /\ Len(First(q, n)) = IF Len(q) < n THEN Len(q) ELSE n
         /\ \A k \in 1 .. Len(First(q, n)) : k \in 1 .. Len(q) /\ First(q, n)[k] = q[k]
         /\ ToSet(First(q, n)) \subseteq ToSet(q)
<1> DEFINE l == IF Len(q) < n THEN Len(q) ELSE n
<1>1. l \in Nat /\ l <= Len(q)
  OBVIOUS
<1>2. /\ SubSeq(q, 1, l) \in Seq(S) /\ Len(SubSeq(q, 1, l)) = l
      /\ \A k \in 1 .. l : SubSeq(q, 1, l)[k] = q[k]
  <2>1. \A k \in 1 .. l : q[k] \in S
    BY <1>1
  <2> QED BY <1>1, <2>1, SubSeqProperties
<1>3. First(q, n) = SubSeq(q, 1, l)
  BY DEF First
<1> HIDE DEF l
<1>4. \A k \in 1 .. l : k \in 1 .. Len(q)
  BY <1>1
<1>5. ToSet(First(q, n)) \subseteq ToSet(q)
  BY <1>2, <1>3, <1>4 DEF ToSet
<1> QED BY <1>2, <1>3, <1>4, <1>5 DEF l

\* A sequence has finitely many elements.
LEMMA ElementsAreFinite ==
  ASSUME NEW S, NEW q \in Seq(S)
  PROVE  IsFiniteSet(ToSet(q))
<1>1. IsFiniteSet(1 .. Len(q))
  BY FS_Interval
<1>2. DOMAIN q = 1 .. Len(q)
  OBVIOUS
<1>3. IsFiniteSet({q[k] : k \in DOMAIN q})
  BY <1>1, <1>2, ImageIsFinite
<1>4. ToSet(q) = {q[k] : k \in DOMAIN q}
  BY <1>2 DEF ToSet
<1> QED BY <1>3, <1>4

\* What one answer holds of finitely many pages.
LEMMA AnswerIsFinite ==
  ASSUME NEW from, NEW pages, IsFiniteSet(pages), NEW n, NEW t
  PROVE  IsFiniteSet([from : {from}, page : pages, search : {n}, at : {t}])
<1> DEFINE f == [p \in pages |-> [from |-> from, page |-> p, search |-> n, at |-> t]]
<1>1. IsFiniteSet({f[p] : p \in DOMAIN f})
  BY ImageIsFinite
<1>2. [from : {from}, page : pages, search : {n}, at : {t}] = {f[p] : p \in DOMAIN f}
  <2>1. ASSUME NEW i \in [from : {from}, page : pages, search : {n}, at : {t}]
        PROVE  i.page \in pages /\ i = f[i.page]
    OBVIOUS
  <2>2. \A p \in pages : f[p] \in [from : {from}, page : pages, search : {n}, at : {t}]
    OBVIOUS
  <2>3. DOMAIN f = pages
    OBVIOUS
  <2> HIDE DEF f
  <2> QED BY <2>1, <2>2, <2>3
<1> QED BY <1>1, <1>2

-----------------------------------------------------------------------------
(* The steps *)

LEMMA FeedInit == Init => FeedInv
<1> SUFFICES ASSUME Init PROVE FeedInv
  OBVIOUS
<1> USE FeedAssumption
<1>1. TypeOK
  BY DEF Init, TypeOK, Empty
<1>2. Stored
  <2> SUFFICES ASSUME NEW f \in Feed
               PROVE  cache[f].items = {} /\ cache[f].at = -1
    <3>1. ~(-1 >= 0)
      OBVIOUS
    <3> QED BY <3>1, FS_EmptySet DEF Stored
  <2> QED BY DEF Init, Empty
<1>3. Found
  BY FS_EmptySet DEF Init, Found
<1>4. Rated
  BY DEF Init, Rated
<1>5. Listed
  BY DEF Init, Listed
<1> QED BY <1>1, <1>2, <1>3, <1>4, <1>5 DEF FeedInv

LEMMA StartsVerification ==
  ASSUME FeedInv, StartVerification PROVE FeedInv'
<1> USE FeedAssumption
<1>1. PICK n \in 1 .. MaxClaims : \E cs \in [1 .. n -> Claim] : claims' = cs
  BY DEF StartVerification
<1>2. claims' \in Seq(Claim)
  BY <1>1
<1>3. TypeOK'
  BY <1>2 DEF FeedInv, TypeOK, StartVerification
<1>4. Stored' /\ Found'
  BY DEF FeedInv, Stored, Found, StartVerification
<1>5. Rated' /\ Listed'
  BY DEF FeedInv, Rated, Listed, StartVerification
<1> QED BY <1>3, <1>4, <1>5 DEF FeedInv

LEMMA StartsSearch ==
  ASSUME FeedInv, StartSearch PROVE FeedInv'
<1> USE FeedAssumption
<1> DEFINE feeds == FeedsOf[Head(claims)]
           cached == {f \in feeds : Fresh(f)}
           held == [f \in cached |-> cache[f].items]
<1>1. feeds \subseteq Feed
  BY DEF FeedInv, TypeOK, StartSearch
<1>2. /\ pending' = feeds \ cached /\ started' = now /\ pc' = "feeds" /\ search' = search + 1
      /\ results' = UNION {cache[f].items : f \in cached} /\ claims # <<>>
  BY DEF StartSearch
<1>3. UNCHANGED <<now, cache, read, score, claims, retrieved, position, verifications>>
  BY DEF StartSearch
<1>4. \A f \in cached : f \in Feed /\ now - cache[f].at < TTL
  BY <1>1 DEF Fresh
<1>5. IsFiniteSet(results')
  <2>1. IsFiniteSet(cached)
    BY <1>1, FS_Subset
  <2>2. IsFiniteSet({held[f] : f \in DOMAIN held})
    BY <2>1, ImageIsFinite
  <2>3. {held[f] : f \in DOMAIN held} = {cache[f].items : f \in cached}
    OBVIOUS
  <2>4. \A T \in {cache[f].items : f \in cached} : IsFiniteSet(T)
    BY <1>4 DEF FeedInv, Stored
  <2> QED BY <1>2, <2>2, <2>3, <2>4, FS_UNION
<1>6. \A i \in results' : \E f \in cached : i \in cache[f].items
  BY <1>2
<1> HIDE DEF feeds, cached, held
<1>7. results' \subseteq Item
  BY <1>4, <1>6 DEF FeedInv, TypeOK
<1>8. TypeOK'
  <2>1. pending' \subseteq Feed
    BY <1>1, <1>2
  <2> QED BY <1>2, <1>3, <1>7, <2>1 DEF FeedInv, TypeOK
<1>9. Stored'
  BY <1>3 DEF FeedInv, Stored
<1>10. Found'
  <2> SUFFICES ASSUME NEW i \in results' PROVE i.from \in Feed /\ now - i.at < TTL
    BY <1>2, <1>5 DEF Found
  <2> PICK f \in cached : i \in cache[f].items
    BY <1>6
  <2> QED BY <1>4 DEF FeedInv, Stored
<1>11. Rated'
  BY <1>2, <1>3 DEF Rated
<1>12. Listed'
  BY <1>3 DEF FeedInv, Listed
<1> QED BY <1>8, <1>9, <1>10, <1>11, <1>12 DEF FeedInv

LEMMA Answers ==
  ASSUME FeedInv, NEW f \in Feed, FeedAnswers(f) PROVE FeedInv'
<1> USE FeedAssumption
<1>0. PICK parsed \in SUBSET Entries[f] :
        LET items == [from : {f}, page : parsed, search : {search}, at : {now}]
        IN  /\ cache' = [cache EXCEPT ![f] = [at |-> now, items |-> items]]
            /\ results' = results \cup items
  BY DEF FeedAnswers
<1> DEFINE items == [from : {f}, page : parsed, search : {search}, at : {now}]
<1>1. /\ f \in pending /\ pending' = pending \ {f} /\ results' = results \cup items
      /\ cache' = [cache EXCEPT ![f] = [at |-> now, items |-> items]]
  BY <1>0 DEF FeedAnswers
<1>2. UNCHANGED <<now, read, score, claims, retrieved, position, pc, verifications, search, started>>
  BY DEF FeedAnswers
<1>3. items \in SUBSET Item
  <2>1. now \in 0 .. MaxTime /\ search \in Nat /\ parsed \subseteq Page
    BY DEF FeedInv, TypeOK
  <2> QED BY <2>1 DEF Item
<1>4. IsFiniteSet(items)
  <2>1. IsFiniteSet(parsed)
    BY FS_Subset
  <2> QED BY <2>1, AnswerIsFinite
<1>5. \A i \in items : i.from = f /\ i.at = now
  OBVIOUS
<1> HIDE DEF items
<1>6. /\ cache' \in [Feed -> [at : -1 .. now, items : SUBSET Item]]
      /\ cache'[f] = [at |-> now, items |-> items]
      /\ \A g \in Feed \ {f} : cache'[g] = cache[g]
  <2>1. cache \in [Feed -> [at : -1 .. now, items : SUBSET Item]] /\ now \in 0 .. MaxTime
    BY DEF FeedInv, TypeOK
  <2>2. now \in -1 .. now
    BY <2>1
  <2>3. [at |-> now, items |-> items] \in [at : -1 .. now, items : SUBSET Item]
    BY <1>3, <2>2
  <2> QED BY <1>1, <2>1, <2>3
<1>7. TypeOK'
  BY <1>1, <1>2, <1>3, <1>6 DEF FeedInv, TypeOK
<1>8. Stored'
  BY <1>4, <1>5, <1>6 DEF FeedInv, Stored
<1>9. Found'
  <2>1. IsFiniteSet(results')
    BY <1>1, <1>4, FS_Union DEF FeedInv, Found
  <2>2. started \in 0 .. now /\ now \in 0 .. MaxTime
    BY DEF FeedInv, TypeOK
  <2>3. started - now < TTL
    BY <2>2
  <2> QED BY <1>1, <1>2, <1>5, <2>1, <2>3 DEF FeedInv, Found
<1>10. Rated'
  BY <1>1, <1>2 DEF FeedInv, Rated
<1>11. Listed'
  BY <1>2 DEF FeedInv, Listed
<1> QED BY <1>7, <1>8, <1>9, <1>10, <1>11 DEF FeedInv

LEMMA Fails ==
  ASSUME FeedInv, NEW f \in Feed, FeedFails(f) PROVE FeedInv'
<1>1. TypeOK'
  BY DEF FeedInv, TypeOK, FeedFails
<1>2. Stored' /\ Found'
  BY DEF FeedInv, Stored, Found, FeedFails
<1>3. Rated' /\ Listed'
  BY DEF FeedInv, Rated, Listed, FeedFails
<1> QED BY <1>1, <1>2, <1>3 DEF FeedInv

LEMMA RanksFeeds ==
  ASSUME FeedInv, RankFeeds PROVE FeedInv'
<1> USE FeedAssumption
<1> DEFINE c == Head(claims)
           s == Scored(c)
           matching == {i \in results : Matches(c, i) >= MinTitle /\ s[i] > 0}
<1>1. PICK q \in Ranked(matching, s) : results' = ToSet(First(q, Limit))
  BY DEF RankFeeds
<1>2. /\ score' = s /\ pc' = "site" /\ pc = "feeds" /\ pending = {}
      /\ UNCHANGED <<now, cache, read, claims, retrieved, position, pending,
                     verifications, search, started>>
  BY DEF RankFeeds
<1>3. matching \in SUBSET results /\ IsFiniteSet(matching)
  BY FS_Subset DEF FeedInv, Found
<1>4. \A i \in results : i \in DOMAIN s /\ s[i] = Relevance(c, i)
  BY DEF Scored
<1>5. DOMAIN s = DOMAIN score \cup results
  BY DEF Scored
<1> HIDE DEF s, matching
<1>6. q \in Seq(results)
  BY <1>1, <1>3, RankedIs
<1>7. First(q, Limit) \in Seq(results)
  BY <1>6, FirstIs
<1>8. results' \subseteq results /\ IsFiniteSet(results')
  <2>1. ToSet(First(q, Limit)) \subseteq results
    BY <1>7 DEF ToSet
  <2> QED BY <1>1, <1>7, <2>1, ElementsAreFinite
<1>9. TypeOK'
  BY <1>2, <1>5, <1>8 DEF FeedInv, TypeOK
<1>10. Stored'
  BY <1>2 DEF FeedInv, Stored
<1>11. Found'
  BY <1>2, <1>8 DEF FeedInv, Found
<1>12. Rated'
  <2>1. \A i \in results : Relevance(c, i)' = Relevance(c, i)
    BY <1>2 DEF Relevance, Matches
  <2> QED BY <1>2, <1>4, <1>8, <2>1 DEF FeedInv, Rated
<1>13. Listed'
  BY <1>2 DEF FeedInv, Listed
<1> QED BY <1>9, <1>10, <1>11, <1>12, <1>13 DEF FeedInv

\* The list is made of what the feeds gave and of the hits, each with the
\* score that the claim in hand gave it; the title that was scored is the one
\* that "seen" remembers.
LEMMA Searches ==
  ASSUME FeedInv, SearchSites PROVE FeedInv'
<1> USE FeedAssumption
<1> DEFINE c == Head(claims)
<1>1. PICK pages \in SUBSET Archive :
        LET found == {i \in [from : {Site}, page : pages, search : {search}, at : {now}] :
                           SiteRelevance(c, i) > 0}
            s == [i \in DOMAIN score \cup found |->
                       IF i \in found THEN SiteRelevance(c, i) ELSE score[i]]
        IN  /\ score' = s
            /\ \E hits \in Ranked(found, s) :
               \E best \in Deduplicated(results \cup ToSet(First(hits, Limit)), s) :
               \E q \in Ranked({i \in best : s[i] >= MinScore}, s) :
                   retrieved' = Append(retrieved,
                       [claim |-> c, items |-> q, seen |-> read \cap best])
  BY DEF SearchSites
<1> DEFINE all == [from : {Site}, page : pages, search : {search}, at : {now}]
           found == {i \in all : SiteRelevance(c, i) > 0}
           s == [i \in DOMAIN score \cup found |->
                   IF i \in found THEN SiteRelevance(c, i) ELSE score[i]]
<1>2. PICK hits \in Ranked(found, s) :
        \E best \in Deduplicated(results \cup ToSet(First(hits, Limit)), s) :
        \E q \in Ranked({i \in best : s[i] >= MinScore}, s) :
            retrieved' = Append(retrieved, [claim |-> c, items |-> q, seen |-> read \cap best])
  BY <1>1
<1> DEFINE both == results \cup ToSet(First(hits, Limit))
<1>3. PICK best \in Deduplicated(both, s) :
        \E q \in Ranked({i \in best : s[i] >= MinScore}, s) :
            retrieved' = Append(retrieved, [claim |-> c, items |-> q, seen |-> read \cap best])
  BY <1>2
<1> DEFINE kept == {i \in best : s[i] >= MinScore}
<1>4. PICK q \in Ranked(kept, s) :
        retrieved' = Append(retrieved, [claim |-> c, items |-> q, seen |-> read \cap best])
  BY <1>3
<1> DEFINE entry == [claim |-> c, items |-> q, seen |-> read \cap best]
<1>5. /\ score' = s /\ pc = "site" /\ claims' = Tail(claims) /\ results' = {}
      /\ pc' = (IF Len(claims) = 1 THEN "extract" ELSE "retrieve")
      /\ UNCHANGED <<now, cache, read, position, pending, verifications, search, started>>
  BY <1>1 DEF SearchSites
<1>6. /\ claims \in Seq(Claim) /\ claims # <<>> /\ c \in Claim
      /\ results \subseteq Item /\ DOMAIN score \subseteq Item /\ read \subseteq Item
  <2>1. claims \in Seq(Claim) /\ claims # <<>>
    BY <1>5 DEF FeedInv, TypeOK, Rated
  <2> QED BY <2>1 DEF FeedInv, TypeOK
<1>7. found \in SUBSET Item /\ IsFiniteSet(found) /\ \A i \in found : i.from = Site
  <2>1. now \in 0 .. MaxTime /\ search \in Nat /\ pages \subseteq Page
    BY DEF FeedInv, TypeOK
  <2>2. all \subseteq Item
    BY <2>1 DEF Item
  <2>3. IsFiniteSet(pages)
    BY <2>1, FS_Subset
  <2>4. IsFiniteSet(all)
    BY <2>3, AnswerIsFinite
  <2> QED BY <2>2, <2>4, FS_Subset
<1>8. DOMAIN s = DOMAIN score \cup found
  OBVIOUS
<1>9. \A i \in found : s[i] = SiteRelevance(c, i)
  OBVIOUS
<1>10. \A i \in results : i.from # Site /\ s[i] = Relevance(c, i)
  <2> SUFFICES ASSUME NEW i \in results PROVE i.from # Site /\ s[i] = Relevance(c, i)
    OBVIOUS
  <2>1. i.from \in Feed /\ i \in DOMAIN score /\ score[i] = Relevance(c, i)
    BY <1>5 DEF FeedInv, Found, Rated
  <2>2. i \notin found
    BY <1>7, <2>1
  <2> QED BY <2>1, <2>2
<1> HIDE DEF found, s
<1>11. ToSet(First(hits, Limit)) \in SUBSET found /\ IsFiniteSet(ToSet(First(hits, Limit)))
  <2>1. hits \in Seq(found)
    BY <1>7, RankedIs
  <2>2. First(hits, Limit) \in Seq(found)
    BY <2>1, FirstIs
  <2> QED BY <2>2, ElementsAreFinite DEF ToSet
<1>12. kept \in SUBSET (results \cup found) /\ IsFiniteSet(kept) /\ kept \subseteq Item
  <2>1. IsFiniteSet(both) /\ both \subseteq results \cup found
    BY <1>11, FS_Union DEF FeedInv, Found
  <2>2. best \subseteq both
    BY DEF Deduplicated
  <2> HIDE DEF both
  <2>3. kept \subseteq both
    BY <2>2
  <2> QED BY <1>6, <1>7, <2>1, <2>3, FS_Subset
<1>13. /\ q \in Seq(Item)
       /\ \A m \in 1 .. Len(q) : q[m] \in kept
       /\ \A m, n \in 1 .. Len(q) : m < n => s[q[m]] >= s[q[n]]
  <2> HIDE DEF kept
  <2> QED BY <1>12, RankedIs
<1>14. entry \in Entry
  BY <1>6, <1>13 DEF Entry
<1>15. \A i \in kept : Worth(entry, i) = s[i] /\ s[i] >= MinScore
  <2> SUFFICES ASSUME NEW i \in kept PROVE Worth(entry, i) = s[i]
    OBVIOUS
  <2>1. i \in entry.seen <=> i \in read
    OBVIOUS
  <2>2. CASE i \in found
    BY <1>7, <1>9, <2>2 DEF Worth, SiteRelevance
  <2>3. CASE i \in results
    <3>1. i.from # Site /\ s[i] = Relevance(c, i)
      BY <1>10, <2>3
    <3>2. Worth(entry, i) = (3 * TitleScore[c, i.page, i \in entry.seen]
                               + BodyScore[c, i.page]) \div 4
      BY <3>1 DEF Worth
    <3>3. (i \in entry.seen) = (i \in read)
      BY <2>1
    <3> QED BY <3>1, <3>2, <3>3 DEF Relevance, Matches
  <2> QED BY <1>12, <2>2, <2>3
<1>16. InOrder(entry)
  <2>1. entry.items = q
    OBVIOUS
  <2> HIDE DEF entry, kept
  <2>2. \A m \in 1 .. Len(q) : Worth(entry, q[m]) = s[q[m]] /\ s[q[m]] >= MinScore
    BY <1>13, <1>15
  <2> QED BY <1>13, <2>1, <2>2 DEF InOrder
<1> HIDE DEF entry, kept, both, c
<1>17. Listed'
  <2>1. retrieved \in Seq(Entry) /\ \A k \in 1 .. Len(retrieved) : InOrder(retrieved[k])
    BY DEF FeedInv, Listed
  <2>2. retrieved' = Append(retrieved, entry)
    BY <1>4 DEF entry
  <2>3. retrieved' \in Seq(Entry)
    BY <1>14, <2>1, <2>2
  <2>4. ASSUME NEW k \in 1 .. Len(retrieved') PROVE InOrder(retrieved'[k])
    <3>1. retrieved'[k] = IF k = Len(retrieved) + 1 THEN entry ELSE retrieved[k]
      BY <1>14, <2>1, <2>2, AppendProperties
    <3>2. k = Len(retrieved) + 1 \/ k \in 1 .. Len(retrieved)
      BY <1>14, <2>1, <2>2, AppendProperties
    <3>3. k = Len(retrieved) + 1 => InOrder(retrieved'[k])
      BY <1>16, <3>1
    <3>4. k \in 1 .. Len(retrieved) => retrieved'[k] = retrieved[k]
      BY <2>1, <3>1
    <3> QED BY <2>1, <3>2, <3>3, <3>4
  <2> QED BY <2>3, <2>4 DEF Listed, InOrder, Worth, SiteRelevance
<1>18. TypeOK'
  <2>1. claims' \in Seq(Claim)
    BY <1>5, <1>6
  <2>2. DOMAIN score' \subseteq Item
    BY <1>5, <1>6, <1>7, <1>8
  <2>3. \A k \in 1 .. Len(retrieved') :
            retrieved'[k].claim \in Claim /\ ToSet(retrieved'[k].items) \subseteq Item
    <3>1. \A e \in Entry : e.claim \in Claim /\ ToSet(e.items) \subseteq Item
      BY DEF Entry, ToSet
    <3>2. retrieved' \in Seq(Entry)
      BY <1>17 DEF Listed
    <3> QED BY <3>1, <3>2
  <2> QED BY <1>5, <2>1, <2>2, <2>3 DEF FeedInv, TypeOK
<1>19. Stored'
  BY <1>5 DEF FeedInv, Stored
<1>20. Found'
  BY <1>5, FS_EmptySet DEF Found
<1>21. Rated'
  BY <1>5 DEF FeedInv, Rated
<1> QED BY <1>17, <1>18, <1>19, <1>20, <1>21 DEF FeedInv

LEMMA Reads ==
  ASSUME FeedInv, ReadArticle PROVE FeedInv'
<1> USE FeedAssumption
<1> DEFINE entry == Head(retrieved)
<1>1. entry \in Entry
  BY DEF FeedInv, Listed, ReadArticle
<1>2. ToFetch(entry) \in Seq(Item) /\ Len(ToFetch(entry)) <= MaxFetches
  <2>1. entry.items \in Seq(Item)
    BY <1>1 DEF Entry
  <2>2. /\ First(entry.items, MaxFetches) \in Seq(Item)
        /\ Len(First(entry.items, MaxFetches)) =
             IF Len(entry.items) < MaxFetches THEN Len(entry.items) ELSE MaxFetches
    BY <2>1, FirstIs
  <2> QED BY <2>1, <2>2 DEF ToFetch
<1>3. position < Len(ToFetch(entry)) /\ position' = position + 1 /\ pc = "extract"
  BY DEF ReadArticle
<1>4. position \in Nat
  BY DEF FeedInv, TypeOK
<1>5. UNCHANGED <<now, cache, score, claims, retrieved, pending, results,
                  pc, verifications, search, started>>
  BY DEF ReadArticle
<1>6. read' \subseteq Item
  <2>1. ToFetch(entry)[position + 1] \in Item
    BY <1>2, <1>3, <1>4
  <2> QED BY <2>1 DEF FeedInv, TypeOK, ReadArticle
<1>7. position' \in 0 .. MaxFetches
  BY <1>2, <1>3, <1>4
<1>8. TypeOK'
  BY <1>5, <1>6, <1>7 DEF FeedInv, TypeOK
<1>9. Stored' /\ Found'
  BY <1>5 DEF FeedInv, Stored, Found
<1>10. Rated'
  BY <1>3, <1>5 DEF FeedInv, Rated
<1>11. Listed'
  BY <1>5 DEF FeedInv, Listed
<1> QED BY <1>8, <1>9, <1>10, <1>11 DEF FeedInv

LEMMA EndsClaim ==
  ASSUME FeedInv, EndClaim PROVE FeedInv'
<1> USE FeedAssumption
<1>1. pc = "extract" /\ position' = 0
      /\ UNCHANGED <<now, cache, claims, pending, results, verifications, search, started>>
  BY DEF EndClaim
<1>2. read' \subseteq read /\ DOMAIN score' \subseteq DOMAIN score /\ pc' \in {"extract", "idle"}
  BY DEF EndClaim, FeedInv
<1>3. \/ retrieved' = <<>>
      \/ Len(retrieved) > 1 /\ retrieved' = Tail(retrieved)
  BY DEF EndClaim
<1>4. /\ retrieved' \in Seq(Entry)
      /\ \A k \in 1 .. Len(retrieved') : \E m \in 1 .. Len(retrieved) : retrieved'[k] = retrieved[m]
  <2>1. CASE retrieved' = <<>>
    BY <2>1
  <2>2. CASE Len(retrieved) > 1 /\ retrieved' = Tail(retrieved)
    <3>1. retrieved \in Seq(Entry) /\ retrieved # <<>>
      BY <2>2 DEF FeedInv, Listed
    <3>2. /\ retrieved' \in Seq(Entry) /\ Len(retrieved') = Len(retrieved) - 1
          /\ \A k \in 1 .. Len(retrieved') : retrieved'[k] = retrieved[k + 1]
      BY <2>2, <3>1
    <3>3. \A k \in 1 .. Len(retrieved') : k + 1 \in 1 .. Len(retrieved)
      BY <3>1, <3>2
    <3> QED BY <3>2, <3>3
  <2> QED BY <1>3, <2>1, <2>2
<1>5. TypeOK'
  BY <1>1, <1>2, <1>4 DEF FeedInv, TypeOK
<1>6. Stored' /\ Found'
  BY <1>1 DEF FeedInv, Stored, Found
<1>7. Rated'
  BY <1>1, <1>2 DEF FeedInv, Rated
<1>8. Listed'
  <2>1. \A k \in 1 .. Len(retrieved) : InOrder(retrieved[k])
    BY DEF FeedInv, Listed
  <2>2. \A k \in 1 .. Len(retrieved') : InOrder(retrieved'[k])
    BY <1>4, <2>1
  <2> QED BY <1>4, <2>2 DEF Listed, InOrder, Worth, SiteRelevance
<1> QED BY <1>5, <1>6, <1>7, <1>8 DEF FeedInv

LEMMA Ticks ==
  ASSUME FeedInv, Tick PROVE FeedInv'
<1> USE FeedAssumption
<1>1. now \in 0 .. MaxTime /\ now' = now + 1 /\ now < MaxTime
      /\ UNCHANGED <<cache, read, score, claims, retrieved, position, pending, results,
                     pc, verifications, search, started>>
  BY DEF FeedInv, TypeOK, Tick
<1>2. cache' \in [Feed -> [at : -1 .. now', items : SUBSET Item]]
  <2>1. cache \in [Feed -> [at : -1 .. now, items : SUBSET Item]]
    BY DEF FeedInv, TypeOK
  <2>2. -1 .. now \subseteq -1 .. now'
    BY <1>1
  <2>3. \A f \in Feed : cache[f] \in [at : -1 .. now', items : SUBSET Item]
    BY <2>1, <2>2
  <2> QED BY <1>1, <2>1, <2>3
<1>3. TypeOK'
  <2>1. now' \in 0 .. MaxTime /\ started \in 0 .. now'
    BY <1>1 DEF FeedInv, TypeOK
  <2> QED BY <1>1, <1>2, <2>1 DEF FeedInv, TypeOK
<1>4. Stored' /\ Found'
  BY <1>1 DEF FeedInv, Stored, Found
<1>5. Rated'
  BY <1>1 DEF FeedInv, Rated, Relevance, Matches
<1>6. Listed'
  BY <1>1 DEF FeedInv, Listed
<1> QED BY <1>3, <1>4, <1>5, <1>6 DEF FeedInv

LEMMA FeedStep == FeedInv /\ [Next]_vars => FeedInv'
<1> SUFFICES ASSUME FeedInv, [Next]_vars PROVE FeedInv'
  OBVIOUS
<1>1. CASE StartVerification BY <1>1, StartsVerification
<1>2. CASE StartSearch BY <1>2, StartsSearch
<1>3. ASSUME NEW f \in Feed, FeedAnswers(f) PROVE FeedInv' BY <1>3, Answers
<1>4. ASSUME NEW f \in Feed, FeedFails(f) PROVE FeedInv' BY <1>4, Fails
<1>5. CASE RankFeeds BY <1>5, RanksFeeds
<1>6. CASE SearchSites BY <1>6, Searches
<1>7. CASE ReadArticle BY <1>7, Reads
<1>8. CASE EndClaim BY <1>8, EndsClaim
<1>9. CASE Tick BY <1>9, Ticks
<1>10. CASE UNCHANGED vars
  <2>1. TypeOK' /\ Stored' /\ Found'
    BY <1>10 DEF vars, FeedInv, TypeOK, Stored, Found
  <2>2. Rated'
    BY <1>10 DEF vars, FeedInv, Rated, Relevance, Matches
  <2>3. Listed'
    BY <1>10 DEF vars, FeedInv, Listed
  <2> QED BY <2>1, <2>2, <2>3 DEF FeedInv
<1> QED
  BY <1>1, <1>2, <1>3, <1>4, <1>5, <1>6, <1>7, <1>8, <1>9, <1>10 DEF Next

LEMMA FeedInvariant == Spec => []FeedInv
BY FeedInit, FeedStep, PTL DEF Spec

-----------------------------------------------------------------------------
(* The theorems *)

\* The state has its types: what the cache keeps is never of a later time than
\* the clock, and everything that is scored, read or listed is an item.
THEOREM FeedTypes == Spec => []TypeOK
<1>1. FeedInv => TypeOK
  BY DEF FeedInv
<1> QED BY <1>1, FeedInvariant, PTL

\* A search works with nothing that a feed said TTL or longer before it began
\* (_fetch_feed in retrieval/feeds.py), however many feeds fail.
THEOREM CacheIsFresh == Spec => []ResultsAreFresh
<1>1. FeedInv => ResultsAreFresh
  BY DEF FeedInv, Found, ResultsAreFresh
<1> QED BY <1>1, FeedInvariant, PTL

\* The articles that build_evidence_for_claim reads are the most relevant that
\* retrieval listed for the claim, by the scores of that moment, whatever other
\* claims have written into the same objects since.
THEOREM BestAreRead == Spec => []MostRelevantAreRead
<1> USE FeedAssumption
<1>1. FeedInv => MostRelevantAreRead
  <2> SUFFICES ASSUME FeedInv, NEW k \in 1 .. Len(retrieved),
                      NEW i \in ToSet(ToFetch(retrieved[k]))
               PROVE  /\ Worth(retrieved[k], i) >= MinScore
                      /\ \A j \in ToSet(retrieved[k].items) \ ToSet(ToFetch(retrieved[k])) :
                             Worth(retrieved[k], i) >= Worth(retrieved[k], j)
    BY DEF MostRelevantAreRead
  <2> DEFINE entry == retrieved[k]
             p == ToFetch(entry)
             l == entry.items
  <2>1. entry \in Entry /\ InOrder(entry)
    BY DEF FeedInv, Listed
  <2>2. l \in Seq(Item)
    BY <2>1 DEF Entry
  <2>3. /\ p \in Seq(Item) /\ Len(p) = IF Len(l) < MaxFetches THEN Len(l) ELSE MaxFetches
        /\ \A m \in 1 .. Len(p) : m \in 1 .. Len(l) /\ p[m] = l[m]
    <3> HIDE DEF l
    <3> QED BY <2>2, FirstIs DEF ToFetch, l
  <2> HIDE DEF p, l
  <2>4. PICK m \in 1 .. Len(p) : i = p[m]
    BY <2>3 DEF ToSet, p
  <2>5. m \in 1 .. Len(l) /\ i = l[m]
    BY <2>3, <2>4
  <2>6. Worth(entry, i) >= MinScore
    BY <2>1, <2>5 DEF InOrder, l
  <2>7. ASSUME NEW j \in ToSet(l) \ ToSet(p) PROVE Worth(entry, i) >= Worth(entry, j)
    <3>1. PICK n \in 1 .. Len(l) : j = l[n]
      BY <2>2 DEF ToSet
    <3>2. n \notin 1 .. Len(p)
      BY <2>3, <3>1 DEF ToSet
    <3>3. m < n
      BY <2>2, <2>3, <3>2
    <3> QED BY <2>1, <2>5, <3>1, <3>3 DEF InOrder, l
  <2> QED BY <2>6, <2>7 DEF p, l
<1> QED BY <1>1, FeedInvariant, PTL
==============================================================================
