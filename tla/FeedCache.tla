----------------------------- MODULE FeedCache -----------------------------
(***************************************************************************)
(* How the articles that are read for a claim are found: the search over   *)
(* feeds with its process-wide cache (retrieval/feeds.py), the search over *)
(* publishers' sites (site_search.py), and what RETRIEVING_EVIDENCE and    *)
(* EXTRACTING_EVIDENCE do with the results (stages.py, pipeline_ops.py).   *)
(*                                                                         *)
(* The cache hands out the objects it keeps.  A search writes its score    *)
(* into each of them, and reading an article replaces the title and the    *)
(* canonical URL of the one it was found by; so what a search finds can    *)
(* depend on the claims and verifications that came before it in the same  *)
(* process.  A worker searches for one claim after the other, and reads    *)
(* only when it has searched for all.                                      *)
(*                                                                         *)
(* Scores are percentages.  Ties are broken freely where the code keeps    *)
(* the order of feeds.                                                     *)
(***************************************************************************)
EXTENDS Integers, Sequences, FiniteSets, SequencesExt

CONSTANTS
    Feed, Page, Claim,
    Entries,         \* Entries[f]: the pages that feed f lists, of which an answer may lack some
    Archive,         \* pages that the sites' own searches may find
    FeedsOf,         \* FeedsOf[c]: the feeds asked for a claim's language
    Canonical,       \* Canonical[p]: the URL that a page calls its own
    TitleScore,      \* TitleScore[c, p, read]: of its feed's or its own title
    BodyScore,       \* BodyScore[c, p]: of the summary in the feed
    TTL,             \* _CACHE_TTL_SECONDS
    MinTitle,        \* 12: a title that scores less is not relevant
    MinScore,        \* settings.retrieval_min_score
    Limit,           \* settings.retrieval_candidate_limit, per provider
    MaxFetches,      \* settings.max_article_fetches, per claim
    MaxTime, MaxVerifications, MaxClaims     \* bounds

Site == "site"

ASSUME FeedAssumption ==
    /\ Entries \in [Feed -> SUBSET Page] /\ FeedsOf \in [Claim -> SUBSET Feed]
    /\ Canonical \in [Page -> Page] /\ Archive \subseteq Page
    /\ IsFiniteSet(Feed) /\ IsFiniteSet(Page) /\ Site \notin Feed
    /\ TTL \in Nat \ {0} /\ MaxTime \in Nat /\ MaxVerifications \in Nat /\ MaxClaims \in Nat
    /\ Limit \in Nat \ {0} /\ MaxFetches \in Nat \ {0}

\* A RetrievedItem, known by what created it: a feed or a site search, with the
\* number of the search it happened in and the time.
Item == [from : Feed \cup {Site}, page : Page, search : Nat, at : 0 .. MaxTime]

VARIABLES
    now,
    cache,       \* _entry_cache
    read,        \* items with the title and canonical URL of their article
    score,       \* item.score, of the items that have been scored
    claims,      \* claims of the running verification still to be searched
    retrieved,   \* ctx.retrieved_documents
    position,    \* items read for the claim at the head of retrieved
    pending,     \* feeds that have not answered the running search
    results,     \* items that have come in
    pc, verifications,
    search,      \* searches so far
    started      \* history: when the running search began

vars == <<now, cache, read, score, claims, retrieved, position, pending, results,
          pc, verifications, search, started>>

Empty == [at |-> -1, items |-> {}]

Init ==
    /\ now = 0 /\ cache = [f \in Feed |-> Empty]
    /\ read = {} /\ score = <<>>
    /\ claims = <<>> /\ retrieved = <<>> /\ position = 0
    /\ pending = {} /\ results = {} /\ started = 0
    /\ pc = "idle" /\ search = 0 /\ verifications = 0

Key(i) == IF i \in read THEN Canonical[i.page] ELSE i.page

Matches(c, i) == TitleScore[c, i.page, i \in read]

Relevance(c, i) == (3 * Matches(c, i) + BodyScore[c, i.page]) \div 4

\* Of what is found by its title only.
SiteRelevance(c, i) == TitleScore[c, i.page, TRUE]

\* The arrangements of a set of items by falling score, and their beginnings.
Ranked(items, s) ==
    {q \in SetToSeqs(items) : \A j, k \in 1 .. Len(q) : j < k => s[q[j]] >= s[q[k]]}

First(q, n) == SubSeq(q, 1, IF Len(q) < n THEN Len(q) ELSE n)

------------------------------------------------------------------------------
StartVerification ==
    /\ pc = "idle" /\ verifications < MaxVerifications
    /\ \E n \in 1 .. MaxClaims : \E cs \in [1 .. n -> Claim] :
            IsInjective(cs) /\ claims' = cs
    /\ pc' = "retrieve" /\ verifications' = verifications + 1
    /\ retrieved' = <<>> /\ position' = 0
    /\ UNCHANGED <<now, cache, read, score, pending, results, search, started>>

\* Whether _fetch_feed answers from the cache.
Fresh(f) == cache[f].at >= 0 /\ now - cache[f].at < TTL

\* RSSFeedProvider.search: all feeds at once; what is cached answers at once.
StartSearch ==
    /\ pc = "retrieve" /\ claims # <<>>
    /\ LET feeds == FeedsOf[Head(claims)]
           cached == {f \in feeds : Fresh(f)}
       IN  /\ pending' = feeds \ cached
           /\ results' = UNION {cache[f].items : f \in cached}
           /\ started' = now
    /\ search' = search + 1
    /\ pc' = "feeds"
    /\ UNCHANGED <<now, cache, read, score, claims, retrieved, position, verifications>>

\* The feed answers; of an answer that is cut off, or no feed at all, the parser
\* makes fewer items or none, and that is kept like any other.
FeedAnswers(f) ==
    /\ f \in pending
    /\ pending' = pending \ {f}
    /\ \E parsed \in SUBSET Entries[f] :
         LET items == [from : {f}, page : parsed, search : {search}, at : {now}]
         IN  /\ cache' = [cache EXCEPT ![f] = [at |-> now, items |-> items]]
             /\ results' = results \cup items
    /\ UNCHANGED <<now, read, score, claims, retrieved, position, pc, verifications, search, started>>

\* Fault: what is in the cache is better than nothing.
FeedFails_stale(f) ==
    /\ f \in pending
    /\ pending' = pending \ {f}
    /\ results' = results \cup cache[f].items
    /\ UNCHANGED <<now, cache, read, score, claims, retrieved, position,
                   pc, verifications, search, started>>

\* An error or a timeout: nothing, and the cache is left as it is.
FeedFails(f) ==
    /\ f \in pending
    /\ pending' = pending \ {f}
    /\ UNCHANGED <<now, cache, read, score, claims, retrieved, position, results,
                   pc, verifications, search, started>>

\* Fault: an item that has a score already is not scored again.
Scored_once(c) ==
    [i \in DOMAIN score \cup results |->
        IF i \in DOMAIN score THEN score[i] ELSE Relevance(c, i)]

\* Every item that has come in gets a score, also those whose title then
\* disqualifies them.
Scored(c) ==
    [i \in DOMAIN score \cup results |-> IF i \in results THEN Relevance(c, i) ELSE score[i]]

RankFeeds ==
    LET c == Head(claims)
        s == Scored(c)
        matching == {i \in results : Matches(c, i) >= MinTitle /\ s[i] > 0}
    IN  /\ pc = "feeds" /\ pending = {}
        /\ score' = s
        /\ \E q \in Ranked(matching, s) : results' = ToSet(First(q, Limit))
        /\ pc' = "site"
        /\ UNCHANGED <<now, cache, read, claims, retrieved, position, pending,
                       verifications, search, started>>

\* deduplicate_candidates: of the items with one key, one with the best score.
\* (It sorts them; what is then left out leaves the order as it is.)
Deduplicated(items, s) ==
    {best \in SUBSET items :
        \A i \in items : \E b \in best :
            /\ s[b] >= s[i]
            /\ {j \in best : Key(j) = Key(i)} = {b}}

\* SiteSearchProvider.search, which may find anything or fail, and the rest of
\* stage_retrieving_evidence for this claim.
SearchSites ==
    LET c == Head(claims)
    IN  /\ pc = "site"
        /\ \E pages \in SUBSET Archive :
             LET found == {i \in [from : {Site}, page : pages, search : {search}, at : {now}] :
                                SiteRelevance(c, i) > 0}
                 s == [i \in DOMAIN score \cup found |->
                            IF i \in found THEN SiteRelevance(c, i) ELSE score[i]]
             IN  /\ score' = s
                 /\ \E hits \in Ranked(found, s) :
                    \E best \in Deduplicated(results \cup ToSet(First(hits, Limit)), s) :
                    \E q \in Ranked({i \in best : s[i] >= MinScore}, s) :
                        retrieved' = Append(retrieved,
                            [claim |-> c, items |-> q, seen |-> read \cap best])
        /\ claims' = Tail(claims)
        /\ pc' = IF Len(claims) = 1 THEN "extract" ELSE "retrieve"
        /\ results' = {}
        /\ UNCHANGED <<now, cache, read, position, pending, verifications, search, started>>

\* Fault: the list is sorted again, by the scores that the items have now.
ToFetch_sorted(entry) ==
    First(CHOOSE q \in Ranked(ToSet(entry.items), score) : TRUE, MaxFetches)

\* The items that build_evidence_for_claim reads, in its order.
ToFetch(entry) == First(entry.items, MaxFetches)

\* The article behind the next item is fetched, or not.
ReadArticle ==
    /\ pc = "extract" /\ retrieved # <<>>
    /\ position < Len(ToFetch(Head(retrieved)))
    /\ position' = position + 1
    /\ \/ read' = read \cup {ToFetch(Head(retrieved))[position + 1]}
       \/ UNCHANGED read
    /\ UNCHANGED <<now, cache, score, claims, retrieved, pending, results,
                   pc, verifications, search, started>>

\* The claim's articles have been read; after the last claim's the context is
\* gone, and of the items only what the cache holds.
EndClaim ==
    LET kept == UNION {cache[f].items : f \in Feed}
    IN  /\ pc = "extract"
        /\ retrieved = <<>> \/ position = Len(ToFetch(Head(retrieved)))
        /\ IF Len(retrieved) > 1
           THEN retrieved' = Tail(retrieved) /\ UNCHANGED <<read, score, pc>>
           ELSE /\ retrieved' = <<>> /\ pc' = "idle"
                /\ read' = read \cap kept
                /\ score' = [i \in DOMAIN score \cap kept |-> score[i]]
        /\ position' = 0
        /\ UNCHANGED <<now, cache, claims, pending, results, verifications, search, started>>

Tick ==
    /\ now < MaxTime
    /\ now' = now + 1
    /\ UNCHANGED <<cache, read, score, claims, retrieved, position, pending, results,
                   pc, verifications, search, started>>

Next ==
    \/ StartVerification \/ StartSearch
    \/ \E f \in Feed : FeedAnswers(f) \/ FeedFails(f)
    \/ RankFeeds \/ SearchSites \/ ReadArticle \/ EndClaim \/ Tick

Spec == Init /\ [][Next]_vars

------------------------------------------------------------------------------
TypeOK ==
    /\ now \in 0 .. MaxTime
    /\ cache \in [Feed -> [at : -1 .. now, items : SUBSET Item]]
    /\ read \subseteq Item /\ DOMAIN score \subseteq Item
    /\ claims \in Seq(Claim)
    /\ \A k \in 1 .. Len(retrieved) :
            retrieved[k].claim \in Claim /\ ToSet(retrieved[k].items) \subseteq Item
    /\ position \in 0 .. MaxFetches
    /\ pending \subseteq Feed /\ results \subseteq Item
    /\ pc \in {"idle", "retrieve", "feeds", "site", "extract"}
    /\ search \in Nat /\ verifications \in 0 .. MaxVerifications /\ started \in 0 .. now

\* What an item was worth to a claim when it was found for it.
Worth(entry, i) ==
    LET title == TitleScore[entry.claim, i.page, i \in entry.seen]
    IN  IF i.from = Site THEN SiteRelevance(entry.claim, i)
        ELSE (3 * title + BodyScore[entry.claim, i.page]) \div 4

\* The articles read for a claim are those that were most relevant to it,
\* and relevant at all, although the searches for other claims have written
\* other scores into the same items by then, and articles other titles.
MostRelevantAreRead ==
    \A k \in 1 .. Len(retrieved) :
        LET entry == retrieved[k]
            chosen == ToSet(ToFetch(entry))
        IN  \A i \in chosen :
                /\ Worth(entry, i) >= MinScore
                /\ \A j \in ToSet(entry.items) \ chosen : Worth(entry, i) >= Worth(entry, j)

\* No search works with what a feed said TTL or longer before it began, even if
\* the feed fails now.
ResultsAreFresh ==
    \A i \in results : started - i.at < TTL

\* Before articles are fetched, "Same canonical URL is the same document"
\* (pipeline_ops.py:135): no page is read twice for a claim.
NoPageReadTwice ==
    \A k \in 1 .. Len(retrieved) :
        LET q == ToFetch(retrieved[k])
        IN  \A m, n \in 1 .. Len(q) : m # n => q[m].page # q[n].page
==============================================================================
