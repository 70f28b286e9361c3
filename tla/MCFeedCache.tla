---------------------------- MODULE MCFeedCache ----------------------------
(* Two feeds; a page of the one that a site's search finds as well; a page whose own title says more
   than its feed's, and one whose own says less, and which calls itself by the
   URL of another; two claims that rank the pages in opposite orders. *)
EXTENDS FeedCache

MCEntries == [f1 |-> {"p1", "p2"}, f2 |-> {"p3"}]
MCFeedsOf == [c1 |-> {"f1", "f2"}, c2 |-> {"f1"}]
MCCanonical == [p1 |-> "p1", p2 |-> "p3", p3 |-> "p3"]

MCTitleScore ==
    [c \in Claim, p \in Page, own \in BOOLEAN |->
        CASE c = "c1" /\ p = "p1" -> 60
          [] c = "c1" /\ p = "p2" -> IF own THEN 10 ELSE 40
          [] c = "c2" /\ p = "p1" -> IF own THEN 30 ELSE 12
          [] c = "c2" /\ p = "p2" -> 80
          [] c = "c1" /\ p = "p3" -> 20
          [] OTHER -> 16]

MCBodyScore == [c \in Claim, p \in Page |-> IF c = "c2" /\ p = "p1" THEN 0 ELSE 50]
==============================================================================
