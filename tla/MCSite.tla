------------------------------- MODULE MCSite -------------------------------
(***************************************************************************)
(* A small instance of Site: ann with two tabs and a visitor, two requests *)
(* in flight for one account, two servers that rebuild the halls.  What    *)
(* the operators of Pages compute is checked over small lists.             *)
(***************************************************************************)
EXTENDS Site, Pages

CONSTANTS a1, a2, v, ann, j1, j2, s1, s2, p1, p2

LoggedIn == a1 :> ann @@ a2 :> ann @@ v :> Guest

\* Tabs of one account, servers and polls: nothing of Accounts, so that the
\* symmetry is sound for its liveness property.
SiteSymmetry ==
  Permutations({a1, a2}) \cup Permutations({s1, s2}) \cup Permutations({p1, p2})

\* The bar of a board shows the current page, with at most ten others.
ASSUME BoardBarHoldsPage ==
  \A pages \in 1..120 : \A page \in 1..pages :
    page \in BoardBar(page, pages) /\ Cardinality(BoardBar(page, pages)) <= 10

\* The bar of a hall shows the current page in the first tenth of each block
\* of a hundred only, and never the pages after it.
ASSUME HallBarLosesPage ==
  \A pages \in 1..120 : \A page \in 1..pages :
    page \in HallBar(page, pages) <=> (page - 1) % 100 < 10

\* Paging through a list shows every row once, and in descending order where
\* its totals are numbers.
ASSUME PagesPartitionList ==
  \A totals \in SUBSET {9, 10, 11, 99, 100, 999, 1000} : \A limit \in 1..3 :
    LET pages == PageCount(Cardinality(totals), limit)
        shown == [p \in 1..pages |-> HallPage("int", totals, p, limit)]
    IN  /\ UNION {Range(shown[p]) : p \in 1..pages} = totals
        /\ \A p, q \in 1..pages : p < q =>
             \A n \in Range(shown[p]), m \in Range(shown[q]) : n > m

\* As text, a poll with 999 votes is ranked above one with a thousand.
ASSUME TextMisranks ==
  /\ HallPage("text", {1000, 999}, 1, 1)[1] = 999
  /\ HallPage("text", {1000, 101}, 1, 1)[1] = 101

\* The entries of the humor halls, and no others, go by another hall's name.
ASSUME OnlyHumorMisnamed == Misnamed = {"humor"}
=============================================================================
