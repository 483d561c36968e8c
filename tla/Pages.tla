-------------------------------- MODULE Pages -------------------------------
(***************************************************************************)
(* What a visitor sees of a list: the rows of one page, the bar of page    *)
(* numbers below it, and the order of a hall of fame.                      *)
(*                                                                         *)
(* Pure: a list is the set of its rows, each with the number it is ordered *)
(* by; a request names a page and a limit (1..100, checked by its DTO).    *)
(***************************************************************************)
EXTENDS Naturals, Sequences, FiniteSets, SequencesExt

\* Pages needed for total rows: Math.ceil(totalItems / limit).
PageCount(total, limit) == (total + limit - 1) \div limit

\* The numbers a bar shows, which starts with page start.
Bar(start, pages) ==
  start..(IF start + 9 > pages THEN pages ELSE start + 9)

\* The bar of the trial, humor, political and free boards.
BoardBar(page, pages) == Bar(((page - 1) \div 10) * 10 + 1, pages)

\* The bar of the halls of fame: blocks of a hundred pages, bars of ten.
HallBar(page, pages) == Bar(((page - 1) \div 100) * 100 + 1, pages)

\* The places in the ordered list that page shows: skip and take.
Slots(page, limit) == ((page - 1) * limit + 1)..(page * limit)

-----------------------------------------------------------------------------
(* The halls.  A list is ordered by its total, descending; the totals of   *)
(* the humor and political halls are varchar columns and compare as text.  *)

TrialHallLists     == [votes |-> "int", likes |-> "int", views |-> "int"]
HumorHallLists     == [votes |-> "text", likes |-> "text", views |-> "text"]
PoliticalHallLists == [votes |-> "text", views |-> "text"]
OnlineHallLists    == [likes |-> "int", views |-> "int"]

Digits(n) == CHOOSE k \in 1..6 : n < 10^k /\ (k > 1 => n >= 10^(k - 1))

\* n as text comes before m in descending order.
TextAfter(n, m) ==
  LET scaled(i) == i * 10^(6 - Digits(i))
  IN  \/ scaled(n) > scaled(m)
      \/ scaled(n) = scaled(m) /\ Digits(n) > Digits(m)

Precedes(type, n, m) == IF type = "int" THEN n > m ELSE TextAfter(n, m)

\* The totals that page of a hall shows, of a set of totals.
HallPage(type, totals, page, limit) ==
  LET ordered == SetToSortSeq(totals, LAMBDA n, m : Precedes(type, n, m))
  IN  [i \in Slots(page, limit) \cap DOMAIN ordered |-> ordered[i]]

(* The name each page of a hall passes to its template, which builds the   *)
(* page's links from it: lists first, then single entries.                 *)

TrialHallPages ==
  [votes |-> "trialsHallofFameVotes", likes |-> "trialsHallofFameLikes",
   views |-> "trialsHallofFameViews"]

HumorHallPages ==
  [votes |-> "humorsHallofFameVotes", likes |-> "humorsHallofFameLikes",
   views |-> "humorsHallofFameViews"]

PoliticalHallPages ==
  [votes |-> "polticalHallofFameVotes", views |-> "polticalHallofFameViews"]

OnlineHallPages ==
  [likes |-> "onlineBoardHallofFameLikes",
   views |-> "onlineBoardHallofFameViews"]

TrialHallEntries ==
  [votes |-> "trialsHallofFameVotes", likes |-> "trialsHallofFameLikes",
   views |-> "trialsHallofFameViews"]

\* An entry of a humor hall is served under the names of the trial halls.
HumorHallEntries ==
  [votes |-> "trialsHallofFameVotes", likes |-> "trialsHallofFameLikes",
   views |-> "trialsHallofFameViews"]

PoliticalHallEntries ==
  [votes |-> "polticalHallofFameVotes", views |-> "polticalHallofFameViews"]

OnlineHallEntries ==
  [likes |-> "onlineBoardHallofFameLikes",
   views |-> "onlineBoardHallofFameViews"]

Halls ==
  [trial     |-> [lists |-> TrialHallLists, pages |-> TrialHallPages,
                  entries |-> TrialHallEntries],
   humor     |-> [lists |-> HumorHallLists, pages |-> HumorHallPages,
                  entries |-> HumorHallEntries],
   political |-> [lists |-> PoliticalHallLists, pages |-> PoliticalHallPages,
                  entries |-> PoliticalHallEntries],
   online    |-> [lists |-> OnlineHallLists, pages |-> OnlineHallPages,
                  entries |-> OnlineHallEntries]]

\* Boards whose entries link to another board's hall.
Misnamed == {k \in DOMAIN Halls : Halls[k].entries # Halls[k].pages}

=============================================================================
