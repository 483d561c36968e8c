----------------------------- MODULE MCHotVote ------------------------------
(***************************************************************************)
(* A small instance of HotVote: two voters, one page, one browser, a poll  *)
(* that is hot with one ballot.                                            *)
(***************************************************************************)
EXTENDS HotVote, TLC

CONSTANTS v1, v2, p1, r1, u1, e1

Alike == Permutations({v1, v2})
=============================================================================
