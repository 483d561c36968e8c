------------------------------ MODULE MCLikes -------------------------------
(***************************************************************************)
(* A small instance of Likes: two accounts, one of them with two tabs, and *)
(* a visitor without an account.                                           *)
(***************************************************************************)
EXTENDS Likes, TLC

CONSTANTS tab1, tab2, other, visitor, u1, u2

AllSessions == {tab1, tab2, other, visitor}
Accounts    == {u1, u2}
Account     == tab1 :> u1 @@ tab2 :> u1 @@ other :> u2 @@ visitor :> Guest
=============================================================================
