------------------------------ MODULE MCVoting ------------------------------
(***************************************************************************)
(* Small instances of Voting.  The household: u1 with two tabs, one at     *)
(* home and one on the road, and a guest at home behind the same address.  *)
(* The strangers: two voters and a guest who share nothing.                *)
(***************************************************************************)
EXTENDS Voting, TLC

CONSTANTS s1, s2, g, u1, u2, home, road, cafe

AllUsers == {u1, u2}
AllIps   == {home, road, cafe}

Household     == {s1, s2, g}
HouseholdUser == s1 :> u1 @@ s2 :> u1 @@ g :> Guest
HouseholdIp   == s1 :> home @@ s2 :> road @@ g :> home

Strangers     == {s1, g}
StrangersUser == s1 :> u1 @@ g :> Guest
StrangersIp   == s1 :> home @@ g :> cafe

InsideFaults == Statements \ {"begin"}
AnyFault     == Statements

ConnSymmetry == Permutations(Conns)
=============================================================================
