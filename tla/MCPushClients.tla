--------------------------- MODULE MCPushClients ----------------------------
(***************************************************************************)
(* A small instance of PushClients: two browsers, two accounts, two        *)
(* registrations at once and one announcement.                             *)
(***************************************************************************)
EXTENDS PushClients, TLC

CONSTANTS r1, r2, a1, u1, u2, e1, e2

Alike == Permutations({r1, r2}) \cup Permutations({u1, u2}) \cup Permutations({e1, e2})
=============================================================================
