------------------------------ MODULE MCSignUp ------------------------------
(***************************************************************************)
(* A small instance of SignUp: two requests in flight, two connections.    *)
(***************************************************************************)
EXTENDS SignUp, TLC

CONSTANTS h1, h2, k1, k2

Symmetric == Permutations({h1, h2}) \cup Permutations({k1, k2})
=============================================================================
