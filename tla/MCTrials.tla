------------------------------ MODULE MCTrials ------------------------------
(***************************************************************************)
(* Small instances of Trials: which requests are made, and nothing else.   *)
(***************************************************************************)
EXTENDS Trials, TLC

CONSTANTS h1, h2

TwoHandlers == {h1, h2}
HandlerSymmetry == Permutations(TwoHandlers)

LifeOps   == {"create", "delete"}
EditOps   == {"create", "edit"}
SubjectOps == {"create", "subject"}
OnlyCreate == {"create"}
=============================================================================
