-------------------------------- MODULE Site --------------------------------
(***************************************************************************)
(* Three parts of the web site that share no state beyond the connection   *)
(* to the database: a post on a board with its comment and view counter    *)
(* (Boards), an account with its cache (Accounts), and the weekly rebuild  *)
(* of the halls of fame (HallOfFame).  A behaviour is of one part, chosen  *)
(* at its start, so that one run explores their sum and not their product. *)
(***************************************************************************)
EXTENDS Boards, Accounts, HallOfFame

VARIABLE part  \* the part this behaviour is of

siteVars == <<part, boardsVars, accountsVars, hallVars>>

\* A part that was not chosen has one board of its kind, and stays as it is.
SiteInit ==
  /\ part \in {"boards", "accounts", "halls"}
  /\ BoardsInit /\ (part # "boards" => kind = "online")
  /\ AccountsInit
  /\ HallInit /\ (part # "halls" => board = "online")

BoardsPart ==
  /\ part = "boards" /\ BoardsNext
  /\ UNCHANGED <<part, accountsVars, hallVars>>

AccountsPart ==
  /\ part = "accounts" /\ AccountsNext
  /\ UNCHANGED <<part, boardsVars, hallVars>>

HallsPart ==
  /\ part = "halls" /\ HallNext
  /\ UNCHANGED <<part, boardsVars, accountsVars>>

SiteNext == BoardsPart \/ AccountsPart \/ HallsPart

SiteSpec == SiteInit /\ [][SiteNext]_siteVars /\ AccountsFairness

SiteTypeOK == BoardsTypeOK /\ AccountsTypeOK /\ HallTypeOK

=============================================================================
