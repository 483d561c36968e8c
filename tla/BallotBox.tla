----------------------------- MODULE BallotBox ------------------------------
(***************************************************************************)
(* What the voting of a poll promises one voter who waits for each answer  *)
(* before the next click (validationAndSaveVote, canselEachVote): a click  *)
(* on a side casts that side, a click on the side already cast withdraws   *)
(* it, an error changes nothing more than the click would have, and every  *)
(* click is answered.  Whoever the DELETE route of the humor and political *)
(* boards admits may withdraw a ballot, its own or anyone else's.          *)
(***************************************************************************)
CONSTANTS
  Voters,
  Cancellers  \* who may cancel over HTTP: the accounts, nobody on the trial board

ASSUME CancellersAssumption == Cancellers \subseteq Voters

VARIABLES
  ballot,  \* the side each voter has on the poll, or "none"
  want     \* what a voter has clicked: a side, "retract"; then "reply"

vars == <<ballot, want>>

Sides == {"for", "against"}

Init ==
  /\ ballot = [v \in Voters |-> "none"]
  /\ want = [v \in Voters |-> "nothing"]

\* One value replaced in a function of voters.
Set(f, v, x) == [f EXCEPT ![v] = x]

Click(v, x) ==
  /\ want[v] = "nothing" /\ (x = "retract" => v \in Cancellers)
  /\ want' = Set(want, v, x)
  /\ UNCHANGED ballot

\* The side a click leaves behind.
Toggled(v) == IF want[v] = ballot[v] THEN "none" ELSE want[v]

Apply(v) ==
  /\ want[v] \in Sides
  /\ ballot' = Set(ballot, v, Toggled(v))
  /\ want' = Set(want, v, "reply")

\* The route deletes the ballot it was given, whosever it is.
Withdraw(v, u) ==
  /\ want[v] = "retract"
  /\ ballot' = Set(ballot, u, "none")
  /\ want' = Set(want, v, "reply")

\* An error before the click took effect.
Abort(v) ==
  /\ want[v] \in Sides \cup {"retract"}
  /\ want' = Set(want, v, "reply")
  /\ UNCHANGED ballot

Reply(v) ==
  /\ want[v] = "reply"
  /\ want' = Set(want, v, "nothing")
  /\ UNCHANGED ballot

\* A click the service could not even start on (no transaction).
Refuse(v) ==
  /\ want[v] \in Sides
  /\ want' = Set(want, v, "nothing")
  /\ UNCHANGED ballot

Serve(v) ==
  Apply(v) \/ (\E u \in Voters : Withdraw(v, u)) \/ Abort(v) \/ Reply(v) \/ Refuse(v)

Next == \E v \in Voters : (\E x \in Sides \cup {"retract"} : Click(v, x)) \/ Serve(v)

Spec == Init /\ [][Next]_vars /\ \A v \in Voters : WF_vars(Serve(v))
=============================================================================
