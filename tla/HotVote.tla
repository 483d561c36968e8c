------------------------------ MODULE HotVote -------------------------------
(***************************************************************************)
(* The room of a poll and the push service together: the handler that has  *)
(* told the room of exactly Hot votes awaits sendAllNotifications, while   *)
(* browsers register and drop their subscriptions.                         *)
(***************************************************************************)
EXTENDS VoteRoom, PushClients

ASSUME OneAnnouncerPerVoter == Announcers = Voters

allvars == <<roomvars, pushvars>>

HotInit == RoomInit /\ PushInit

\* Mutation: the announcement is sent from Hot votes on.
RingFromHot(v) ==
  /\ Total(tally[v]) >= Hot /\ Broadcast(v) /\ Go(v, "ring")
  /\ UNCHANGED boxvars
  /\ Announce(v)

\* Nothing is awaited between the broadcast and the call of
\* sendAllNotifications.
Ring(v) == TellHot(v) /\ Announce(v)

RingEnds(v) == Finish(v) /\ EndRing(v)

\* find() of the clients is rejected: the voter gets an error.
RingFails(v) ==
  /\ spc[v] = "find" /\ faults < MaxFaults
  /\ faults' = faults + 1
  /\ spc' = [spc EXCEPT ![v] = "idle"]
  /\ EndRing(v)
  /\ UNCHANGED <<tables, dead, regvars, batch, gone, told, registered, clashed, regs, rounds>>

Sending(v) == FindAll(v) \/ Deliver(v) \/ DeliverFails(v) \/ Cleanup(v)

HotNext ==
  \/ \E v \in Voters : RoomStep(v) /\ UNCHANGED pushvars
  \/ \E p \in Pages : PageStep(p) /\ UNCHANGED pushvars
  \/ Follow /\ UNCHANGED pushvars
  \/ \E v \in Voters : Ring(v) \/ RingEnds(v) \/ RingFails(v)
  \/ \E v \in Voters : Sending(v) /\ UNCHANGED roomvars
  \/ \E r \in Handlers : RegStep(r) /\ UNCHANGED roomvars
  \/ \E r \in Handlers, u \in Accounts, e \in Endpoints : Register(r, u, e) /\ UNCHANGED roomvars
  \/ \E e \in Endpoints : Unsubscribe(e) /\ UNCHANGED roomvars
  \/ ShipClients /\ UNCHANGED roomvars

HotSpec == HotInit /\ [][HotNext]_allvars

-----------------------------------------------------------------------------
\* Once nobody votes, as many announcements have begun as clicks left the poll
\* with exactly Hot ballots, unless a count was read from a slave that lagged,
\* failed, or saw a ballot cast after the handler's own (then the count may
\* pass Hot unannounced, or be announced twice).
AnnouncedWhenHot ==
  AtRest /\ slips \cap {"lag", "crowd", "failure", "silent"} = {} => rounds = hot

-----------------------------------------------------------------------------
(* Why this holds, in an inductive form.                                   *)

\* Handlers about to announce.
Ringing == {v \in Telling : Total(tally[v]) = Hot}

\* Unless something slipped, one ballot is cast and counted at a time, and every
\* cast that left the poll hot has been announced, is about to be, or is about
\* to be counted.
HotCastsRing ==
  slips \cap {"lag", "crowd", "failure", "silent"} = {} =>
    /\ \A u, v \in Counting : u = v
    /\ hot = rounds + Cardinality(Ringing)
             + (IF Counting # {} /\ Total(Count(ballot)) = Hot THEN 1 ELSE 0)

HotInv ==
  /\ RoomTypeOK /\ JoinedBeforeAsking /\ CastsAreClicks /\ CountsInOrder
  /\ rounds \in Nat /\ HotCastsRing
=============================================================================
