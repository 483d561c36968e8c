----------------------------- MODULE RoomProofs -----------------------------
(***************************************************************************)
(* Theorems about VoteRoom and HotVote, for any number of voters, pages,   *)
(* browsers and announcements and every value of Hot.  The argument        *)
(* (HotInv): a delivery overtakes all that has been counted and not        *)
(* delivered, so unless something is about to slip, at most one count is   *)
(* underway when every ballot has been counted, and it is the last.        *)
(***************************************************************************)
EXTENDS HotVote, PushProofs, FiniteSetTheorems

-----------------------------------------------------------------------------
(* Counting.                                                               *)

LEMMA VotersCounted ==
  ASSUME NEW A \in SUBSET Voters
  PROVE  /\ IsFiniteSet(A) /\ Cardinality(A) \in Nat
         /\ Cardinality(A) \in 0 .. Cardinality(Voters)
BY RoomAssumption, FS_Subset, FS_CardinalityType

LEMMA Fewer ==
  ASSUME NEW A \in SUBSET Voters, NEW B \in SUBSET Voters, A \subseteq B
  PROVE  Cardinality(A) <= Cardinality(B)
BY VotersCounted, FS_Subset

LEMMA WithoutOne ==
  ASSUME NEW A \in SUBSET Voters, NEW v \in A
  PROVE  Cardinality(A) = Cardinality(A \ {v}) + 1
<1>1. IsFiniteSet(A) /\ Cardinality(A) \in Nat
  BY VotersCounted
<1>2. Cardinality(A \ {v}) = Cardinality(A) - 1
  BY <1>1, FS_RemoveElement
<1>3. Cardinality(A \ {v}) \in Nat
  BY VotersCounted
<1> QED BY <1>1, <1>2, <1>3

LEMMA WithOne ==
  ASSUME NEW A \in SUBSET Voters, NEW v \in Voters \ A
  PROVE  Cardinality(A \cup {v}) = Cardinality(A) + 1
BY VotersCounted, FS_AddElement

LEMMA CountType == ASSUME NEW b PROVE Count(b) \in Counts
<1>1. \A x \in Sides : {v \in Voters : b[v] = x} \in SUBSET Voters
  OBVIOUS
<1>2. \A x \in Sides : Cardinality({v \in Voters : b[v] = x}) \in 0 .. Cardinality(Voters)
  BY <1>1, VotersCounted
<1> QED BY <1>2 DEF Count, Counts

LEMMA BlankType == Blank \in Counts
BY VotersCounted DEF Blank, Counts

LEMMA BlankCount ==
  ASSUME NEW b, \A v \in Voters : b[v] = "none" PROVE Count(b) = Blank
<1>1. \A x \in Sides : {v \in Voters : b[v] = x} = {}
  BY DEF Sides
<1> QED BY <1>1, FS_EmptySet DEF Count, Blank

-----------------------------------------------------------------------------
(* The steps.                                                              *)

\* What a step of the whole does to the room.
RoomMove ==
  \/ \E v \in Voters : RoomStep(v) \/ TellHot(v) \/ EndRing(v)
  \/ \E p \in Pages : PageStep(p)
  \/ Follow
  \/ UNCHANGED roomvars

LEMMA MovesOfRoom == [HotNext]_allvars => RoomMove
BY OneAnnouncerPerVoter
   DEF HotNext, allvars, RoomMove, Ring, RingEnds, RingFails

\* And to the number of announcements.
LEMMA RoundsOfMove ==
  ASSUME [HotNext]_allvars
  PROVE  \/ \E v \in Voters : TellHot(v) /\ rounds' = rounds + 1
         \/ /\ rounds' = rounds
            /\ \/ \E v \in Voters : RoomStep(v) \/ EndRing(v)
               \/ \E p \in Pages : PageStep(p)
               \/ Follow
               \/ UNCHANGED roomvars
<1>1. CASE \/ \E v \in Voters : RoomStep(v) /\ UNCHANGED pushvars
           \/ \E p \in Pages : PageStep(p) /\ UNCHANGED pushvars
           \/ Follow /\ UNCHANGED pushvars
           \/ UNCHANGED allvars
  BY <1>1 DEF pushvars, allvars
<1>2. CASE \E v \in Voters : Ring(v) \/ RingEnds(v) \/ RingFails(v)
  BY <1>2 DEF Ring, RingEnds, RingFails, Announce, Finish
<1>3. CASE \E v \in Voters : Sending(v) /\ UNCHANGED roomvars
  BY <1>3 DEF Sending, FindAll, Deliver, DeliverFails, Cleanup
<1>4. CASE \/ \E r \in Handlers : RegStep(r) /\ UNCHANGED roomvars
           \/ \E r \in Handlers, u \in Accounts, e \in Endpoints :
                Register(r, u, e) /\ UNCHANGED roomvars
  BY <1>4 DEF RegStep, FindClient, Purge, InsertClient, ReloadClient, UpdateClient,
              ReinsertClient, RegisterFails, Register
<1>5. CASE \/ \E e \in Endpoints : Unsubscribe(e) /\ UNCHANGED roomvars
           \/ ShipClients /\ UNCHANGED roomvars
  BY <1>5 DEF Unsubscribe, ShipClients
<1> QED BY <1>1, <1>2, <1>3, <1>4, <1>5 DEF HotNext

\* Ballots on the master and on the slave, and what the voters want.
LEMMA BallotTypes ==
  ASSUME RoomTypeOK, RoomMove
  PROVE  /\ ballot' \in [Voters -> Sides \cup {"none"}]
         /\ want' \in [Voters -> Sides \cup {"nothing", "retract", "reply"}]
         /\ copy' \in [Voters -> Sides \cup {"none"}]
         /\ feed' \in Seq([Voters -> Sides \cup {"none"}])
<1> DEFINE Ballots == [Voters -> Sides \cup {"none"}]
           Goal == /\ ballot' \in Ballots
                   /\ want' \in [Voters -> Sides \cup {"nothing", "retract", "reply"}]
                   /\ copy' \in Ballots /\ feed' \in Seq(Ballots)
<1>0. /\ ballot \in Ballots /\ copy \in Ballots /\ feed \in Seq(Ballots)
      /\ want \in [Voters -> Sides \cup {"nothing", "retract", "reply"}]
  BY DEF RoomTypeOK
<1>1. ASSUME NEW v \in Voters, Cast(v) \/ Retract(v) PROVE Goal
  <2>1. (Apply(v) \/ \E u \in Voters : Withdraw(v, u)) /\ Commit
    BY <1>1 DEF Cast, Retract
  <2>2. ballot' \in Ballots /\ want' \in [Voters -> Sides \cup {"nothing", "retract", "reply"}]
    <3>1. CASE Apply(v)
      BY <1>0, <3>1 DEF Apply, Set, Toggled
    <3>2. ASSUME NEW u \in Voters, Withdraw(v, u)
          PROVE  /\ ballot' \in Ballots
                 /\ want' \in [Voters -> Sides \cup {"nothing", "retract", "reply"}]
      BY <1>0, <3>2 DEF Withdraw, Set
    <3> QED BY <2>1, <3>1, <3>2
  <2>3. copy' \in Ballots /\ feed' \in Seq(Ballots)
    <3> HIDE DEF Ballots
    <3> QED BY <1>0, <2>1, <2>2 DEF Commit
  <2> QED BY <2>2, <2>3
<1>2. ASSUME Follow PROVE Goal
  <2>1. copy' \in Ballots /\ feed' \in Seq(Ballots)
    <3> HIDE DEF Ballots
    <3> QED BY <1>0, <1>2 DEF Follow
  <2> QED BY <1>0, <1>2, <2>1 DEF Follow, boxvars
<1>3. ASSUME NEW v \in Voters,
             \/ \E x \in Sides \cup {"retract"} : ClickRoom(v, x)
             \/ CastFails(v) \/ CountBallots(v) \/ CountFails(v) \/ Tell(v)
             \/ Answered(v) \/ TellHot(v) \/ EndRing(v)
      PROVE  Goal
  <2>1. UNCHANGED <<ballot, copy, feed>>
    BY <1>3 DEF ClickRoom, Click, CastFails, Abort, CountBallots, CountFails, Tell, Broadcast,
                Leave, Reply, Answered, TellHot, EndRing, boxvars
  <2>2. want' \in [Voters -> Sides \cup {"nothing", "retract", "reply"}]
    BY <1>0, <1>3 DEF ClickRoom, Click, CastFails, Abort, CountBallots, CountFails, Tell,
                Broadcast, Leave, Reply, Answered, TellHot, EndRing, boxvars, Set
  <2> QED BY <1>0, <2>1, <2>2
<1>4. ASSUME \/ \E p \in Pages : PageStep(p)
             \/ UNCHANGED roomvars
      PROVE  Goal
  <2>1. UNCHANGED <<ballot, want, copy, feed>>
    BY <1>4 DEF PageStep, Open, CountForPage, Show, ShowFails, roomvars, boxvars
  <2> QED BY <1>0, <2>1
<1>5. Goal
  <2> HIDE DEF Goal
  <2> QED BY <1>1, <1>2, <1>3, <1>4 DEF RoomMove, RoomStep
<1> QED BY <1>5

\* Where handlers and pages stand.
LEMMA LabelTypes ==
  ASSUME RoomTypeOK, JoinedBeforeAsking, RoomMove
  PROVE  /\ step' \in [Voters -> {"idle", "count", "tell", "ring"}]
         /\ \A v \in Voters : step'[v] # "idle" => want'[v] = "reply"
         /\ room' \subseteq Pages
         /\ pstep' \in [Pages -> {"away", "ask", "answer", "shown"}]
         /\ JoinedBeforeAsking'
<1> DEFINE Labels == {"idle", "count", "tell", "ring"}
           Places == {"away", "ask", "answer", "shown"}
           Goal == /\ step' \in [Voters -> Labels]
                   /\ \A v \in Voters : step'[v] # "idle" => want'[v] = "reply"
                   /\ room' \subseteq Pages /\ pstep' \in [Pages -> Places]
                   /\ room' = {p \in Pages : pstep'[p] # "away"}
<1>0. /\ step \in [Voters -> Labels]
      /\ want \in [Voters -> Sides \cup {"nothing", "retract", "reply"}]
      /\ \A v \in Voters : step[v] # "idle" => want[v] = "reply"
      /\ room \subseteq Pages /\ pstep \in [Pages -> Places]
      /\ room = {p \in Pages : pstep[p] # "away"}
  BY DEF RoomTypeOK, JoinedBeforeAsking
<1>1. ASSUME NEW v \in Voters, RoomStep(v) \/ TellHot(v) \/ EndRing(v) PROVE Goal
  <2>1. UNCHANGED pages
    BY <1>1 DEF RoomStep, ClickRoom, Cast, Retract, CastFails, CountBallots, CountFails, Tell,
                Answered, TellHot, EndRing, Broadcast
  <2>2. \A u \in Voters \ {v} : step'[u] = step[u] /\ want'[u] = want[u]
    BY <1>0, <1>1 DEF RoomStep, ClickRoom, Cast, Retract, CastFails, CountBallots, CountFails,
                Tell, Answered, TellHot, EndRing, Broadcast, Leave, Go, Set, Click, Apply,
                Withdraw, Abort, Reply, boxvars
  <2>3. step' \in [Voters -> Labels] /\ (step'[v] # "idle" => want'[v] = "reply")
    <3>1. CASE \/ \E x \in Sides \cup {"retract"} : ClickRoom(v, x)
               \/ Cast(v) \/ Retract(v) \/ CastFails(v)
      BY <1>0, <3>1 DEF ClickRoom, Cast, Retract, CastFails, Go, Set, Click, Apply, Withdraw, Abort,
                       Sides
    <3>2. CASE CountBallots(v) \/ TellHot(v)
      BY <1>0, <3>2 DEF CountBallots, TellHot, Broadcast, Go, Set, boxvars
    <3>3. CASE CountFails(v) \/ Tell(v) \/ Answered(v) \/ EndRing(v)
      BY <1>0, <3>3 DEF CountFails, Tell, Answered, EndRing, Leave, Go, Set
    <3> QED BY <1>1, <3>1, <3>2, <3>3 DEF RoomStep
  <2> QED BY <1>0, <2>1, <2>2, <2>3 DEF pages
<1>2. ASSUME NEW p \in Pages, PageStep(p) PROVE Goal
  BY <1>0, <1>2 DEF PageStep, Open, CountForPage, Show, ShowFails, Set, boxvars
<1>3. ASSUME Follow \/ UNCHANGED roomvars PROVE Goal
  BY <1>0, <1>3 DEF Follow, roomvars, boxvars, pages
<1>4. Goal
  <2> HIDE DEF Goal
  <2> QED BY <1>1, <1>2, <1>3 DEF RoomMove
<1> QED BY <1>4 DEF JoinedBeforeAsking

\* The counts that are held and shown.
LEMMA CountTypes ==
  ASSUME RoomTypeOK, RoomMove
  PROVE  tally' \in [Voters -> Counts] /\ {answer, screen}' \subseteq [Pages -> Counts]
<1> DEFINE Goal == /\ tally' \in [Voters -> Counts]
                   /\ answer' \in [Pages -> Counts] /\ screen' \in [Pages -> Counts]
<1>0. /\ tally \in [Voters -> Counts]
      /\ answer \in [Pages -> Counts] /\ screen \in [Pages -> Counts]
      /\ Count(copy) \in Counts /\ Blank \in Counts
  BY CountType, BlankType DEF RoomTypeOK
<1>1. ASSUME NEW v \in Voters, RoomStep(v) \/ TellHot(v) \/ EndRing(v) PROVE Goal
  <2>1. CASE CountBallots(v)
    BY <1>0, <2>1 DEF CountBallots, Set, pages
  <2>2. CASE Tell(v) \/ TellHot(v)
    BY <1>0, <2>2 DEF Tell, TellHot, Broadcast, Set, pages
  <2>3. CASE \/ \E x \in Sides \cup {"retract"} : ClickRoom(v, x)
             \/ Cast(v) \/ Retract(v) \/ CastFails(v) \/ CountFails(v) \/ Answered(v) \/ EndRing(v)
    BY <1>0, <2>3 DEF ClickRoom, Cast, Retract, CastFails, CountFails, Answered, EndRing, pages
  <2> QED BY <1>1, <2>1, <2>2, <2>3 DEF RoomStep
<1>2. ASSUME NEW p \in Pages, PageStep(p) PROVE Goal
  BY <1>0, <1>2 DEF PageStep, Open, CountForPage, Show, ShowFails, Set
<1>3. ASSUME Follow \/ UNCHANGED roomvars PROVE Goal
  BY <1>0, <1>3 DEF Follow, roomvars, pages
<1>4. Goal
  <2> HIDE DEF Goal
  <2> QED BY <1>1, <1>2, <1>3 DEF RoomMove
<1> QED BY <1>4

\* What has been overtaken has been counted and is still to be delivered, and
\* once overtaken it stays so until it slips.
LEMMA LateStep ==
  ASSUME RoomTypeOK, RoomMove
  PROVE  /\ late' \subseteq Pending'
         /\ late # {} => late' # {} \/ "overtaken" \in slips'
<1> DEFINE Goal == late' \subseteq Pending' /\ (late # {} => late' # {} \/ "overtaken" \in slips')
<1>0. /\ late \subseteq Pending
      /\ step \in [Voters -> {"idle", "count", "tell", "ring"}]
      /\ \A v \in Voters : step[v] # "idle" => want[v] = "reply"
      /\ pstep \in [Pages -> {"away", "ask", "answer", "shown"}]
  BY DEF RoomTypeOK
<1>a. ASSUME late' = late,
             \A u \in Voters : step[u] = "tell" => step'[u] = "tell",
             \A q \in Pages : pstep[q] = "answer" => pstep'[q] = "answer"
      PROVE  Goal
  BY <1>0, <1>a DEF Pending
<1>1. ASSUME NEW v \in Voters, Tell(v) \/ TellHot(v) PROVE Goal
  <2>1. /\ step[v] = "tell" /\ step' = [step EXCEPT ![v] = step'[v]] /\ step'[v] # "tell"
        /\ late' = Pending \ {<<"vote", v>>} /\ pstep' = pstep
        /\ <<"vote", v>> \in late => "overtaken" \in slips'
    BY <1>0, <1>1 DEF Tell, TellHot, Broadcast, Leave, Go, Set, pages, Slipped
  <2>2. late' \subseteq Pending'
    BY <1>0, <2>1 DEF Pending
  <2>3. <<"vote", v>> \notin late => late \subseteq late'
    BY <1>0, <2>1
  <2> QED BY <2>1, <2>2, <2>3
<1>2. ASSUME NEW p \in Pages, Show(p) PROVE Goal
  <2>1. /\ late' = late \ {<<"page", p>>} /\ step' = step
        /\ \A q \in Pages \ {p} : pstep'[q] = pstep[q]
        /\ <<"page", p>> \in late => "overtaken" \in slips'
    BY <1>0, <1>2 DEF Show, Set, Slipped
  <2> QED BY <1>0, <2>1 DEF Pending
<1>3. ASSUME NEW v \in Voters, RoomStep(v) \/ EndRing(v), ~Tell(v) PROVE Goal
  <2>1. late' = late /\ pstep' = pstep
    BY <1>3 DEF RoomStep, ClickRoom, Cast, Retract, CastFails, CountBallots, CountFails,
                Answered, EndRing, pages
  <2>2. \A u \in Voters : step[u] = "tell" => step'[u] = "tell"
    <3>1. CASE \/ \E x \in Sides \cup {"retract"} : ClickRoom(v, x)
               \/ Retract(v) \/ CastFails(v)
      BY <3>1 DEF ClickRoom, Retract, CastFails
    <3>2. CASE Cast(v) \/ CountBallots(v) \/ CountFails(v) \/ Answered(v) \/ EndRing(v)
      <4>1. step[v] # "tell" /\ step' = [step EXCEPT ![v] = step'[v]]
        BY <1>0, <3>2 DEF Cast, CountBallots, CountFails, Answered, EndRing, Apply, Leave, Go,
                          Set, Sides
      <4> QED BY <1>0, <4>1
    <3> QED BY <1>3, <3>1, <3>2 DEF RoomStep
  <2> QED BY <1>a, <2>1, <2>2
<1>4. ASSUME NEW p \in Pages, PageStep(p), ~Show(p) PROVE Goal
  <2>1. /\ late' = late /\ step' = step /\ pstep[p] # "answer"
        /\ \A q \in Pages \ {p} : pstep'[q] = pstep[q]
    BY <1>0, <1>4 DEF PageStep, Open, CountForPage, ShowFails, Set
  <2> QED BY <1>a, <2>1
<1>5. ASSUME Follow \/ UNCHANGED roomvars PROVE Goal
  BY <1>a, <1>5 DEF Follow, roomvars, pages
<1>6. Goal
  <2> HIDE DEF Goal
  <2> QED BY <1>1, <1>2, <1>3, <1>4, <1>5 DEF RoomMove
<1> QED BY <1>6

\* What has slipped is remembered.
LEMMA SlipsStep ==
  ASSUME RoomTypeOK, RoomMove PROVE slips' \subseteq Slips /\ slips \subseteq slips'
<1>0. slips \subseteq Slips
  BY DEF RoomTypeOK
<1>1. ASSUME NEW v \in Voters, RoomStep(v) \/ TellHot(v) \/ EndRing(v)
      PROVE  slips' \subseteq Slips /\ slips \subseteq slips'
  BY <1>0, <1>1 DEF RoomStep, ClickRoom, Cast, Retract, CastFails, CountBallots, CountFails, Tell,
     Answered, TellHot, EndRing, Broadcast, Slipped, Slips
<1>2. ASSUME NEW p \in Pages, PageStep(p)
      PROVE  slips' \subseteq Slips /\ slips \subseteq slips'
  BY <1>0, <1>2 DEF PageStep, Open, CountForPage, Show, ShowFails, Slipped, Slips
<1> QED BY <1>0, <1>1, <1>2 DEF RoomMove, Follow, roomvars

\* A click is cast once.
LEMMA ClicksStep ==
  ASSUME RoomTypeOK, CastsAreClicks, RoomMove
  PROVE  CastsAreClicks' /\ hot' \in 0 .. clicks' /\ clicks' \in 0 .. MaxClicks
<1> DEFINE Wants == {v \in Voters : want[v] \in Sides}
           Left == {v \in Voters : want'[v] \in Sides}
<1>0. /\ want \in [Voters -> Sides \cup {"nothing", "retract", "reply"}]
      /\ clicks \in 0 .. MaxClicks /\ MaxClicks \in Nat /\ hot \in 0 .. clicks
      /\ Wants \in SUBSET Voters /\ Left \in SUBSET Voters
      /\ Cardinality(Wants) \in Nat /\ Cardinality(Left) \in Nat
      /\ hot + Cardinality(Wants) <= clicks
  BY RoomAssumption, VotersCounted DEF RoomTypeOK, CastsAreClicks
<1>1. \/ /\ clicks' = clicks + 1 /\ clicks' \in 0 .. MaxClicks /\ hot' = hot
         /\ Cardinality(Left) <= Cardinality(Wants) + 1
      \/ /\ clicks' = clicks /\ hot' = hot
         /\ Cardinality(Left) <= Cardinality(Wants)
      \/ /\ clicks' = clicks /\ hot' \in {hot, hot + 1}
         /\ Cardinality(Wants) = Cardinality(Left) + 1
  <2>1. ASSUME NEW v \in Voters, NEW x \in Sides \cup {"retract"}, ClickRoom(v, x)
        PROVE  /\ clicks' = clicks + 1 /\ clicks' \in 0 .. MaxClicks /\ hot' = hot
               /\ Cardinality(Left) <= Cardinality(Wants) + 1
    <3>1. /\ clicks < MaxClicks /\ clicks' = clicks + 1 /\ hot' = hot
          /\ want[v] = "nothing" /\ want' = [want EXCEPT ![v] = x]
      BY <2>1 DEF ClickRoom, Click, Set
    <3>2. v \in Voters \ Wants /\ Left \subseteq Wants \cup {v}
      BY <1>0, <3>1 DEF Sides
    <3>3. Cardinality(Left) <= Cardinality(Wants \cup {v})
      BY <1>0, <3>2, Fewer
    <3>4. Cardinality(Wants \cup {v}) = Cardinality(Wants) + 1
      BY <1>0, <3>2, WithOne
    <3> HIDE DEF Wants, Left
    <3> QED BY <1>0, <3>1, <3>3, <3>4
  <2>2. ASSUME NEW v \in Voters, Cast(v)
        PROVE  /\ clicks' = clicks /\ hot' \in {hot, hot + 1}
               /\ Cardinality(Wants) = Cardinality(Left) + 1
    <3>1. /\ clicks' = clicks /\ hot' \in {hot, hot + 1}
          /\ want[v] \in Sides /\ want' = [want EXCEPT ![v] = "reply"]
      BY <2>2 DEF Cast, Apply, Set
    <3>2. v \in Wants /\ Left = Wants \ {v}
      BY <1>0, <3>1 DEF Sides
    <3> QED BY <1>0, <3>1, <3>2, WithoutOne
  <2>3. ASSUME UNCHANGED <<clicks, hot>>,
               \A v \in Voters : want'[v] \in Sides => want[v] \in Sides
        PROVE  clicks' = clicks /\ hot' = hot /\ Cardinality(Left) <= Cardinality(Wants)
    <3>1. Left \subseteq Wants
      BY <2>3
    <3> QED BY <1>0, <2>3, <3>1, Fewer
  <2>4. ASSUME NEW v \in Voters,
               Retract(v) \/ CastFails(v) \/ CountBallots(v) \/ CountFails(v) \/ Tell(v)
                 \/ Answered(v) \/ TellHot(v) \/ EndRing(v)
        PROVE  /\ UNCHANGED <<clicks, hot>>
               /\ \A u \in Voters : want'[u] \in Sides => want[u] \in Sides
    <3>1. UNCHANGED <<clicks, hot>>
      BY <2>4 DEF Retract, CastFails, CountBallots, CountFails, Tell, Answered, TellHot, EndRing,
                  Broadcast
    <3>2. \/ want' = want \/ want' = [want EXCEPT ![v] = "reply"]
          \/ want' = [want EXCEPT ![v] = "nothing"]
      BY <2>4 DEF Retract, CastFails, CountBallots, CountFails, Tell, Answered, TellHot, EndRing,
                  Leave, Withdraw, Abort, Reply, Set, boxvars
    <3> QED BY <1>0, <3>1, <3>2 DEF Sides
  <2>5. ASSUME \/ \E p \in Pages : PageStep(p)
               \/ Follow \/ UNCHANGED roomvars
        PROVE  UNCHANGED <<clicks, hot, want>>
    BY <2>5 DEF PageStep, Open, CountForPage, Show, ShowFails, Follow, roomvars, boxvars
  <2> HIDE DEF Wants, Left
  <2>6. CASE \E v \in Voters : \E x \in Sides \cup {"retract"} : ClickRoom(v, x)
    BY <2>1, <2>6
  <2>7. CASE \E v \in Voters : Cast(v)
    BY <2>2, <2>7
  <2>8. CASE \/ \E v \in Voters :
                  Retract(v) \/ CastFails(v) \/ CountBallots(v) \/ CountFails(v) \/ Tell(v)
                    \/ Answered(v) \/ TellHot(v) \/ EndRing(v)
             \/ \E p \in Pages : PageStep(p)
             \/ Follow \/ UNCHANGED roomvars
    BY <2>3, <2>4, <2>5, <2>8
  <2> QED BY <2>6, <2>7, <2>8 DEF RoomMove, RoomStep
<1>2. /\ hot' + Cardinality(Left) <= clicks' /\ hot' \in 0 .. clicks'
      /\ clicks' \in 0 .. MaxClicks
  <2> HIDE DEF Wants, Left
  <2> QED BY <1>0, <1>1
<1> QED BY <1>2 DEF CastsAreClicks

\* The steps that leave all counts where they are.
QuietMove ==
  \/ \E v \in Voters :
       \/ \E x \in Sides \cup {"retract"} : ClickRoom(v, x)
       \/ CastFails(v) \/ Answered(v) \/ EndRing(v)
       \/ Retract(v) /\ ballot' = ballot
  \/ Follow
  \/ UNCHANGED roomvars

LEMMA QuietSteps ==
  ASSUME RoomTypeOK, QuietMove
  PROVE  /\ UNCHANGED <<ballot, tally, pages, screen, late, hot>>
         /\ Counting' = Counting /\ Telling' = Telling
<1>0. step \in [Voters -> {"idle", "count", "tell", "ring"}]
  BY DEF RoomTypeOK
<1>1. UNCHANGED <<ballot, tally, pages, screen, late, hot>>
  BY DEF QuietMove, ClickRoom, Click, CastFails, Abort, Answered, EndRing, Leave, Reply, Retract,
         Follow, roomvars, boxvars, pages
<1>2. \/ step' = step
      \/ \E v \in Voters : step[v] \in {"idle", "ring"} /\ step' = [step EXCEPT ![v] = "idle"]
  BY DEF QuietMove, ClickRoom, CastFails, Answered, EndRing, Leave, Retract, Follow, roomvars, Go,
         Set
<1>3. \A u \in Voters :
        /\ step'[u] = "count" <=> step[u] = "count"
        /\ step'[u] = "tell" <=> step[u] = "tell"
  BY <1>0, <1>2
<1>4. Counting' = Counting /\ Telling' = Telling
  BY <1>3 DEF Counting, Telling
<1> QED BY <1>1, <1>4

\* The others, or a slip.
LEMMA CountingMoves ==
  ASSUME RoomMove
  PROVE  \/ QuietMove
         \/ \E v \in Voters : Cast(v) \/ CountBallots(v) \/ Tell(v) \/ TellHot(v)
         \/ \E p \in Pages : PageStep(p)
         \/ {"silent", "failure"} \cap slips' # {}
<1>1. ASSUME NEW v \in Voters, Retract(v)
      PROVE  ballot' = ballot \/ "silent" \in slips'
  BY <1>1 DEF Retract, Slipped
<1>2. ASSUME NEW v \in Voters, CountFails(v) PROVE "failure" \in slips'
  BY <1>2 DEF CountFails
<1> QED BY <1>1, <1>2 DEF RoomMove, RoomStep, QuietMove

\* A count that nothing has overtaken and nothing will is the last word.
LEMMA OrderStep ==
  ASSUME RoomTypeOK, JoinedBeforeAsking, CountsInOrder, RoomMove
  PROVE  CountsInOrder'
<1> DEFINE Bad == {"lag", "overtaken", "failure", "silent"}
           Right(n) == n = Count(ballot)
           Shown(p) == /\ pstep[p] = "answer" => answer[p] = Count(ballot)
                       /\ pstep[p] = "shown" => screen[p] = Count(ballot)
<1> SUFFICES ASSUME slips' \cap Bad = {}, late' = {}, Counting' = {}
             PROVE  /\ \A v \in Telling' : Telling' = {v} => tally'[v] = Count(ballot)'
                    /\ Telling' = {} => \A p \in Pages : Shown(p)'
  BY DEF CountsInOrder
<1>0. /\ step \in [Voters -> {"idle", "count", "tell", "ring"}]
      /\ pstep \in [Pages -> {"away", "ask", "answer", "shown"}]
      /\ tally \in [Voters -> Counts]
      /\ answer \in [Pages -> Counts] /\ screen \in [Pages -> Counts]
      /\ room = {p \in Pages : pstep[p] # "away"}
  BY DEF RoomTypeOK, JoinedBeforeAsking
<1>a. slips \cap Bad = {} /\ late = {}
  BY LateStep, SlipsStep
<1>b. Counting = {} =>
        /\ \A v \in Telling : Telling = {v} => tally[v] = Count(ballot)
        /\ Telling = {} => \A p \in Pages : Shown(p)
  BY <1>a DEF CountsInOrder
<1>1. CASE QuietMove
  <2>1. /\ UNCHANGED <<ballot, tally, pages, screen>>
        /\ Counting' = Counting /\ Telling' = Telling
    BY <1>1, QuietSteps
  <2>2. /\ Count(ballot)' = Count(ballot)
        /\ \A p \in Pages : Shown(p)' <=> Shown(p)
    BY <2>1 DEF Count, pages
  <2> HIDE DEF Shown
  <2> QED BY <1>b, <2>1, <2>2
<1>2. ASSUME NEW v \in Voters, Cast(v) PROVE FALSE
  <2>1. step'[v] = "count"
    BY <1>0, <1>2 DEF Cast, Go, Set
  <2> QED BY <2>1 DEF Counting
<1>3. ASSUME NEW v \in Voters, CountBallots(v)
      PROVE  /\ \A u \in Telling' : Telling' = {u} => tally'[u] = Count(ballot)'
             /\ Telling' # {}
  <2>1. /\ copy = ballot /\ ballot' = ballot
        /\ step' = [step EXCEPT ![v] = "tell"] /\ tally' = [tally EXCEPT ![v] = Count(copy)]
    BY <1>3 DEF CountBallots, Slipped, Go, Set, boxvars
  <2>2. v \in Telling' /\ tally'[v] = Count(ballot)'
    BY <1>0, <2>1 DEF Telling, Count
  <2> QED BY <2>2
<1>4. ASSUME NEW v \in Voters, Tell(v) \/ TellHot(v)
      PROVE  Telling' = {} /\ \A p \in Pages : Shown(p)'
  <2>1. /\ step[v] = "tell" /\ step' = [step EXCEPT ![v] = step'[v]]
        /\ step'[v] \in {"idle", "ring"} /\ pstep' = pstep /\ ballot' = ballot
        /\ screen' = [p \in Pages |-> IF p \in room THEN tally[v] ELSE screen[p]]
        /\ Pending \ {<<"vote", v>>} = {}
    BY <1>0, <1>4 DEF Tell, TellHot, Broadcast, Leave, Reply, Go, Set, pages, boxvars
  <2>2. Telling = {v} /\ \A p \in Pages : pstep[p] # "answer"
    <3>1. \A u \in Voters : step[u] = "tell" => <<"vote", u>> \in Pending
      BY DEF Pending
    <3>2. \A u \in Voters : step[u] = "tell" => <<"vote", u>> = <<"vote", v>>
      BY <2>1, <3>1
    <3>3. ASSUME NEW p \in Pages, pstep[p] = "answer" PROVE FALSE
      <4>1. <<"page", p>> \in Pending
        BY <3>3 DEF Pending
      <4>2. <<"page", p>> = <<"vote", v>>
        BY <2>1, <4>1
      <4> QED BY <4>2
    <3>5. \A p \in Pages : pstep[p] # "answer"
      BY <3>3
    <3>6. \A u \in Voters : step[u] = "tell" => u = v
      BY <3>2
    <3>7. v \in Telling /\ \A u \in Telling : u = v
      BY <2>1, <3>6 DEF Telling
    <3> QED BY <3>5, <3>7
  <2>3. Counting = {} /\ Telling' = {}
    BY <1>0, <2>1, <2>2 DEF Counting, Telling
  <2>4. tally[v] = Count(ballot) /\ Count(ballot)' = Count(ballot)
    BY <1>b, <2>1, <2>2, <2>3 DEF Count
  <2>5. \A p \in Pages : Shown(p)'
    BY <1>0, <2>1, <2>2, <2>4
  <2> QED BY <2>3, <2>5
<1>5. ASSUME NEW q \in Pages, PageStep(q)
      PROVE  /\ \A v \in Telling' : Telling' = {v} => tally'[v] = Count(ballot)'
             /\ Telling' = {} => \A p \in Pages : Shown(p)'
  <2>1. UNCHANGED <<ballot, step, tally>>
    BY <1>5 DEF PageStep, Open, CountForPage, Show, ShowFails, boxvars
  <2>2. Counting' = Counting /\ Telling' = Telling /\ Count(ballot)' = Count(ballot)
    BY <2>1 DEF Counting, Telling, Count
  <2>3. ASSUME Telling' = {}, NEW p \in Pages PROVE Shown(p)'
    <3>1. Shown(p) /\ Shown(q)
      BY <1>b, <2>2, <2>3
    <3>2. CASE Open(q)
      BY <1>0, <2>2, <3>1, <3>2 DEF Open, Set
    <3>3. CASE CountForPage(q)
      BY <1>0, <2>2, <3>1, <3>3 DEF CountForPage, Set, Slipped
    <3>4. CASE Show(q)
      BY <1>0, <2>2, <3>1, <3>4 DEF Show, Set
    <3>5. CASE ShowFails(q)
      BY <3>5 DEF ShowFails
    <3> QED BY <1>5, <3>2, <3>3, <3>4, <3>5 DEF PageStep
  <2> QED BY <1>b, <2>1, <2>2, <2>3
<1> HIDE DEF Shown
<1> QED BY <1>1, <1>2, <1>3, <1>4, <1>5, CountingMoves

\* Every hot cast is announced once.
LEMMA RingStep ==
  ASSUME RoomTypeOK, HotCastsRing, hot \in Nat, rounds \in Nat, [HotNext]_allvars
  PROVE  HotCastsRing'
<1> DEFINE Bad == {"lag", "crowd", "failure", "silent"}
           here == Counting # {} /\ Total(Count(ballot)) = Hot
<1> SUFFICES ASSUME slips' \cap Bad = {}
             PROVE  /\ \A u, v \in Counting' : u = v
                    /\ hot' = rounds' + Cardinality(Ringing') + (IF here' THEN 1 ELSE 0)
  BY DEF HotCastsRing
<1>0. /\ step \in [Voters -> {"idle", "count", "tell", "ring"}]
      /\ want \in [Voters -> Sides \cup {"nothing", "retract", "reply"}]
      /\ \A v \in Voters : step[v] # "idle" => want[v] = "reply"
      /\ tally \in [Voters -> Counts]
      /\ Ringing \in SUBSET Voters /\ Cardinality(Ringing) \in Nat
  BY VotersCounted DEF RoomTypeOK, Ringing, Telling
<1>a. RoomMove
  BY MovesOfRoom
<1>b. /\ \A u, v \in Counting : u = v
      /\ hot = rounds + Cardinality(Ringing) + (IF here THEN 1 ELSE 0)
  BY <1>a, SlipsStep DEF HotCastsRing
<1>c. rounds' = rounds \/ \E v \in Voters : TellHot(v) /\ rounds' = rounds + 1
  BY RoundsOfMove
<1>d. ASSUME NEW v \in Voters, TellHot(v)
      PROVE  /\ ~QuietMove
             /\ \A u \in Voters : ~Cast(u) /\ ~CountBallots(u) /\ ~Tell(u)
             /\ \A p \in Pages : ~PageStep(p)
  <2>1. step[v] = "tell" /\ step' = [step EXCEPT ![v] = "ring"]
    BY <1>d DEF TellHot, Broadcast, Go, Set
  <2>2. Telling' # Telling /\ step' # step
    BY <1>0, <2>1 DEF Telling
  <2>3. ~QuietMove
    BY <2>2, QuietSteps
  <2>4. \A u \in Voters : ~Cast(u) /\ ~CountBallots(u) /\ ~Tell(u)
    BY <1>0, <2>1 DEF Cast, CountBallots, Tell, Leave, Go, Set
  <2>5. \A p \in Pages : ~PageStep(p)
    BY <2>2 DEF PageStep, Open, CountForPage, Show, ShowFails
  <2> QED BY <2>3, <2>4, <2>5
<1> DEFINE Goal == /\ \A u, v \in Counting' : u = v
                   /\ hot' = rounds' + Cardinality(Ringing') + (IF here' THEN 1 ELSE 0)
<1>e. ASSUME UNCHANGED <<ballot, step, tally, hot, rounds>> \/
               /\ UNCHANGED <<ballot, tally, hot, rounds>>
               /\ Counting' = Counting /\ Telling' = Telling
      PROVE  Goal
  <2>1. /\ Counting' = Counting /\ Ringing' = Ringing /\ (here' <=> here)
        /\ hot' = hot /\ rounds' = rounds
    <3>1. Counting' = Counting /\ Telling' = Telling
      BY <1>e DEF Counting, Telling
    <3>2. UNCHANGED <<ballot, tally, hot, rounds>>
      BY <1>e
    <3>3. Ringing' = Ringing
      BY <3>1, <3>2 DEF Ringing, Total
    <3>4. here' <=> here
      BY <3>1, <3>2 DEF Total, Count
    <3> QED BY <3>1, <3>2, <3>3, <3>4
  <2> HIDE DEF here
  <2> QED BY <1>b, <2>1
<1>1. ASSUME QuietMove \/ \E p \in Pages : PageStep(p) PROVE Goal
  <2>1. rounds' = rounds
    BY <1>c, <1>d, <1>1
  <2>2. CASE QuietMove
    BY <1>e, <2>1, <2>2, QuietSteps
  <2>3. CASE \E p \in Pages : PageStep(p)
    <3>1. UNCHANGED <<ballot, step, tally, hot>>
      BY <2>3 DEF PageStep, Open, CountForPage, Show, ShowFails, boxvars
    <3> HIDE DEF Goal
    <3> QED BY <1>e, <2>1, <3>1
  <2> QED BY <1>1, <2>2, <2>3
<1>2. ASSUME NEW v \in Voters, Cast(v) PROVE Goal
  <2>1. rounds' = rounds
    BY <1>c, <1>d, <1>2
  <2>2. /\ Counting = {} /\ step[v] = "idle" /\ step' = [step EXCEPT ![v] = "count"]
        /\ tally' = tally
        /\ hot' = IF Total(Count(ballot')) = Hot THEN hot + 1 ELSE hot
    BY <1>0, <1>2 DEF Cast, Apply, Go, Set, Slipped, Counting, Sides
  <2>3. Counting' = {v} /\ Telling' = Telling
    BY <1>0, <2>2 DEF Counting, Telling
  <2>4. Ringing' = Ringing
    BY <2>2, <2>3 DEF Ringing, Total
  <2>5. here' <=> Total(Count(ballot')) = Hot
    BY <2>3 DEF Total, Count
  <2>6. hot = rounds + Cardinality(Ringing)
    BY <1>b, <2>2, <1>0
  <2> HIDE DEF here
  <2> QED BY <1>0, <2>1, <2>2, <2>3, <2>4, <2>5, <2>6
<1>3. ASSUME NEW v \in Voters, CountBallots(v) PROVE Goal
  <2>1. rounds' = rounds
    BY <1>c, <1>d, <1>3
  <2>2. /\ v \in Counting /\ copy = ballot /\ ballot' = ballot /\ hot' = hot
        /\ step' = [step EXCEPT ![v] = "tell"] /\ tally' = [tally EXCEPT ![v] = Count(ballot)]
    BY <1>3 DEF CountBallots, Slipped, Go, Set, boxvars, Counting
  <2>3. Counting' = {} /\ v \notin Telling /\ Telling' = Telling \cup {v}
    BY <1>0, <1>b, <2>2 DEF Counting, Telling
  <2>4. Ringing' = IF Total(Count(ballot)) = Hot THEN Ringing \cup {v} ELSE Ringing
    BY <1>0, <2>2, <2>3 DEF Ringing, Telling, Total
  <2>5. Cardinality(Ringing \cup {v}) = Cardinality(Ringing) + 1
    BY <1>0, <2>3, WithOne DEF Ringing
  <2>6. hot = rounds + Cardinality(Ringing) + (IF Total(Count(ballot)) = Hot THEN 1 ELSE 0)
    BY <1>b, <2>2
  <2> QED BY <1>0, <2>1, <2>2, <2>3, <2>4, <2>5, <2>6
<1>4. ASSUME NEW v \in Voters, Tell(v) PROVE Goal
  <2>1. rounds' = rounds
    BY <1>c, <1>d, <1>4
  <2>2. /\ step[v] = "tell" /\ Total(tally[v]) # Hot /\ ballot' = ballot /\ hot' = hot
        /\ step' = [step EXCEPT ![v] = "idle"] /\ tally' = [tally EXCEPT ![v] = Blank]
    BY <1>4 DEF Tell, Broadcast, Leave, Reply, Go, Set
  <2>3. Counting' = Counting /\ Telling' = Telling \ {v}
    BY <1>0, <2>2 DEF Counting, Telling
  <2>4. Ringing' = Ringing
    BY <1>0, <2>2, <2>3 DEF Ringing, Telling, Total
  <2>5. here' <=> here
    BY <2>2, <2>3 DEF Total, Count
  <2> HIDE DEF here
  <2> QED BY <1>b, <2>1, <2>2, <2>3, <2>4, <2>5
<1>5. ASSUME NEW v \in Voters, TellHot(v), rounds' = rounds + 1 PROVE Goal
  <2>1. /\ step[v] = "tell" /\ Total(tally[v]) = Hot /\ ballot' = ballot /\ hot' = hot
        /\ step' = [step EXCEPT ![v] = "ring"] /\ tally' = [tally EXCEPT ![v] = Blank]
    BY <1>5 DEF TellHot, Broadcast, Go, Set, boxvars
  <2>2. Counting' = Counting /\ Telling' = Telling \ {v}
    BY <1>0, <2>1 DEF Counting, Telling
  <2>3. v \in Ringing /\ Ringing' = Ringing \ {v}
    BY <1>0, <2>1, <2>2 DEF Ringing, Telling, Total
  <2>4. Cardinality(Ringing) = Cardinality(Ringing') + 1 /\ Cardinality(Ringing') \in Nat
    BY <1>0, <2>3, WithoutOne, VotersCounted
  <2>5. here' <=> here
    BY <2>1, <2>2 DEF Total, Count
  <2> HIDE DEF here
  <2> QED BY <1>b, <1>5, <2>1, <2>2, <2>4, <2>5
<1>6. ASSUME NEW v \in Voters, TellHot(v) PROVE rounds' = rounds + 1
  <2>1. step[v] = "tell" /\ step' = [step EXCEPT ![v] = "ring"]
    BY <1>6 DEF TellHot, Broadcast, Go, Set
  <2>2. ~\E u \in Voters : RoomStep(u) \/ EndRing(u)
    <3>1. step'[v] = "ring" /\ step'[v] # step[v]
      BY <1>0, <2>1
    <3> QED BY <1>0, <3>1 DEF RoomStep, ClickRoom, Cast, Retract, CastFails, CountBallots,
                  CountFails, Tell, Answered, EndRing, Leave, Go, Set
  <2>3. ~\E p \in Pages : PageStep(p)
    BY <1>6, <1>d
  <2>4. ~Follow /\ ~UNCHANGED roomvars
    BY <1>6, <1>d DEF QuietMove
  <2> QED BY <2>2, <2>3, <2>4, RoundsOfMove
<1>7. Goal
  <2> HIDE DEF Goal
  <2> QED BY <1>a, <1>1, <1>2, <1>3, <1>4, <1>5, <1>6, CountingMoves
<1> QED BY <1>7

-----------------------------------------------------------------------------
(* The theorems.                                                           *)

LEMMA HotInit_Inv == HotInit => HotInv
<1> SUFFICES ASSUME HotInit PROVE HotInv
  OBVIOUS
<1>1. /\ ballot = [v \in Voters |-> "none"] /\ want = [v \in Voters |-> "nothing"]
      /\ copy = ballot /\ feed = <<>> /\ step = [v \in Voters |-> "idle"]
      /\ tally = [v \in Voters |-> Blank] /\ room = {}
      /\ pstep = [p \in Pages |-> "away"] /\ answer = [p \in Pages |-> Blank]
      /\ screen = [p \in Pages |-> Blank] /\ late = {} /\ slips = {}
      /\ hot = 0 /\ clicks = 0 /\ rounds = 0
  BY DEF HotInit, RoomInit, Init, PushInit
<1>2. RoomTypeOK
  <2>1. MaxClicks \in Nat /\ Blank \in Counts
    BY RoomAssumption, BlankType
  <2>2. feed \in Seq([Voters -> Sides \cup {"none"}])
    BY <1>1
  <2>3. /\ ballot \in [Voters -> Sides \cup {"none"}]
        /\ want \in [Voters -> Sides \cup {"nothing", "retract", "reply"}]
        /\ step \in [Voters -> {"idle", "count", "tell", "ring"}]
        /\ \A v \in Voters : step[v] # "idle" => want[v] = "reply"
    BY <1>1
  <2> QED BY <1>1, <2>1, <2>2, <2>3 DEF RoomTypeOK
<1>3. JoinedBeforeAsking
  BY <1>1 DEF JoinedBeforeAsking
<1>4. CastsAreClicks
  <2>1. {v \in Voters : want[v] \in Sides} = {}
    BY <1>1 DEF Sides
  <2>2. Cardinality({v \in Voters : want[v] \in Sides}) = 0
    BY <2>1, FS_EmptySet
  <2>3. hot = 0 /\ clicks = 0
    BY <1>1
  <2> QED BY <2>2, <2>3 DEF CastsAreClicks
<1>5. Counting = {} /\ Telling = {} /\ Ringing = {}
  BY <1>1 DEF Counting, Telling, Ringing
<1>6. CountsInOrder
  BY <1>1, <1>5 DEF CountsInOrder
<1>7. HotCastsRing
  BY <1>1, <1>5, FS_EmptySet DEF HotCastsRing
<1> QED BY <1>1, <1>2, <1>3, <1>4, <1>6, <1>7 DEF HotInv

LEMMA HotInv_Next == HotInv /\ [HotNext]_allvars => HotInv'
<1> SUFFICES ASSUME HotInv, [HotNext]_allvars PROVE HotInv'
  OBVIOUS
<1>1. RoomMove /\ RoomTypeOK /\ hot \in Nat
  BY MovesOfRoom DEF HotInv, RoomTypeOK
<1>2. RoomTypeOK' /\ JoinedBeforeAsking' /\ CastsAreClicks'
  BY <1>1, BallotTypes, LabelTypes, CountTypes, LateStep, SlipsStep, ClicksStep
     DEF HotInv, RoomTypeOK
<1>3. CountsInOrder'
  BY <1>1, OrderStep DEF HotInv
<1>4. HotCastsRing'
  BY <1>1, RingStep DEF HotInv
<1>5. rounds' \in Nat
  BY RoundsOfMove DEF HotInv
<1> QED BY <1>2, <1>3, <1>4, <1>5 DEF HotInv

LEMMA HotInvAlways == HotSpec => []HotInv
BY HotInit_Inv, HotInv_Next, PTL DEF HotSpec

\* Types of the room; a handler past its ballot has a voter who waits, what has
\* been overtaken is still to be delivered, and only clicks make a poll hot.
THEOREM RoomTypeCorrect == HotSpec => []RoomTypeOK
<1>1. HotInv => RoomTypeOK
  BY DEF HotInv
<1> QED BY <1>1, HotInvAlways, PTL

\* When the voting rests, every page of the room shows the ballots' count,
\* whatever the order of the counts and deliveries was, unless one slipped.
THEOREM ScreensRightAlways == HotSpec => []ScreensRight
<1>1. ASSUME HotInv, AtRest, slips \cap {"lag", "overtaken", "failure", "silent"} = {},
             NEW p \in room
      PROVE  screen[p] = Count(ballot)
  <2>1. Counting = {} /\ Telling = {} /\ Pending = {}
    BY <1>1 DEF AtRest, Counting, Telling, Pending
  <2>2. late = {}
    BY <1>1, <2>1 DEF HotInv, RoomTypeOK
  <2>3. p \in Pages /\ pstep[p] = "shown"
    BY <1>1 DEF HotInv, JoinedBeforeAsking, AtRest
  <2> QED BY <1>1, <2>1, <2>2, <2>3 DEF HotInv, CountsInOrder
<1>2. HotInv => ScreensRight
  BY <1>1 DEF ScreensRight
<1> QED BY <1>2, HotInvAlways, PTL

\* When the voting rests, as many announcements have begun as casts left the
\* poll with exactly Hot ballots, unless a count slipped or casts crowded.
THEOREM AnnouncedWhenHotAlways == HotSpec => []AnnouncedWhenHot
<1>1. ASSUME HotInv, AtRest, slips \cap {"lag", "crowd", "failure", "silent"} = {}
      PROVE  rounds = hot
  <2>1. Counting = {} /\ Ringing = {}
    BY <1>1 DEF AtRest, Counting, Telling, Ringing
  <2>2. Cardinality(Ringing) = 0
    BY <2>1, FS_EmptySet
  <2> QED BY <1>1, <2>1, <2>2 DEF HotInv, HotCastsRing
<1>2. HotInv => AnnouncedWhenHot
  BY <1>1 DEF AnnouncedWhenHot
<1> QED BY <1>2, HotInvAlways, PTL

\* The announcements of the room disturb the subscriptions no more than those
\* of the push service by itself: the find() that is rejected, too.
LEMMA PushInvHot == HotSpec => []PushInv
<1>1. HotInit => PushInv
  BY PushInitInv DEF HotInit
<1>2. PushInv /\ [HotNext]_allvars => PushInv'
  <2> SUFFICES ASSUME PushInv, [HotNext]_allvars PROVE PushInv'
    OBVIOUS
  <2>1. CASE [PushNext]_pushvars
    BY <2>1, PushInvStep
  <2>2. ASSUME NEW v \in Voters, RingFails(v) PROVE PushInv'
    <3>1. /\ UNCHANGED <<tables, dead, regvars, batch, gone, told, registered, clashed, regs, rounds>>
          /\ spc' = [spc EXCEPT ![v] = "idle"]
          /\ faults' = faults + 1 /\ faults < MaxFaults
      BY <2>2 DEF RingFails
    <3>2. PushTypeOK'
      <4>1. /\ spc \in [Announcers -> {"idle", "find", "send"}]
            /\ faults \in 0 .. MaxFaults /\ MaxFaults \in Nat
        BY ClientBounds DEF PushInv, PushTypeOK
      <4>2. spc' \in [Announcers -> {"idle", "find", "send"}]
        BY <3>1, <4>1
      <4>3. faults' \in 0 .. MaxFaults
        BY <3>1, <4>1
      <4> QED BY <3>1, <4>2, <4>3 DEF PushInv, PushTypeOK, tables, regvars, Ids, Live
    <3>3. RowsHaveOrigin'
      BY <3>1 DEF PushInv, RowsHaveOrigin, RowsComeFrom, FitsFirst, tables, regvars
    <3>4. CopiesHaveOneRow'
      BY <3>1 DEF PushInv, CopiesHaveOneRow, OneRow, tables
    <3>5. RegistrationsApart' /\ AcceptedStaysRegistered'
      BY <3>1 DEF PushInv, RegistrationsApart, AcceptedStaysRegistered, Busy, Clean, Ids, Live,
                  tables, regvars
    <3>6. SendsApart'
      BY <3>1 DEF PushInv, SendsApart
    <3> QED BY <3>2, <3>3, <3>4, <3>5, <3>6 DEF PushInv
  <2>3. [PushNext]_pushvars \/ \E v \in Voters : RingFails(v)
    BY OneAnnouncerPerVoter DEF HotNext, allvars, Ring, RingEnds, Sending, PushNext, SendStep
  <2> QED BY <2>1, <2>2, <2>3
<1> QED BY <1>1, <1>2, PTL DEF HotSpec

\* What PushClients promises by itself holds in the room of a poll, whose
\* handlers announce, and whose find() of the clients may be rejected.
THEOREM PushSafeInRoom ==
  HotSpec => [](PushTypeOK /\ OneRowPerEndpoint /\ AcceptedStaysRegistered /\ ToldOnce)
<1>1. PushInv => PushTypeOK /\ AcceptedStaysRegistered
  BY DEF PushInv
<1>2. PushInv => OneRowPerEndpoint
  BY DEF PushInv, CopiesHaveOneRow, OneRow, OneRowPerEndpoint, Ids, Live
<1>3. ASSUME PushInv PROVE ToldOnce
  <2>1. told \in [Announcers -> [Endpoints -> Nat]]
    BY <1>3 DEF PushInv, PushTypeOK
  <2> QED BY <1>3, <2>1, SendsParts DEF PushInv, SendApart, ToldOnce
<1> QED BY <1>1, <1>2, <1>3, PushInvHot, PTL

\* What the room adds to the voting, from the counts to the announcements,
\* casts, withdraws and answers nothing that the voting itself would not.
THEOREM RoomVotesAsBallotBox == HotSpec => Init /\ [][Next]_vars
<1>1. HotInit => Init
  BY DEF HotInit, RoomInit
<1>2. ASSUME [HotNext]_allvars PROVE [Next]_vars
  <2>1. ASSUME NEW v \in Voters, RoomStep(v) \/ TellHot(v) \/ EndRing(v) PROVE [Next]_vars
    <3>1. \/ \E x \in Sides \cup {"retract"} : Click(v, x)
          \/ Apply(v) \/ (\E u \in Voters : Withdraw(v, u)) \/ Abort(v) \/ Reply(v)
          \/ UNCHANGED vars
      BY <2>1 DEF RoomStep, ClickRoom, Cast, Retract, CastFails, CountBallots, CountFails, Tell,
                  Answered, TellHot, EndRing, Leave, boxvars, vars
    <3> QED BY <3>1 DEF Next, Serve
  <2>2. ASSUME (\E p \in Pages : PageStep(p)) \/ Follow \/ UNCHANGED roomvars
        PROVE  UNCHANGED vars
    BY <2>2 DEF PageStep, Open, CountForPage, Show, ShowFails, Follow, roomvars, boxvars, vars
  <2> QED BY <1>2, <2>1, <2>2, MovesOfRoom DEF RoomMove
<1> QED BY <1>1, <1>2, PTL DEF HotSpec
=============================================================================
