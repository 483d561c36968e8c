------------------------------ MODULE VoteRoom ------------------------------
(***************************************************************************)
(* The room of a poll: what events.gateway.ts does once a ballot is cast.  *)
(* The handler of 'createVote' counts the ballots on the slave, tells the  *)
(* count to every socket in the room and, when it is exactly Hot, goes on  *)
(* to an announcement; the handler of 'requestChannel' counts them for one *)
(* page that has just joined.  The polls of trials, humors and political   *)
(* debates pass through three copies of one code.                          *)
(*                                                                         *)
(* The voting itself is BallotBox: one voter per socket, who waits for the *)
(* answer (Voting has the clicks of those who do not).  An HTTP cancel     *)
(* ("retract"), of one's own ballot or another's, tells nobody.            *)
(***************************************************************************)
EXTENDS BallotBox, Naturals, Sequences, FiniteSets

CONSTANTS
  Pages,       \* browser tabs that open the poll, a voter's or anyone's
  Hot,         \* the count that is announced, 100 in the code
  MaxClicks,   \* bound: clicks in a behaviour
  Rejections   \* whether statements may be rejected

ASSUME RoomAssumption ==
  /\ IsFiniteSet(Voters)
  /\ Hot \in Nat \ {0} /\ MaxClicks \in Nat /\ Rejections \in BOOLEAN

VARIABLES
  copy, feed,     \* the slave's ballots, and versions it has not applied yet
  step, tally,    \* vote handler: label, the count it holds
  room,           \* pages whose socket has joined
  pstep, answer,  \* page: label, the count it is about to be sent
  screen,         \* the count each page shows
  late,           \* handlers whose count another delivery has overtaken
  slips,          \* history: what may make a count wrong
  hot,            \* history: casts that left the poll with Hot ballots
  clicks          \* clicks so far (bounded by MaxClicks)

boxvars  == <<ballot, want>>
pages    == <<room, pstep, answer>>
roomvars == <<ballot, want, copy, feed, step, tally, room, pstep, answer,
              screen, late, slips, hot, clicks>>

Count(b) == [x \in Sides |-> Cardinality({v \in Voters : b[v] = x})]
Total(n) == n["for"] + n["against"]
Blank    == [x \in Sides |-> 0]
Counts   == [Sides -> 0 .. Cardinality(Voters)]
Slips    == {"lag", "overtaken", "crowd", "failure", "silent"}

RoomInit ==
  /\ Init
  /\ copy = ballot /\ feed = <<>>
  /\ step = [v \in Voters |-> "idle"] /\ tally = [v \in Voters |-> Blank]
  /\ room = {}
  /\ pstep = [p \in Pages |-> "away"] /\ answer = [p \in Pages |-> Blank]
  /\ screen = [p \in Pages |-> Blank]
  /\ late = {} /\ slips = {} /\ hot = 0 /\ clicks = 0

Go(v, label) == step' = Set(step, v, label)

\* A commit reaches the slave later.
Commit == feed' = (IF ballot' = ballot THEN feed ELSE Append(feed, ballot')) /\ UNCHANGED copy

Slipped(cond, what) == IF cond THEN {what} ELSE {}

-----------------------------------------------------------------------------
(* createVote                                                              *)

ClickRoom(v, x) ==
  /\ clicks < MaxClicks /\ clicks' = clicks + 1
  /\ Click(v, x)
  /\ UNCHANGED <<copy, feed, step, tally, pages, screen, late, slips, hot>>

\* add...VoteUserorNanUser has returned.  Others who have cast and not
\* counted yet will count this ballot too.
Cast(v) ==
  /\ Apply(v) /\ Commit
  /\ Go(v, "count")
  /\ slips' = slips \cup Slipped(\E u \in Voters : step[u] = "count", "crowd")
  /\ hot' = IF Total(Count(ballot')) = Hot THEN hot + 1 ELSE hot
  /\ UNCHANGED <<tally, pages, screen, late, clicks>>

\* canselEachVote behind its HTTP route, which asks nobody's name and takes
\* anybody's ballot: the room is not told.
Retract(v) ==
  /\ (\E u \in Voters : Withdraw(v, u)) /\ Commit
  /\ slips' = slips \cup Slipped(ballot' # ballot, "silent")
  /\ UNCHANGED <<step, tally, pages, screen, late, hot, clicks>>

CastFails(v) ==
  /\ Rejections /\ Abort(v)
  /\ UNCHANGED <<copy, feed, step, tally, pages, screen, late, slips, hot, clicks>>

\* getUserVoteCounts reads the slave.
CountBallots(v) ==
  /\ step[v] = "count"
  /\ tally' = Set(tally, v, Count(copy))
  /\ slips' = slips \cup Slipped(copy # ballot, "lag")
  /\ Go(v, "tell")
  /\ UNCHANGED <<boxvars, copy, feed, pages, screen, late, hot, clicks>>

\* What else has been counted and not been delivered.
Pending == {<<"vote", u>> : u \in {w \in Voters : step[w] = "tell"}}
           \cup {<<"page", p>> : p \in {q \in Pages : pstep[q] = "answer"}}

\* Mutation: a count with the same total is not told again.
BroadcastTotals(v) ==
  /\ step[v] = "tell"
  /\ screen' = [p \in Pages |-> IF p \in room /\ Total(screen[p]) # Total(tally[v])
                                THEN tally[v] ELSE screen[p]]
  /\ late' = Pending \ {<<"vote", v>>}
  /\ slips' = slips \cup Slipped(<<"vote", v>> \in late, "overtaken")
  /\ tally' = Set(tally, v, Blank)
  /\ UNCHANGED <<copy, feed, pages, hot, clicks>>

\* server.to(room).emit
Broadcast(v) ==
  /\ step[v] = "tell"
  /\ screen' = [p \in Pages |-> IF p \in room THEN tally[v] ELSE screen[p]]
  /\ late' = Pending \ {<<"vote", v>>}
  /\ slips' = slips \cup Slipped(<<"vote", v>> \in late, "overtaken")
  /\ tally' = Set(tally, v, Blank)
  /\ UNCHANGED <<copy, feed, pages, hot, clicks>>

\* The handler ends.
Leave(v) == Reply(v) /\ Go(v, "idle")

Tell(v) == Total(tally[v]) # Hot /\ Broadcast(v) /\ Leave(v)

\* Mutation: the announcement is not awaited.
TellHotOnly(v) ==
  Total(tally[v]) = Hot /\ Broadcast(v) /\ Go(v, "ring") /\ Reply(v)

\* The count is exactly Hot: an announcement begins.
TellHot(v) ==
  Total(tally[v]) = Hot /\ Broadcast(v) /\ Go(v, "ring") /\ UNCHANGED boxvars

EndRing(v) ==
  /\ step[v] = "ring" /\ Leave(v)
  /\ UNCHANGED <<copy, feed, tally, pages, screen, late, slips, hot, clicks>>

\* A vote that failed, or a cancel over HTTP, has none of the above.
Answered(v) ==
  /\ step[v] = "idle" /\ Leave(v)
  /\ UNCHANGED <<copy, feed, tally, pages, screen, late, slips, hot, clicks>>

\* The count is rejected: the voter gets an error although the ballot is cast.
CountFails(v) ==
  /\ Rejections /\ step[v] = "count"
  /\ slips' = slips \cup {"failure"}
  /\ Leave(v)
  /\ UNCHANGED <<copy, feed, tally, pages, screen, late, hot, clicks>>

-----------------------------------------------------------------------------
(* join and requestChannel                                                 *)

Open(p) ==
  /\ pstep[p] = "away"
  /\ room' = room \cup {p}
  /\ pstep' = Set(pstep, p, "ask")
  /\ UNCHANGED <<boxvars, copy, feed, step, tally, answer, screen, late, slips, hot, clicks>>

CountForPage(p) ==
  /\ pstep[p] = "ask"
  /\ answer' = Set(answer, p, Count(copy))
  /\ slips' = slips \cup Slipped(copy # ballot, "lag")
  /\ pstep' = Set(pstep, p, "answer")
  /\ UNCHANGED <<boxvars, copy, feed, step, tally, room, screen, late, hot, clicks>>

Show(p) ==
  /\ pstep[p] = "answer"
  /\ screen' = Set(screen, p, answer[p])
  /\ slips' = slips \cup Slipped(<<"page", p>> \in late, "overtaken")
  /\ late' = late \ {<<"page", p>>}
  /\ pstep' = Set(pstep, p, "shown")
  /\ answer' = Set(answer, p, Blank)
  /\ UNCHANGED <<boxvars, copy, feed, step, tally, room, hot, clicks>>

ShowFails(p) ==
  /\ Rejections /\ pstep[p] = "ask"
  /\ slips' = slips \cup {"failure"}
  /\ pstep' = Set(pstep, p, "shown")
  /\ UNCHANGED <<boxvars, copy, feed, step, tally, room, answer, screen, late, hot, clicks>>

Follow ==
  /\ feed # <<>>
  /\ copy' = Head(feed) /\ feed' = Tail(feed)
  /\ UNCHANGED <<boxvars, step, tally, pages, screen, late, slips, hot, clicks>>

-----------------------------------------------------------------------------
\* Everything but the announcement, which module HotVote adds.
RoomStep(v) ==
  \/ \E x \in Sides \cup {"retract"} : ClickRoom(v, x)
  \/ Cast(v) \/ Retract(v) \/ CastFails(v) \/ CountBallots(v) \/ CountFails(v)
  \/ Tell(v) \/ Answered(v)

PageStep(p) == Open(p) \/ CountForPage(p) \/ Show(p) \/ ShowFails(p)

-----------------------------------------------------------------------------
\* Types, and: a handler past its ballot has a voter who waits for the answer.
RoomTypeOK ==
  /\ ballot \in [Voters -> Sides \cup {"none"}]
  /\ want \in [Voters -> Sides \cup {"nothing", "retract", "reply"}]
  /\ copy \in [Voters -> Sides \cup {"none"}]
  /\ feed \in Seq([Voters -> Sides \cup {"none"}])
  /\ step \in [Voters -> {"idle", "count", "tell", "ring"}]
  /\ \A v \in Voters : step[v] # "idle" => want[v] = "reply"
  /\ tally \in [Voters -> Counts] /\ {answer, screen} \subseteq [Pages -> Counts]
  /\ room \subseteq Pages
  /\ pstep \in [Pages -> {"away", "ask", "answer", "shown"}]
  /\ late \subseteq Pending /\ slips \subseteq Slips
  /\ hot \in 0 .. clicks /\ clicks \in 0 .. MaxClicks

AtRest ==
  /\ \A v \in Voters : step[v] = "idle"
  /\ \A p \in Pages : pstep[p] \in {"away", "shown"}

\* Once nobody votes, every page of the room shows the count of the ballots,
\* unless a count was read from a slave that lagged, was delivered after a
\* later one, failed, or a ballot was cancelled over HTTP.  The gateway sends
\* whole counts and no page asks again.
ScreensRight ==
  AtRest /\ slips \cap {"lag", "overtaken", "failure", "silent"} = {} =>
    \A p \in room : screen[p] = Count(ballot)

-----------------------------------------------------------------------------
(* Why these hold, in an inductive form.                                   *)

Counting == {v \in Voters : step[v] = "count"}
Telling  == {v \in Voters : step[v] = "tell"}

\* A page is told from the moment it asks.
JoinedBeforeAsking == room = {p \in Pages : pstep[p] # "away"}

\* A cast that leaves the poll hot was a click.
CastsAreClicks == hot + Cardinality({v \in Voters : want[v] \in Sides}) <= clicks

\* Unless something slipped, or has been overtaken and will: once every ballot
\* is counted, either one count is still to be told and is right, or the pages
\* show the right one or are about to.  (Two at once overtake one another.)
CountsInOrder ==
  slips \cap {"lag", "overtaken", "failure", "silent"} = {} /\ late = {} /\ Counting = {} =>
    /\ \A v \in Telling : Telling = {v} => tally[v] = Count(ballot)
    /\ Telling = {} => \A p \in Pages :
         /\ pstep[p] = "answer" => answer[p] = Count(ballot)
         /\ pstep[p] = "shown" => screen[p] = Count(ballot)
=============================================================================
