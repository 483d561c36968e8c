----------------------------- MODULE HallOfFame -----------------------------
(***************************************************************************)
(* Rebuilding the halls of fame of a board: every Monday at 02:00 each     *)
(* instance of the server recounts last week's polls, asks for this        *)
(* month's leaders and replaces the rows of its rankings, each in a        *)
(* transaction of its own.  The trial halls are rebuilt by hand as well    *)
(* (POST trials/HallofFame/update).                                        *)
(*                                                                         *)
(* Days are numbered, day 0 is a Sunday.  A rebuild ends on the day it     *)
(* started, and the slave has the polls and ballots of the days before.    *)
(*                                                                         *)
(* What the database answers is read off the tables below: PostgreSQL      *)
(* rejects a query that names what no table has (in HAVING, the alias of   *)
(* an output column too), and an INSERT without a NOT NULL column.         *)
(***************************************************************************)
EXTENDS Integers, Sequences, FiniteSets, Functions

CONSTANTS
  Servers,     \* instances of the application, each with the cron job
  Polls,       \* polls of the board
  Days,        \* bound: the days on which something happens
  MaxBallots   \* bound: ballots cast in a behaviour

ASSUME HallAssumption ==
  /\ IsFiniteSet(Servers) /\ IsFiniteSet(Polls)
  /\ IsFiniteSet(Days) /\ Days # {} /\ Days \subseteq Nat
  /\ MaxBallots \in Nat

VARIABLES
  board,     \* whose halls these are
  today,     \* the day
  made,      \* the day each poll was made, or Never
  ballots,   \* the number of ballots of each poll
  earlier,   \* history: how many of them were there when the day began
  total,     \* the vote count stored with each poll
  hall,      \* rows of each ranking, committed
  phase,     \* where each server's rebuild stands
  rank,      \* which of its rankings the rebuild is replacing
  left,      \* last week's polls the rebuild has still to count
  counting,  \* the poll it is counting and the sum it has read, if any
  fired,     \* the last day its cron job ran
  weeks      \* history: the weeks in which each poll was counted

pollVars == <<made, ballots, earlier>>
hallVars == <<board, today, made, ballots, earlier, total, hall, phase, rank,
              left, counting, fired, weeks>>

HallBoards == {"trial", "humor", "political", "online"}
Rankings   == {"votes", "likes", "views"}
Phases     == {"idle", "count", "write", "ask", "replace", "delete"}
Never      == -1
NaN        == -1
Nothing    == <<>>

-----------------------------------------------------------------------------
(* The four rebuilds: which ballots they count, whether they wait for the  *)
(* leaders they ask for, and the rankings they replace, in order.          *)

TrialRebuild ==
  [counts |-> "all", awaits |-> TRUE, ranks |-> <<"votes", "likes", "views">>]

HumorRebuild ==
  [counts |-> "unaddressed", awaits |-> FALSE,
   ranks |-> <<"votes", "likes", "views">>]

PoliticalRebuild ==
  [counts |-> "unknown", awaits |-> FALSE, ranks |-> <<"votes", "views">>]

OnlineRebuild ==
  [counts |-> "none", awaits |-> FALSE, ranks |-> <<"likes", "views">>]

Rebuild == [trial |-> TrialRebuild, humor |-> HumorRebuild,
            political |-> PoliticalRebuild, online |-> OnlineRebuild]

(* The queries for the leaders: what they name that no table has, and the  *)
(* columns of the answer under the names the rows are made from.  A        *)
(* selected property comes back under a prefixed name (trial_id).          *)

TrialAggregates ==
  [votes |-> [unknown |-> {"total"}, carries |-> {"total"}],
   likes |-> [unknown |-> {"createdAt"}, carries |-> {"likes"}],
   views |-> [unknown |-> {"createdAt", "views"}, carries |-> {"views"}]]

HumorAggregates ==
  [votes |-> [unknown |-> {"total"}, carries |-> {"totalVotes"}],
   likes |-> [unknown |-> {}, carries |-> {"likes"}],
   views |-> [unknown |-> {"views"}, carries |-> {"views"}]]

PoliticalAggregates ==
  [votes |-> [unknown |-> {"total"}, carries |-> {"total"}],
   views |-> [unknown |-> {"views"}, carries |-> {"views"}]]

OnlineAggregates ==
  [likes |-> [unknown |-> {"createdAt", "likes"}, carries |-> {"likes"}],
   views |-> [unknown |-> {"createdAt", "views"}, carries |-> {"views"}]]

Aggregates == [trial |-> TrialAggregates, humor |-> HumorAggregates,
               political |-> PoliticalAggregates, online |-> OnlineAggregates]

(* The columns of a row that come from the answer and may not be NULL.     *)

TrialRows ==
  [votes |-> {"id", "userId", "content", "total"},
   likes |-> {"id", "userId", "title", "content", "likes"},
   views |-> {"id", "userId", "title", "content", "views"}]

HumorRows ==
  [votes |-> {"id", "userId", "content", "total"},
   likes |-> {"id", "userId", "title", "content", "likes"},
   views |-> {"id", "userId", "title", "content", "views"}]

PoliticalRows ==
  [votes |-> {"id", "userId", "content", "total"},
   views |-> {"id", "userId", "title", "content", "views"}]

OnlineRows ==
  [likes |-> {"id", "userId", "title", "content", "likes"},
   views |-> {"id", "userId", "title", "content", "views"}]

Rows == [trial |-> TrialRows, humor |-> HumorRows,
         political |-> PoliticalRows, online |-> OnlineRows]

Ranked(b)      == Range(Rebuild[b].ranks)
Answered(b, r) == Aggregates[b][r].unknown = {}

\* A ranking is replaced when its leaders are an array, which takes an await,
\* and carry the columns of a row.
Replaceable(b, r) ==
  /\ Rebuild[b].awaits /\ Answered(b, r)
  /\ Rows[b][r] \subseteq Aggregates[b][r].carries

-----------------------------------------------------------------------------
HallInit ==
  /\ board \in HallBoards
  /\ today \in Days /\ \A d \in Days : today <= d
  /\ made = [p \in Polls |-> Never]
  /\ ballots = [p \in Polls |-> 0]
  /\ earlier = ballots
  /\ total = [p \in Polls |-> 0]
  /\ hall = [r \in Ranked(board) |-> "old"]
  /\ phase = [w \in Servers |-> "idle"] /\ rank = [w \in Servers |-> 0]
  /\ left = [w \in Servers |-> {}]
  /\ counting = [w \in Servers |-> Nothing]
  /\ fired = [w \in Servers |-> Never]
  /\ weeks = [p \in Polls |-> {}]

Go(w, next) == phase' = [phase EXCEPT ![w] = next]

EndRebuild(w) ==
  /\ Go(w, "idle")
  /\ rank' = [rank EXCEPT ![w] = 0]
  /\ left' = [left EXCEPT ![w] = {}]
  /\ counting' = [counting EXCEPT ![w] = Nothing]

-----------------------------------------------------------------------------
(* The week around the rebuilds.                                           *)

NextDay ==
  /\ \A w \in Servers : phase[w] = "idle"
  /\ today' \in Days /\ today < today'
  /\ \A d \in Days : today < d => today' <= d
  /\ earlier' = ballots
  /\ UNCHANGED <<board, made, ballots, total, hall, phase, rank, left,
                 counting, fired, weeks>>

MakePoll(p) ==
  /\ board # "online" /\ made[p] = Never
  /\ made' = [made EXCEPT ![p] = today]
  /\ UNCHANGED <<board, today, ballots, earlier, total, hall, phase, rank,
                 left, counting, fired, weeks>>

BallotsCast == FoldFunction(+, 0, ballots)

CastBallot(p) ==
  /\ made[p] # Never /\ BallotsCast < MaxBallots
  /\ ballots' = [ballots EXCEPT ![p] = @ + 1]
  /\ UNCHANGED <<board, today, made, earlier, total, hall, phase, rank, left,
                 counting, fired, weeks>>

\* A ballot of today, or one of the days before, is cancelled.
CancelBallot(p) ==
  /\ ballots[p] > 0
  /\ ballots' = [ballots EXCEPT ![p] = @ - 1]
  /\ \E n \in {earlier[p], earlier[p] - 1} :
       /\ n \in 0..ballots[p] - 1
       /\ earlier' = [earlier EXCEPT ![p] = n]
  /\ UNCHANGED <<board, today, made, total, hall, phase, rank, left, counting,
                 fired, weeks>>

-----------------------------------------------------------------------------
(* One rebuild.                                                            *)

LastSunday(day) == day - (day % 7) - 7

\* Mutation: the week ends seven days after its Sunday.
EightDays(day) ==
  {d \in Days : LastSunday(day) <= d /\ d <= LastSunday(day) + 7}

\* The days of last week: its Sunday is today - 7 - today.getDay(), its
\* Saturday six days later.
LastWeek(day) ==
  {d \in Days : LastSunday(day) <= d /\ d <= LastSunday(day) + 6}

FoundPolls == {p \in Polls : made[p] \in LastWeek(today)}

StartRebuild(w) ==
  /\ phase[w] = "idle"
  /\ Go(w, "count")
  /\ left' = [left EXCEPT ![w] = FoundPolls]
  /\ UNCHANGED <<board, today, pollVars, total, hall, rank, counting, weeks>>

Cron(w) ==
  /\ today % 7 = 1 /\ fired[w] # today
  /\ fired' = [fired EXCEPT ![w] = today]
  /\ StartRebuild(w)

ByHand(w) ==
  /\ board = "trial"
  /\ UNCHANGED fired
  /\ StartRebuild(w)

\* The ballots a recount takes in, of n.  The humor recount asks for those
\* without an address, and there are none: the gateway stores the address of
\* every voter, signed in or not.
Countable(n) == IF Rebuild[board].counts = "all" THEN n ELSE 0

\* SUM() of no rows is NULL, which parses to NaN.  The political recount names
\* a column that no ballot has.
SumBallots(w, p) ==
  /\ phase[w] = "count" /\ p \in left[w]
  /\ IF Rebuild[board].counts = "unknown"
     THEN EndRebuild(w) /\ UNCHANGED weeks
     ELSE /\ counting' = [counting EXCEPT ![w] =
               <<p, IF Countable(ballots[p]) = 0 THEN NaN
                    ELSE Countable(ballots[p])>>]
          /\ weeks' = [weeks EXCEPT ![p] = @ \cup {today \div 7}]
          /\ Go(w, "write")
          /\ UNCHANGED <<rank, left>>
  /\ UNCHANGED <<board, today, pollVars, total, hall, fired>>

\* NaN is no value of an integer column: the UPDATE is rejected.
WriteTotal(w) ==
  /\ phase[w] = "write"
  /\ LET p == counting[w][1]
         sum == counting[w][2]
     IN  IF sum = NaN
         THEN EndRebuild(w) /\ UNCHANGED total
         ELSE /\ total' = [total EXCEPT ![p] = sum]
              /\ left' = [left EXCEPT ![w] = @ \ {p}]
              /\ counting' = [counting EXCEPT ![w] = Nothing]
              /\ Go(w, "count")
              /\ UNCHANGED rank
  /\ UNCHANGED <<board, today, pollVars, hall, fired, weeks>>

\* Mutation: the rebuild does not wait for its recounts.
AskAtOnce(w) ==
  /\ phase[w] = "count"
  /\ Go(w, "ask")
  /\ UNCHANGED <<board, today, pollVars, total, hall, rank, left, counting,
                 fired, weeks>>

AllCounted(w) ==
  /\ phase[w] = "count" /\ left[w] = {}
  /\ Go(w, "ask")
  /\ UNCHANGED <<board, today, pollVars, total, hall, rank, left, counting,
                 fired, weeks>>

\* An awaited query that is rejected ends the rebuild.
AskLeaders(w) ==
  /\ phase[w] = "ask"
  /\ IF Rebuild[board].awaits /\ \E r \in Ranked(board) : ~Answered(board, r)
     THEN EndRebuild(w)
     ELSE /\ Go(w, "replace")
          /\ rank' = [rank EXCEPT ![w] = 1]
          /\ UNCHANGED <<left, counting>>
  /\ UNCHANGED <<board, today, pollVars, total, hall, fired, weeks>>

Ranking(w) == Rebuild[board].ranks[rank[w]]

\* Mutation: the rows are deleted outside the transaction.
DeleteForGood(w) ==
  /\ phase[w] = "replace"
  /\ \A v \in Servers : phase[v] = "delete" => Ranking(v) # Ranking(w)
  /\ hall' = [hall EXCEPT ![Ranking(w)] = "none"]
  /\ Go(w, "delete")
  /\ UNCHANGED <<board, today, pollVars, total, rank, left, counting, fired,
                 weeks>>

\* DELETE, in the transaction of this ranking: it waits for the rows another
\* server's transaction has deleted.
DeleteAll(w) ==
  /\ phase[w] = "replace"
  /\ \A v \in Servers : phase[v] = "delete" => Ranking(v) # Ranking(w)
  /\ Go(w, "delete")
  /\ UNCHANGED <<board, today, pollVars, total, hall, rank, left, counting,
                 fired, weeks>>

\* map() over the leaders, save and commit, or the catch block's rollback; the
\* next ranking follows either way.
EndReplace(w) ==
  /\ phase[w] = "delete"
  /\ hall' = IF Replaceable(board, Ranking(w))
             THEN [hall EXCEPT ![Ranking(w)] = "new"] ELSE hall
  /\ IF rank[w] < Len(Rebuild[board].ranks)
     THEN /\ Go(w, "replace")
          /\ rank' = [rank EXCEPT ![w] = @ + 1]
          /\ UNCHANGED <<left, counting>>
     ELSE EndRebuild(w)
  /\ UNCHANGED <<board, today, pollVars, total, fired, weeks>>

\* A statement outside a try block is rejected, or the server stops; an open
\* transaction is rolled back.
Fault(w) ==
  /\ phase[w] # "idle"
  /\ EndRebuild(w)
  /\ UNCHANGED <<board, today, pollVars, total, hall, fired, weeks>>

RebuildSteps(w) ==
  \/ Cron(w) \/ ByHand(w)
  \/ \E p \in Polls : SumBallots(w, p)
  \/ WriteTotal(w) \/ AllCounted(w) \/ AskLeaders(w)
  \/ DeleteAll(w) \/ EndReplace(w) \/ Fault(w)

HallNext ==
  \/ NextDay
  \/ \E p \in Polls : MakePoll(p) \/ CastBallot(p) \/ CancelBallot(p)
  \/ \E w \in Servers : RebuildSteps(w)

HallSpec == HallInit /\ [][HallNext]_hallVars

-----------------------------------------------------------------------------
HallTypeOK ==
  /\ board \in HallBoards /\ today \in Days
  /\ made \in [Polls -> Days \cup {Never}]
  /\ ballots \in [Polls -> Nat] /\ earlier \in [Polls -> Nat]
  /\ total \in [Polls -> Nat]
  /\ hall \in [Ranked(board) -> {"old", "new"}]
  /\ phase \in [Servers -> Phases]
  /\ rank \in [Servers -> Nat]
  /\ \A w \in Servers : phase[w] \in {"replace", "delete"} =>
                          rank[w] \in DOMAIN Rebuild[board].ranks
  /\ left \in [Servers -> SUBSET Polls]
  /\ counting \in [Servers -> {Nothing} \cup (Polls \X (Nat \cup {NaN}))]
  /\ \A w \in Servers : phase[w] = "write" => counting[w] # Nothing
  /\ fired \in [Servers -> Days \cup {Never}]
  /\ weeks \in [Polls -> SUBSET Nat]

\* Why the next ones hold, in an inductive form.  A rebuild has still to count
\* only polls of last week, and no poll joins last week during a day; what it
\* has counted, or is about to store, takes in the ballots of the days before.
LeftIsLastWeek ==
  /\ \A w \in Servers : left[w] \subseteq FoundPolls
  /\ \A w \in Servers : phase[w] \in {"idle", "ask", "replace", "delete"} =>
                          left[w] = {}

EarlierAmongThem == \A p \in Polls : ballots[p] >= earlier[p]

SumsCurrent ==
  \A w \in Servers, p \in Polls :
    /\ phase[w] = "write" /\ counting[w][1] = p /\ counting[w][2] # NaN
    => counting[w][2] >= earlier[p]

TotalsCurrent ==
  \A w \in Servers : phase[w] # "idle" =>
    \A p \in FoundPolls \ left[w] : total[p] >= earlier[p]

WeekAfterMade ==
  \A p \in Polls :
    weeks[p] \subseteq (IF made[p] = Never THEN {} ELSE {made[p] \div 7 + 1})

HallInv ==
  /\ HallTypeOK /\ LeftIsLastWeek /\ EarlierAmongThem /\ SumsCurrent
  /\ TotalsCurrent /\ WeekAfterMade

\* No rebuild ever changes a ranking: each DELETE is rolled back, by a TypeError
\* where the leaders are promises, and where they are awaited a query that
\* names an unknown column ends the rebuild before the first DELETE.
HallsUntouched == [][hall' = hall]_hallVars

\* Leaders are asked for only when the stored totals of last week's polls take
\* in every ballot that was cast before that day and stands, whatever other
\* servers write and voters cancel meanwhile: a recount that leaves ballots out,
\* as the humor and the political one do, ends the rebuild instead.
RankedOnlyWhenCounted ==
  \A w \in Servers : phase[w] \in {"ask", "replace", "delete"} =>
    \A p \in FoundPolls : total[p] >= earlier[p]

\* Each poll is recounted in one week only, by cron or by hand: the weeks
\* neither overlap at their Sunday nor shift with the day of the rebuild.
CountedInOneWeek ==
  \A p \in Polls : \A i, j \in weeks[p] : i = j

=============================================================================
