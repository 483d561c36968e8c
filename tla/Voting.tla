------------------------------- MODULE Voting -------------------------------
(***************************************************************************)
(* Voting on one poll (src/src/trials/vote/vote.service.ts and its copies  *)
(* for humors and political debates), reached from the 'createVote' socket *)
(* event of events.gateway.ts and from the DELETE routes of the humor and  *)
(* the political board, which let any signed-in user cancel any ballot.    *)
(* On the trial board the route is POST :voteId (the two decorators of     *)
(* vote.controller.ts:38 and :87 stand over one method): it has no id to   *)
(* cancel by, and no ballot changes.                                       *)
(*                                                                         *)
(* A session is one handler in flight: a socket or a tab.  Two sessions    *)
(* with one user are that user's two tabs, or a double click.  Every       *)
(* action ends at an await of the handler, where others may run.           *)
(*                                                                         *)
(* The EachVote table has no unique key.  An id is a position of rows:     *)
(* INSERT appends, a deleted row reads "none".  The columns userId and ip  *)
(* of an id are written by its INSERT and never updated (save() writes     *)
(* the changed column voteFor only, and a re-INSERT repeats the values it  *)
(* had loaded), so they stand apart, in owner.  A handler reads and writes *)
(* the master only; the slave matters to the counts (module VoteRoom).     *)
(*                                                                         *)
(* A write and the COMMIT that follows it are one step: until COMMIT the   *)
(* others read the old row, and a second writer of the row only waits.     *)
(***************************************************************************)
EXTENDS Naturals, Sequences, FiniteSets

CONSTANTS
  Sessions,     \* handlers in flight
  Users,        \* accounts
  Ips,          \* remote addresses
  Guest,        \* socket.userId of a visitor without a token (undefined)
  UserOf,       \* the account of a session, or Guest
  IpOf,         \* the remote address of a session
  Conns,        \* connections of the pool of the master database
  NoConn,
  HttpCancels,  \* whether the board has the DELETE route
  MaxRequests,  \* bound: requests made in a behaviour
  FaultPoints   \* statements that may fail (a query may reject at any time)

Statements == {"begin", "lookup", "insert", "reload", "update", "reinsert",
               "delete", "commit"}

ASSUME IdentityAssumption ==
  /\ UserOf \in [Sessions -> Users \cup {Guest}]
  /\ IpOf \in [Sessions -> Ips]
  /\ Guest \notin Users
  /\ Users \cap Ips = {}

ASSUME PoolAssumption ==
  /\ IsFiniteSet(Sessions)
  /\ IsFiniteSet(Conns)
  /\ NoConn \notin Conns

ASSUME BoardAssumption == HttpCancels \in BOOLEAN

ASSUME BoundAssumption == MaxRequests \in Nat /\ FaultPoints \subseteq Statements

VARIABLES
  rows,     \* master EachVote: rows[id] is the side voted for, or "none"
  owner,    \* owner[id]: who the row was inserted for
  pc,       \* where each session's handler stands
  side,     \* voteFor of the request
  target,   \* id the lookup found or the route was given, 0 for none
  txn,      \* the connection of the session's queryRunner
  aux,      \* the connection of a repository call made next to it
  leaked,   \* connections never given back to the pool
  issued,   \* requests made so far (bounded by MaxRequests)
  raced     \* history: voters for whom two requests were to write at once

store  == <<rows, owner>>
pool   == <<txn, aux, leaked>>
vars   == <<rows, owner, pc, side, target, txn, aux, leaked, issued, raced>>

Sides      == {"for", "against"}
Identities == [user : Users \cup {Guest}, ip : Ips]
Voters     == Users \cup Ips
Labels     == Statements \cup {"idle", "connect", "cancel", "rollback",
                               "release", "count"}

Opposite(x)  == IF x = "for" THEN "against" ELSE "for"
Identity(s)  == [user |-> UserOf[s], ip |-> IpOf[s]]
Voter(id)    == IF id.user # Guest THEN id.user ELSE id.ip
Ids          == DOMAIN rows
Live(i)      == rows[i] # "none"
Free         == {c \in Conns \ leaked : \A s \in Sessions : c \notin {txn[s], aux[s]}}

\* Sessions between the read that fixed their target and the write on it.
Deciding == {"insert", "reload", "update", "reinsert", "cancel", "delete"}

-----------------------------------------------------------------------------
Init ==
  /\ rows = <<>> /\ owner = <<>>
  /\ pc = [s \in Sessions |-> "idle"]
  /\ side = [s \in Sessions |-> "for"]
  /\ target = [s \in Sessions |-> 0]
  /\ txn = [s \in Sessions |-> NoConn]
  /\ aux = [s \in Sessions |-> NoConn]
  /\ leaked = {} /\ issued = 0 /\ raced = {}

Goto(s, label) == pc' = [pc EXCEPT ![s] = label]

\* A session fixes its target: note a race with the sessions that hold the
\* same row, or, when no row was found, that are about to insert for the
\* same voter.
Rivals(s, i) ==
  {t \in Sessions \ {s} :
     /\ pc[t] \in Deciding
     /\ target[t] = i
     /\ i = 0 => Voter(Identity(t)) = Voter(Identity(s))}

Aim(s, i) ==
  /\ target' = [target EXCEPT ![s] = i]
  /\ raced' = IF Rivals(s, i) = {} THEN raced
              ELSE raced \cup {Voter(IF i = 0 THEN Identity(s) ELSE owner[i])}

-----------------------------------------------------------------------------
(* addVoteUserorNanUser: connect and begin stand before its try block.     *)

CreateVote(s, voteFor) ==
  /\ pc[s] = "idle" /\ issued < MaxRequests
  /\ Goto(s, "connect")
  /\ side' = [side EXCEPT ![s] = voteFor]
  /\ issued' = issued + 1
  /\ UNCHANGED <<store, pool, target, raced>>

\* Mutation: a second query runner is connected for the lookups.
ConnectTwo(s) ==
  /\ pc[s] = "connect"
  /\ \E c, d \in Free : /\ c # d
                       /\ txn' = [txn EXCEPT ![s] = c]
                       /\ aux' = [aux EXCEPT ![s] = d]
  /\ Goto(s, "begin")
  /\ UNCHANGED <<store, leaked, side, target, issued, raced>>

Connect(s) ==
  /\ pc[s] = "connect"
  /\ \E c \in Free : txn' = [txn EXCEPT ![s] = c]
  /\ Goto(s, "begin")
  /\ UNCHANGED <<store, aux, leaked, side, target, issued, raced>>

StartTransaction(s) ==
  /\ pc[s] = "begin"
  /\ Goto(s, "lookup")
  /\ UNCHANGED <<store, pool, side, target, issued, raced>>

-----------------------------------------------------------------------------
(* validationAndSaveVote.  A signed-in request looks its row up by userId, *)
(* a guest's by ip, which the rows of signed-in voters carry as well.      *)

\* Mutation: soft-deleted rows are found as well.
MatchesDeleted(s, i) ==
  IF UserOf[s] # Guest THEN owner[i].user = UserOf[s] ELSE owner[i].ip = IpOf[s]

\* Mutation: a signed-in voter's row is looked up by userId and ip.
MatchesBoth(s, i) ==
  /\ Live(i)
  /\ IF UserOf[s] # Guest THEN owner[i] = Identity(s)
                          ELSE owner[i].ip = IpOf[s]

\* Mutation: a signed-in voter's row is looked up by address, as a guest's.
MatchesAddress(s, i) == Live(i) /\ owner[i].ip = IpOf[s]

Matches(s, i) ==
  /\ Live(i)
  /\ IF UserOf[s] # Guest THEN owner[i].user = UserOf[s]
                          ELSE owner[i].ip = IpOf[s]

FindNothing(s) ==
  /\ pc[s] = "lookup"
  /\ \A i \in Ids : ~Matches(s, i)
  /\ Aim(s, 0)
  /\ Goto(s, "insert")
  /\ UNCHANGED <<store, pool, side, issued>>

\* Mutation: the side of the ballot is not compared.
FindBallotCancels(s) ==
  /\ pc[s] = "lookup"
  /\ \E i \in Ids : Matches(s, i) /\ Aim(s, i)
  /\ Goto(s, "cancel")
  /\ UNCHANGED <<store, pool, side, issued>>

FindBallot(s) ==
  /\ pc[s] = "lookup"
  /\ \E i \in Ids :
       /\ Matches(s, i)
       /\ Aim(s, i)
       /\ Goto(s, IF rows[i] = side[s] THEN "cancel" ELSE "reload")
  /\ UNCHANGED <<store, pool, side, issued>>

\* Mutation: the row is saved without its identity columns.
InsertAnonymous(s) ==
  /\ pc[s] = "insert"
  /\ rows' = Append(rows, side[s])
  /\ Goto(s, "release")
  /\ UNCHANGED <<owner, pool, side, target, issued, raced>>

Insert(s) ==
  /\ pc[s] = "insert"
  /\ rows' = Append(rows, side[s])
  /\ owner' = Append(owner, Identity(s))
  /\ Goto(s, "release")
  /\ UNCHANGED <<pool, side, target, issued, raced>>

\* save() of a loaded entity selects its row again and compares.
Reload(s) ==
  /\ pc[s] = "reload"
  /\ Goto(s, IF ~Live(target[s]) THEN "reinsert"
             ELSE IF rows[target[s]] = side[s] THEN "commit" ELSE "update")
  /\ UNCHANGED <<store, pool, side, target, issued, raced>>

\* UPDATE ... WHERE id: a row deleted meanwhile is not missed by anyone.
Update(s) ==
  /\ pc[s] = "update"
  /\ IF Live(target[s]) THEN rows' = [rows EXCEPT ![target[s]] = side[s]]
                        ELSE UNCHANGED rows
  /\ Goto(s, "release")
  /\ UNCHANGED <<owner, pool, side, target, issued, raced>>

\* The row was gone when save() looked: the entity is inserted under its id,
\* unless someone else did so first (primary key violation).
Reinsert(s) ==
  /\ pc[s] = "reinsert"
  /\ IF Live(target[s])
     THEN UNCHANGED rows /\ Goto(s, "rollback")
     ELSE rows' = [rows EXCEPT ![target[s]] = side[s]] /\ Goto(s, "release")
  /\ UNCHANGED <<owner, pool, side, target, issued, raced>>

-----------------------------------------------------------------------------
(* canselEachVote: a repository call, so a second connection of the pool,  *)
(* and a DELETE that commits by itself.                                    *)

AcquireSecond(s) ==
  /\ pc[s] = "cancel"
  /\ \E c \in Free : aux' = [aux EXCEPT ![s] = c]
  /\ Goto(s, "delete")
  /\ UNCHANGED <<store, txn, leaked, side, target, issued, raced>>

\* Mutation: a DELETE that affected no row is tried again.
DeleteRetries(s) ==
  /\ pc[s] = "delete"
  /\ IF Live(target[s])
     THEN /\ rows' = [rows EXCEPT ![target[s]] = "none"]
          /\ Goto(s, IF txn[s] = NoConn THEN "release" ELSE "commit")
     ELSE /\ UNCHANGED rows
          /\ Goto(s, "cancel")
  /\ aux' = [aux EXCEPT ![s] = NoConn]
  /\ UNCHANGED <<owner, txn, leaked, side, target, issued, raced>>

Delete(s) ==
  /\ pc[s] = "delete"
  /\ IF Live(target[s])
     THEN /\ rows' = [rows EXCEPT ![target[s]] = "none"]
          /\ Goto(s, IF txn[s] = NoConn THEN "release" ELSE "commit")
     ELSE /\ UNCHANGED rows
          /\ Goto(s, "rollback")
  /\ aux' = [aux EXCEPT ![s] = NoConn]
  /\ UNCHANGED <<owner, txn, leaked, side, target, issued, raced>>

-----------------------------------------------------------------------------
(* The way out: COMMIT of a transaction that wrote nothing itself, ROLLBACK *)
(* and the error reply, and the release of the finally block.              *)

Commit(s) ==
  /\ pc[s] = "commit"
  /\ Goto(s, "release")
  /\ UNCHANGED <<store, pool, side, target, issued, raced>>

\* The HTTP route, which has no transaction, replies here.
Release(s) ==
  /\ pc[s] = "release"
  /\ Goto(s, IF txn[s] = NoConn THEN "idle" ELSE "count")
  /\ txn' = [txn EXCEPT ![s] = NoConn]
  /\ UNCHANGED <<store, aux, leaked, side, target, issued, raced>>

\* Mutation: the error path forgets the finally block.
RollbackKeepsConnection(s) ==
  /\ pc[s] = "rollback"
  /\ Goto(s, "idle")
  /\ UNCHANGED <<store, pool, side, target, issued, raced>>

Rollback(s) ==
  /\ pc[s] = "rollback"
  /\ Goto(s, "idle")
  /\ txn' = [txn EXCEPT ![s] = NoConn]
  /\ UNCHANGED <<store, aux, leaked, side, target, issued, raced>>

\* The gateway goes on to count and to tell the room (module VoteRoom).
Answer(s) ==
  /\ pc[s] = "count"
  /\ Goto(s, "idle")
  /\ UNCHANGED <<store, pool, side, target, issued, raced>>

\* A statement is rejected.  Before the try block nothing gives the
\* connection back; inside it the handler rolls back and releases.
Fault(s) ==
  /\ pc[s] \in FaultPoints
  /\ IF pc[s] = "begin"
     THEN /\ Goto(s, "idle")
          /\ leaked' = leaked \cup {txn[s]}
          /\ txn' = [txn EXCEPT ![s] = NoConn]
     ELSE Goto(s, "rollback") /\ UNCHANGED <<txn, leaked>>
  /\ aux' = [aux EXCEPT ![s] = NoConn]
  /\ UNCHANGED <<store, side, target, issued, raced>>

-----------------------------------------------------------------------------
(* DELETE humors/vote/:humorVoteId/:uservoteId and its political copy: the  *)
(* id comes from the address, and nobody asks whose ballot it is.           *)

CancelByHttp(s) ==
  /\ HttpCancels
  /\ pc[s] = "idle" /\ issued < MaxRequests
  /\ UserOf[s] # Guest
  /\ \E i \in Ids : Aim(s, i)
  /\ Goto(s, "cancel")
  /\ issued' = issued + 1
  /\ UNCHANGED <<store, pool, side>>

-----------------------------------------------------------------------------
Acquire(s) == Connect(s) \/ AcquireSecond(s)

Handle(s) ==
  \/ StartTransaction(s) \/ FindNothing(s) \/ FindBallot(s) \/ Insert(s)
  \/ Reload(s) \/ Update(s) \/ Reinsert(s) \/ Delete(s) \/ Commit(s)
  \/ Release(s) \/ Rollback(s)

Request(s) == (\E voteFor \in Sides : CreateVote(s, voteFor)) \/ CancelByHttp(s)

\* What the vote service does; the gateway's Answer comes on top of it.
ServiceNext ==
  \E s \in Sessions : Request(s) \/ Acquire(s) \/ Handle(s) \/ Fault(s)

Next == ServiceNext \/ \E s \in Sessions : Answer(s)

\* A promise of a handler settles; the pool serves its waiters first in,
\* first out, so one that finds a connection free again and again gets it.
Fairness ==
  \A s \in Sessions : WF_vars(Handle(s) \/ Answer(s)) /\ SF_vars(Acquire(s))

Spec == Init /\ [][Next]_vars /\ Fairness

-----------------------------------------------------------------------------
(* Invariants                                                              *)

Tables == Seq(Sides \cup {"none"})

\* Every variable has its type, an id of any table has an owner, a target is an
\* id, and a session about to begin its transaction has a connection for it.
TypeOK ==
  /\ rows \in Tables
  /\ owner \in Seq(Identities) /\ Len(owner) = Len(rows)
  /\ pc \in [Sessions -> Labels]
  /\ side \in [Sessions -> Sides]
  /\ target \in [Sessions -> 0..Len(rows)]
  /\ txn \in [Sessions -> Conns \cup {NoConn}]
  /\ aux \in [Sessions -> Conns \cup {NoConn}]
  /\ \A s \in Sessions : pc[s] = "begin" => txn[s] # NoConn
  /\ leaked \subseteq Conns
  /\ issued \in 0..MaxRequests
  /\ raced \subseteq Voters

SameVoter(i, j) == Voter(owner[i]) = Voter(owner[j])

\* A voter for whom no two requests were to write at once has at most one
\* ballot on the poll.  Nothing but the order of lookup and save in
\* validationAndSaveVote keeps it so: the table has no unique key.
OneBallotUnlessRaced ==
  \A i, j \in Ids :
    Live(i) /\ Live(j) /\ SameVoter(i, j) /\ i # j => Voter(owner[i]) \in raced

\* Why it holds, in an inductive form.  A request about to insert found nothing,
\* and nothing came since unless the voter raced; two requests that hold one
\* row, or are about to insert for one voter, raced; so only for a voter who
\* raced can the row a request has loaded be gone when it saves.
Holding == Deciding \ {"insert"}

Pending(s) == IF pc[s] = "insert" THEN target[s] = 0 ELSE target[s] # 0

InsertersClear ==
  \A s \in Sessions, i \in Ids :
    pc[s] = "insert" /\ Live(i) /\ Voter(owner[i]) = Voter(Identity(s)) =>
      Voter(owner[i]) \in raced

InsertersApart ==
  \A s, t \in Sessions :
    /\ s # t /\ pc[s] = "insert" /\ pc[t] = "insert"
    /\ Voter(Identity(s)) = Voter(Identity(t))
    => Voter(Identity(s)) \in raced

HoldersApart ==
  \A s, t \in Sessions :
    s # t /\ {pc[s], pc[t]} \subseteq Holding /\ target[s] = target[t] =>
      Voter(owner[target[s]]) \in raced

SaversCurrent ==
  \A s \in Sessions :
    pc[s] \in {"reload", "update", "reinsert"} /\ ~Live(target[s]) =>
      Voter(owner[target[s]]) \in raced

RaceInv ==
  /\ \A s \in Sessions : pc[s] \in Deciding => Pending(s)
  /\ InsertersClear /\ InsertersApart /\ HoldersApart /\ SaversCurrent
  /\ OneBallotUnlessRaced

\* A connection belongs to one session, in one role, and a session outside its
\* transaction owns none: the finally block of addVoteUserorNanUser gives back
\* what connect() took, on every path that enters the try block.
ConnectionsOwnedOnce ==
  /\ \A s \in Sessions :
       /\ pc[s] \in {"idle", "connect", "count"} => txn[s] = NoConn
       /\ pc[s] # "delete" => aux[s] = NoConn
       /\ {txn[s], aux[s]} \cap leaked = {}
       /\ txn[s] # NoConn => txn[s] # aux[s]
  /\ \A s, t \in Sessions :
       s # t => ({txn[s], aux[s]} \cap {txn[t], aux[t]}) \subseteq {NoConn}

\* Everyone who could give a connection back waits for one.
Waiting(s) == pc[s] \in {"connect", "cancel"}
Jammed ==
  /\ Free = {}
  /\ \E s \in Sessions : Waiting(s)
  /\ \A s \in Sessions : pc[s] \in {"idle", "count"} \/ Waiting(s)

\* canselEachVote takes a second connection while the request holds its first:
\* one connection more than there are handlers in flight is what keeps the
\* pool from a deadlock that only a restart would end.
PoolNeverJams ==
  Cardinality(Conns \ leaked) > Cardinality(Sessions) => ~Jammed

-----------------------------------------------------------------------------
(* Action properties                                                       *)

\* Whose ballots a request may touch: its account's, or, for a guest, any that
\* came from its address.
Reaches(s, i) ==
  IF UserOf[s] # Guest THEN owner[i].user = UserOf[s]
                       ELSE owner[i].ip = IpOf[s]

\* A request of the DELETE route, which holds no transaction.
CancelsOverHttp(s) == HttpCancels /\ UserOf[s] # Guest /\ txn[s] = NoConn

\* What a request may make of ballot i: the side it asked for, or none, if it
\* reaches the ballot; over HTTP none of any.
MayTurn(s, i, x) ==
  \/ txn[s] # NoConn /\ Reaches(s, i) /\ x \in {side[s], "none"}
  \/ CancelsOverHttp(s) /\ x = "none"

\* Nobody votes in another's name: a ballot takes a side only in a transaction
\* of a request that reaches it and asked for that side.  It disappears in such
\* a transaction too, or, on the boards with the DELETE route, when anybody who
\* is signed in cancels it there.
TouchedByItsVoter ==
  [][\A i \in Ids : rows'[i] # rows[i] =>
       \E s \in Sessions : pc'[s] # pc[s] /\ MayTurn(s, i, rows'[i])]_rows

\* A cancelled ballot comes back under its old id only for a voter who raced:
\* save() on an entity somebody deleted inserts it again.
CancelledStaysCancelled ==
  [][\A i \in Ids : ~Live(i) /\ rows'[i] # "none" =>
       Voter(owner[i]) \in raced]_rows

-----------------------------------------------------------------------------
(* Liveness                                                                *)

\* Every vote request is answered, cancelling ones included.
EveryRequestEnds == \A s \in Sessions : pc[s] # "idle" ~> pc[s] = "idle"

-----------------------------------------------------------------------------
(* Refinement: with one session per voter, and no guest behind an address a *)
(* signed-in voter shares, the handlers implement one ballot per voter.     *)

SessionOf(v) == CHOOSE s \in Sessions : Voter(Identity(s)) = v

BallotsOf(v) == {i \in Ids : Live(i) /\ Voter(owner[i]) = v}

BallotOf(v) ==
  IF BallotsOf(v) = {} THEN "none" ELSE rows[CHOOSE i \in BallotsOf(v) : TRUE]

\* What the voter is waiting for.  An HTTP cancel holds no transaction.
WantOf(s) ==
  CASE pc[s] = "idle" -> "nothing"
    [] pc[s] \in {"commit", "rollback", "release", "count"} -> "reply"
    [] pc[s] \in {"cancel", "delete"} /\ txn[s] = NoConn -> "retract"
    [] OTHER -> side[s]

ActiveVoters == {Voter(Identity(s)) : s \in Sessions}
HttpVoters   == {Voter(Identity(s)) : s \in {t \in Sessions : HttpCancels /\ UserOf[t] # Guest}}

Ballots == INSTANCE BallotBox WITH
  Voters <- ActiveVoters,
  Cancellers <- HttpVoters,
  ballot <- [v \in ActiveVoters |-> BallotOf(v)],
  want   <- [v \in ActiveVoters |-> WantOf(SessionOf(v))]

\* The handlers implement BallotBox: every click is applied at most once, as
\* an atomic toggle of that voter's ballot, and every click is answered;
\* and so too when a stranger cancels the ballot a handler is about to save.
ImplementsBallotBox == Ballots!Spec

-----------------------------------------------------------------------------
(* Why every step of the handlers is one of BallotBox, in an inductive form. *)

\* No voter has two handlers in flight, and nobody else is behind the address a
\* guest votes from.
NobodyShares ==
  \A s, t \in Sessions :
    \/ Voter(Identity(s)) = Voter(Identity(t))
    \/ UserOf[s] = Guest /\ IpOf[s] = IpOf[t]
    => s = t

\* What a handler between its lookup and its write still knows: nothing was
\* found and there is nothing, or nothing but the row it holds; a click that
\* cancels finds the side it clicked, if the row is still there.
HoldsBallot(s) ==
  /\ pc[s] = "insert" => BallotsOf(Voter(Identity(s))) = {}
  /\ pc[s] \in Holding /\ txn[s] # NoConn =>
       BallotsOf(Voter(Identity(s))) \subseteq {target[s]}
  /\ pc[s] \in {"cancel", "delete"} /\ txn[s] # NoConn /\ Live(target[s]) =>
       rows[target[s]] = side[s]

\* A row is somebody's, nobody has two, and nobody but a stranger's DELETE
\* takes away what a handler holds.
AloneInv ==
  /\ \A i \in Ids : \E s \in Sessions : owner[i] = Identity(s)
  /\ \A i, j \in Ids : Live(i) /\ Live(j) /\ SameVoter(i, j) => i = j
  /\ \A s \in Sessions : HoldsBallot(s)
=============================================================================
