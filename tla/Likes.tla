------------------------------- MODULE Likes --------------------------------
(***************************************************************************)
(* Liking one board (src/src/like/like.service.ts, reached from the 'like' *)
(* socket event and from POST like/:boardId).                              *)
(*                                                                         *)
(* The like table and the counter column board.like are written one after  *)
(* the other, each in a transaction of its own, after a lookup that reads  *)
(* the slave.  The table is unique on (board, user); its keys are uuids,   *)
(* here serial numbers, so that a row removed and inserted again is        *)
(* another row.  The counter is moved by UPDATE ... SET like = like + 1.   *)
(***************************************************************************)
EXTENDS Naturals, Integers, Sequences, FiniteSets

CONSTANTS
  Sessions,   \* handlers in flight
  Users,      \* accounts
  Guest,      \* socket.userId of a visitor without a token (undefined)
  UserOf,     \* the account of a session, or Guest
  MaxClicks   \* bound: clicks made in a behaviour

ASSUME SessionAssumption ==
  /\ IsFiniteSet(Sessions) /\ IsFiniteSet(Users)
  /\ Guest \notin Users
  /\ UserOf \in [Sessions -> Users \cup {Guest}]

ASSUME BoundAssumption == MaxClicks \in Nat

VARIABLES
  row,      \* master: the like row of each user, 0 when there is none
  count,    \* master: board.like
  open,     \* master: the board is not (soft-)deleted
  replica,  \* the slave's copy of the three
  wal,      \* versions of it the slave has not applied yet
  serial,   \* rows inserted so far
  pc,       \* where each session's handler stands
  aim,      \* the user whose row the session is about to write
  hold,     \* the row its lookup found, 0 for none
  clicks,   \* clicks made so far (bounded by MaxClicks)
  excused,  \* history: users whose lookups were stale or overlapped
  failed    \* history: a statement after the row was written was rejected

master == <<row, count, open>>
store  == <<row, count, open, replica, wal>>
notes  == <<excused, failed>>
vars   == <<row, count, open, replica, wal, serial, pc, aim, hold, clicks,
            excused, failed>>

Version   == [row : [Users -> Nat], count : Int, open : BOOLEAN]
Labels    == {"idle", "board", "lookup", "save", "remove", "increment",
              "decrement", "reply"}
Likers    == {u \in Users : row[u] # 0}
Deciding  == {"save", "remove"}
At(label) == {s \in Sessions : pc[s] = label}

-----------------------------------------------------------------------------
Init ==
  /\ row = [u \in Users |-> 0] /\ count = 0 /\ open = TRUE
  /\ replica = [row |-> row, count |-> count, open |-> open]
  /\ wal = <<>> /\ serial = 0
  /\ pc = [s \in Sessions |-> "idle"]
  /\ aim = [s \in Sessions |-> Guest]
  /\ hold = [s \in Sessions |-> 0]
  /\ clicks = 0 /\ excused = {} /\ failed = FALSE

Goto(s, label) == pc' = [pc EXCEPT ![s] = label]

\* A commit reaches the slave later.
Ship == /\ wal' = Append(wal, [row |-> row', count |-> count', open |-> open'])
        /\ UNCHANGED replica

Click(s) ==
  /\ pc[s] = "idle" /\ clicks < MaxClicks
  /\ Goto(s, "board")
  /\ clicks' = clicks + 1
  /\ UNCHANGED <<store, serial, aim, hold, notes>>

CheckBoard(s) ==
  /\ pc[s] = "board"
  /\ Goto(s, IF replica.open THEN "lookup" ELSE "idle")
  /\ UNCHANGED <<store, serial, aim, hold, clicks, notes>>

\* Someone else is between a lookup that concerns u and its write.
Rival(s, u) == \E t \in Sessions \ {s} : pc[t] \in Deciding /\ aim[t] = u

Aim(s, u, r) ==
  /\ aim' = [aim EXCEPT ![s] = u]
  /\ hold' = [hold EXCEPT ![s] = r]
  /\ excused' = IF u \in Users /\ (r # row[u] \/ Rival(s, u))
                THEN excused \cup {u} ELSE excused
  /\ UNCHANGED failed

\* Mutation: the lookup is by board alone.
CandidatesAll(s) == Users

\* findOne() drops a condition on an undefined userId: a guest's lookup finds
\* anyone's row.
Candidates(s) == IF UserOf[s] = Guest THEN Users ELSE {UserOf[s]}

FindLike(s) ==
  /\ pc[s] = "lookup"
  /\ \E u \in Candidates(s) :
       replica.row[u] # 0 /\ Aim(s, u, replica.row[u])
  /\ Goto(s, "remove")
  /\ UNCHANGED <<store, serial, clicks>>

FindNoLike(s) ==
  /\ pc[s] = "lookup"
  /\ \A u \in Candidates(s) : replica.row[u] = 0
  /\ Aim(s, UserOf[s], 0)
  /\ Goto(s, "save")
  /\ UNCHANGED <<store, serial, clicks>>

\* Mutation: a row inserted again gets a key nobody counts.
SaveUncounted(s) ==
  /\ pc[s] = "save"
  /\ IF aim[s] \in Users /\ row[aim[s]] = 0
     THEN /\ row' = [row EXCEPT ![aim[s]] = serial + 1]
          /\ UNCHANGED <<count, open, serial>> /\ Ship
          /\ Goto(s, "increment")
     ELSE Goto(s, "idle") /\ UNCHANGED <<store, serial>>
  /\ UNCHANGED <<aim, hold, clicks, notes>>

\* userId is NOT NULL and (board, user) is unique: save() may be rejected.
Save(s) ==
  /\ pc[s] = "save"
  /\ IF aim[s] \in Users /\ row[aim[s]] = 0
     THEN /\ serial' = serial + 1
          /\ row' = [row EXCEPT ![aim[s]] = serial + 1]
          /\ UNCHANGED <<count, open>> /\ Ship
          /\ Goto(s, "increment")
     ELSE Goto(s, "idle") /\ UNCHANGED <<store, serial>>
  /\ UNCHANGED <<aim, hold, clicks, notes>>

\* DELETE by uuid.  Nobody looks at the number of rows it removed.
Remove(s) ==
  /\ pc[s] = "remove"
  /\ IF row[aim[s]] = hold[s]
     THEN row' = [row EXCEPT ![aim[s]] = 0] /\ UNCHANGED <<count, open>> /\ Ship
     ELSE UNCHANGED store
  /\ Goto(s, "decrement")
  /\ UNCHANGED <<serial, aim, hold, clicks, notes>>

\* Mutation: the new count is computed from the count a plain find read.
IncrementReadWrite(s) ==
  /\ pc[s] = "increment"
  /\ count' = replica.count + 1 /\ UNCHANGED <<row, open>> /\ Ship
  /\ Goto(s, "reply")
  /\ UNCHANGED <<serial, aim, hold, clicks, notes>>

Increment(s) ==
  /\ pc[s] = "increment"
  /\ count' = count + 1 /\ UNCHANGED <<row, open>> /\ Ship
  /\ Goto(s, "reply")
  /\ UNCHANGED <<serial, aim, hold, clicks, notes>>

Decrement(s) ==
  /\ pc[s] = "decrement"
  /\ count' = count - 1 /\ UNCHANGED <<row, open>> /\ Ship
  /\ Goto(s, "reply")
  /\ UNCHANGED <<serial, aim, hold, clicks, notes>>

\* The count is read again, from the slave, and told to everyone.
Reply(s) ==
  /\ pc[s] = "reply"
  /\ Goto(s, "idle")
  /\ UNCHANGED <<store, serial, aim, hold, clicks, notes>>

\* A statement is rejected, or the process stops.  There is no transaction
\* around the row and the counter.
Fault(s) ==
  /\ pc[s] # "idle"
  /\ Goto(s, "idle")
  /\ failed' = (failed \/ pc[s] \in {"increment", "decrement"})
  /\ UNCHANGED <<store, serial, aim, hold, clicks, excused>>

\* The author deletes the board (a soft delete); the row stays.
DeleteBoard ==
  /\ open
  /\ open' = FALSE /\ UNCHANGED <<row, count>> /\ Ship
  /\ UNCHANGED <<serial, pc, aim, hold, clicks, notes>>

Replicate ==
  /\ wal # <<>>
  /\ replica' = Head(wal) /\ wal' = Tail(wal)
  /\ UNCHANGED <<master, serial, pc, aim, hold, clicks, notes>>

Handle(s) ==
  \/ CheckBoard(s) \/ FindLike(s) \/ FindNoLike(s) \/ Save(s) \/ Remove(s)
  \/ Increment(s) \/ Decrement(s) \/ Reply(s)

Next ==
  \/ \E s \in Sessions : Click(s) \/ Handle(s) \/ Fault(s)
  \/ DeleteBoard \/ Replicate

Spec == Init /\ [][Next]_vars

-----------------------------------------------------------------------------
\* Every variable has its type; only a session that found a row is about to
\* remove one, and rows carry the serial numbers given out so far.
TypeOK ==
  /\ row \in [Users -> 0..serial] /\ count \in Int /\ open \in BOOLEAN
  /\ replica \in Version /\ wal \in Seq(Version)
  /\ serial \in Nat
  /\ pc \in [Sessions -> Labels]
  /\ aim \in [Sessions -> Users \cup {Guest}]
  /\ hold \in [Sessions -> Nat]
  /\ clicks \in 0..MaxClicks
  /\ excused \subseteq Users /\ failed \in BOOLEAN
  /\ \A s \in Sessions : pc[s] = "remove" => aim[s] \in Users /\ hold[s] # 0

\* What a request is about to write is still what its lookup read, unless a
\* lookup for that user was stale or overlapped another request.
WritesCurrent ==
  \A s \in Sessions :
    pc[s] \in Deciding /\ aim[s] \in Users \ excused => row[aim[s]] = hold[s]

WritersApart ==
  \A s, t \in Sessions :
    /\ s # t /\ {pc[s], pc[t]} \subseteq Deciding
    /\ aim[s] = aim[t] /\ aim[s] \in Users
    => aim[s] \in excused

\* The counter runs behind the table by the steps still to be made.
Balanced ==
  count + Cardinality(At("increment")) =
    Cardinality(Likers) + Cardinality(At("decrement"))

Exact == excused = {} /\ ~failed

LikesInv == WritesCurrent /\ WritersApart /\ (Exact => Balanced)

\* board.like is the number of like rows whenever no like is in flight, as
\* long as no lookup of like() was stale or overlapped another click of the
\* same user and no counter statement failed: the two writes of like() share
\* no transaction, and the row it removes may be gone already.
CounterExact ==
  Exact /\ (\A s \in Sessions : pc[s] = "idle") => count = Cardinality(Likers)

\* A like appears only in a click of its user, and disappears only in a click
\* of its user or of a guest (whose lookup in like() is not by user at all).
LikesTouchedByTheirUser ==
  [][\A u \in Users : row'[u] # row[u] =>
       \E s \in Sessions :
         /\ pc'[s] # pc[s]
         /\ \/ UserOf[s] = u
            \/ UserOf[s] = Guest /\ row'[u] = 0]_row
=============================================================================
