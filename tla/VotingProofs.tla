---------------------------- MODULE VotingProofs ----------------------------
(***************************************************************************)
(* Theorems about Voting, for every set of sessions, every assignment of   *)
(* accounts and addresses, every pool and every choice of failing          *)
(* statements; and that the handlers are BallotBox where nobody shares.    *)
(***************************************************************************)
EXTENDS Voting, TLAPS, FiniteSetTheorems, FunctionTheorems

\* Who a session votes as is a voter.
LEMMA VoterType ==
  ASSUME NEW id \in Identities
  PROVE  Voter(id) \in Voters
BY IdentityAssumption DEF Identities, Voter, Voters

LEMMA IdentityType ==
  ASSUME NEW s \in Sessions
  PROVE  Identity(s) \in Identities
BY IdentityAssumption DEF Identity, Identities

\* Tables stay tables when a row is appended or replaced.
LEMMA AppendType ==
  ASSUME NEW t \in Tables, NEW x \in Sides \cup {"none"}
  PROVE  /\ Append(t, x) \in Tables
         /\ Len(Append(t, x)) = Len(t) + 1
         /\ Len(t) \in Nat
BY DEF Tables

LEMMA ReplaceType ==
  ASSUME NEW t \in Tables, NEW x \in Sides \cup {"none"}, NEW i
  PROVE  /\ [t EXCEPT ![i] = x] \in Tables
         /\ Len([t EXCEPT ![i] = x]) = Len(t)
         /\ Len(t) \in Nat
<1>1. CASE i \in DOMAIN t
  BY <1>1 DEF Tables
<1>2. CASE i \notin DOMAIN t
  <2>1. [t EXCEPT ![i] = x] = t
    BY <1>2 DEF Tables
  <2>2. Len(t) \in Nat
    BY DEF Tables
  <2> QED
    BY <2>1, <2>2
<1> QED
  BY <1>1, <1>2

\* Aim keeps the types of what it changes.
LEMMA AimType ==
  ASSUME TypeOK, NEW s \in Sessions, NEW i \in 0..Len(rows), Aim(s, i)
  PROVE  target' \in [Sessions -> 0..Len(rows)] /\ raced' \subseteq Voters
<1>1. (IF i = 0 THEN Identity(s) ELSE owner[i]) \in Identities
  BY IdentityType DEF TypeOK
<1>2. Voter(IF i = 0 THEN Identity(s) ELSE owner[i]) \in Voters
  BY <1>1, VoterType
<1> QED
  BY <1>2 DEF Aim, TypeOK

-----------------------------------------------------------------------------
(* Type correctness.                                                       *)

LEMMA TypeInit == Init => TypeOK
<1> SUFFICES ASSUME Init PROVE TypeOK
  OBVIOUS
<1>1. rows \in Tables
  BY DEF Init, Tables
<1> QED
  BY <1>1, BoundAssumption DEF Init, TypeOK, Labels, Sides

\* The part of TypeOK that is not about the table.
Handled ==
  /\ owner \in Seq(Identities) /\ Len(owner) = Len(rows)
  /\ pc \in [Sessions -> Labels]
  /\ side \in [Sessions -> Sides]
  /\ target \in [Sessions -> 0..Len(rows)]
  /\ txn \in [Sessions -> Conns \cup {NoConn}]
  /\ aux \in [Sessions -> Conns \cup {NoConn}]
  /\ \A s \in Sessions : pc[s] = "begin" => txn[s] # NoConn
  /\ leaked \subseteq Conns
  /\ issued \in 0..MaxRequests
  /\ raced \subseteq Voters

LEMMA TypeParts == TypeOK <=> rows \in Tables /\ Handled
BY DEF TypeOK, Handled

\* Every action leaves the table alone, appends a row or replaces one.
LEMMA StoredNext == TypeOK /\ [Next]_vars => rows' \in Tables
<1> SUFFICES ASSUME TypeOK, [Next]_vars PROVE rows' \in Tables
  OBVIOUS
<1>0. rows \in Tables /\ side \in [Sessions -> Sides]
  BY DEF TypeOK
<1>1. CASE UNCHANGED rows
  BY <1>0, <1>1
<1>2. ASSUME NEW s \in Sessions, Insert(s) PROVE rows' \in Tables
  BY <1>0, <1>2, AppendType DEF Insert
<1>3. ASSUME NEW s \in Sessions, Update(s) \/ Reinsert(s) \/ Delete(s) PROVE rows' \in Tables
  <2>1. side[s] \in Sides \cup {"none"} /\ "none" \in Sides \cup {"none"}
    BY <1>0
  <2>2. \/ rows' = rows \/ rows' = [rows EXCEPT ![target[s]] = side[s]]
        \/ rows' = [rows EXCEPT ![target[s]] = "none"]
    BY <1>3 DEF Update, Reinsert, Delete
  <2>3. \A x \in Sides \cup {"none"} : [rows EXCEPT ![target[s]] = x] \in Tables
    BY <1>0, ReplaceType
  <2> QED
    BY <1>0, <2>1, <2>2, <2>3
<1> QED
  BY <1>1, <1>2, <1>3
     DEF Next, ServiceNext, vars, store, Request, Acquire, Handle, CreateVote,
         CancelByHttp, Connect, AcquireSecond, StartTransaction, FindNothing,
         FindBallot, Reload, Commit, Release, Rollback, Answer, Fault

\* The handlers' own variables.
LEMMA HandledNext == TypeOK /\ [Next]_vars => Handled'
<1> SUFFICES ASSUME TypeOK, [Next]_vars PROVE Handled'
  OBVIOUS
<1> USE TypeParts DEF Goto, store, pool, Labels, Statements
<1>1. ASSUME NEW s \in Sessions, Request(s) PROVE Handled'
  <2>1. ASSUME NEW x \in Sides, CreateVote(s, x) PROVE Handled'
    BY <2>1, BoundAssumption DEF CreateVote, Handled
  <2>2. ASSUME CancelByHttp(s) PROVE Handled'
    <3>1. PICK i \in Ids : Aim(s, i)
      BY <2>2 DEF CancelByHttp
    <3>2. i \in 0..Len(rows)
      BY DEF Tables, Ids
    <3>3. target' \in [Sessions -> 0..Len(rows)] /\ raced' \subseteq Voters
      BY <3>1, <3>2, AimType
    <3>4. pc' \in [Sessions -> Labels] /\ issued' \in 0..MaxRequests
      BY <2>2, BoundAssumption DEF CancelByHttp, Handled
    <3> QED
      BY <2>2, <3>3, <3>4 DEF CancelByHttp, Handled
  <2> QED
    BY <1>1, <2>1, <2>2 DEF Request
<1>2. ASSUME NEW s \in Sessions, FindNothing(s) PROVE Handled'
  <2>1. 0 \in 0..Len(rows)
    BY DEF Tables
  <2>2. target' \in [Sessions -> 0..Len(rows)] /\ raced' \subseteq Voters
    BY <1>2, <2>1, AimType DEF FindNothing
  <2> QED
    BY <1>2, <2>2 DEF FindNothing, Handled
<1>3. ASSUME NEW s \in Sessions, FindBallot(s) PROVE Handled'
  <2>1. PICK i \in Ids : Aim(s, i) /\ Goto(s, IF rows[i] = side[s] THEN "cancel" ELSE "reload")
    BY <1>3 DEF FindBallot
  <2>2. i \in 0..Len(rows)
    BY DEF Tables, Ids
  <2>3. target' \in [Sessions -> 0..Len(rows)] /\ raced' \subseteq Voters
    BY <2>1, <2>2, AimType
  <2> QED
    BY <1>3, <2>1, <2>3 DEF FindBallot, Handled
<1>4. ASSUME NEW s \in Sessions, Insert(s) PROVE Handled'
  <2>1. side[s] \in Sides /\ rows \in Tables
    BY DEF Handled
  <2>2. rows' = Append(rows, side[s]) /\ Len(rows') = Len(rows) + 1 /\ Len(rows) \in Nat
    BY <1>4, <2>1, AppendType DEF Insert
  <2>3. owner' \in Seq(Identities) /\ Len(owner') = Len(rows')
    BY <1>4, <2>2, IdentityType DEF Insert, Handled
  <2>4. target' \in [Sessions -> 0..Len(rows')]
    BY <1>4, <2>2 DEF Insert, Handled
  <2> QED
    BY <1>4, <2>3, <2>4 DEF Insert, Handled
<1>5. ASSUME NEW s \in Sessions, Update(s) \/ Reinsert(s) \/ Delete(s) PROVE Handled'
  <2>1. side[s] \in Sides /\ rows \in Tables
    BY DEF Handled
  <2>2. ASSUME NEW x \in Sides \cup {"none"}, rows' = [rows EXCEPT ![target[s]] = x]
        PROVE  Len(rows') = Len(rows)
    BY <2>1, <2>2, ReplaceType
  <2>3. Len(rows') = Len(rows)
    BY <1>5, <2>1, <2>2 DEF Update, Reinsert, Delete
  <2> QED
    BY <1>5, <2>3 DEF Update, Reinsert, Delete, Handled
<1>6. ASSUME NEW s \in Sessions,
             StartTransaction(s) \/ Reload(s) \/ Commit(s) \/ Answer(s)
      PROVE  Handled'
  BY <1>6 DEF Handled, StartTransaction, Reload, Commit, Answer
<1>7. ASSUME NEW s \in Sessions, Acquire(s) PROVE Handled'
  <2>1. CASE Connect(s)
    <3>1. PICK c \in Free : txn' = [txn EXCEPT ![s] = c]
      BY <2>1 DEF Connect
    <3>2. c \in Conns /\ c # NoConn
      BY PoolAssumption DEF Free
    <3>3. pc' = [pc EXCEPT ![s] = "begin"] /\ "begin" \in Labels
      BY <2>1 DEF Connect
    <3>4. \A r \in Sessions : pc'[r] = "begin" => txn'[r] # NoConn
      BY <3>1, <3>2, <3>3 DEF Handled
    <3> QED
      BY <2>1, <3>1, <3>2, <3>3, <3>4 DEF Connect, Handled
  <2>2. CASE AcquireSecond(s)
    BY <2>2 DEF Handled, AcquireSecond, Free
  <2> QED
    BY <1>7, <2>1, <2>2 DEF Acquire
<1>8. ASSUME NEW s \in Sessions, Release(s) \/ Rollback(s) PROVE Handled'
  BY <1>8 DEF Handled, Release, Rollback
<1>9. ASSUME NEW s \in Sessions, Fault(s) PROVE Handled'
  <2>1. pc' \in [Sessions -> Labels]
    BY <1>9 DEF Handled, Fault
  <2>2. txn' \in [Sessions -> Conns \cup {NoConn}]
    BY <1>9 DEF Handled, Fault
  <2>3. leaked' \subseteq Conns
    BY <1>9 DEF Handled, Fault
  <2>4. \A r \in Sessions : pc'[r] = "begin" => txn'[r] # NoConn
    BY <1>9 DEF Handled, Fault
  <2>5. UNCHANGED <<rows, owner, side, target, issued, raced>>
    BY <1>9 DEF Fault
  <2>6. aux' \in [Sessions -> Conns \cup {NoConn}]
    BY <1>9 DEF Handled, Fault
  <2> QED
    BY <2>1, <2>2, <2>3, <2>4, <2>5, <2>6 DEF Handled
<1>10. CASE UNCHANGED vars
  BY <1>10 DEF Handled, vars
<1> QED
  BY <1>1, <1>2, <1>3, <1>4, <1>5, <1>6, <1>7, <1>8, <1>9, <1>10
     DEF Next, ServiceNext, Handle

\* Every reachable state is well typed: the tables, the identity of each id and
\* the position of each handler (validationAndSaveVote, canselEachVote).
THEOREM TypeCorrect == Spec => []TypeOK
<1>1. TypeOK /\ [Next]_vars => TypeOK'
  <2> SUFFICES ASSUME TypeOK, [Next]_vars PROVE TypeOK'
    OBVIOUS
  <2>1. rows' \in Tables /\ Handled'
    BY StoredNext, HandledNext
  <2> QED
    BY <2>1 DEF TypeOK, Handled
<1> QED
  BY TypeInit, <1>1, PTL DEF Spec

-----------------------------------------------------------------------------
(* One ballot per voter who did not race.                                  *)

LEMMA RaceInit == Init => RaceInv
BY DEF Init, RaceInv, InsertersClear, InsertersApart, HoldersApart, SaversCurrent,
       OneBallotUnlessRaced, Deciding, Holding, Ids, Live

\* What fixing a target does to the history of races.
LEMMA AimRace ==
  ASSUME TypeOK, NEW s \in Sessions, NEW i \in 0..Len(rows), Aim(s, i)
  PROVE  /\ raced \subseteq raced'
         /\ target'[s] = i
         /\ \A t \in Sessions : t # s => target'[t] = target[t]
         /\ \A t \in Sessions : t # s /\ pc[t] \in Deciding /\ target[t] = i =>
              IF i = 0
              THEN Voter(Identity(t)) = Voter(Identity(s)) => Voter(Identity(s)) \in raced'
              ELSE Voter(owner[i]) \in raced'
<1>1. raced \subseteq raced'
  BY DEF Aim
<1>2. target'[s] = i /\ \A t \in Sessions : t # s => target'[t] = target[t]
  BY DEF Aim, TypeOK
<1>3. ASSUME NEW t \in Sessions, t # s, pc[t] \in Deciding, target[t] = i, i # 0
      PROVE  Voter(owner[i]) \in raced'
  BY <1>3 DEF Aim, Rivals
<1>4. ASSUME NEW t \in Sessions, t # s, pc[t] \in Deciding, target[t] = i, i = 0,
             Voter(Identity(t)) = Voter(Identity(s))
      PROVE  Voter(Identity(s)) \in raced'
  BY <1>4 DEF Aim, Rivals
<1> QED
  BY <1>1, <1>2, <1>3, <1>4

\* A step in which no target moves, no ballot appears that is not of a voter
\* who raced, none disappears, and sessions only drop out of Deciding or move on
\* within it, keeps RaceInv.
Onward ==
  \A r \in Sessions :
    /\ pc'[r] \in Holding => pc[r] \in Holding
    /\ pc'[r] = "insert" => pc[r] = "insert"
    /\ pc'[r] \in {"reload", "update", "reinsert"} =>
         pc[r] \in {"reload", "update", "reinsert"}

LEMMA OnwardKeeps ==
  ASSUME TypeOK, RaceInv, Onward, UNCHANGED <<owner, target, raced>>,
         DOMAIN rows' = DOMAIN rows,
         \A i \in Ids : Live(i) => rows'[i] # "none",
         \A i \in Ids : rows'[i] # "none" => Live(i) \/ Voter(owner[i]) \in raced
  PROVE  RaceInv'
<1> USE DEF Onward
<1>1. (\A s \in Sessions : pc[s] \in Deciding => Pending(s))'
  BY DEF RaceInv, Pending, Deciding, Holding
<1>2. InsertersClear'
  BY DEF RaceInv, InsertersClear, Live, Ids, Identity, Voter
<1>3. InsertersApart'
  BY DEF RaceInv, InsertersApart, Identity, Voter
<1>4. HoldersApart'
  BY DEF RaceInv, HoldersApart, Voter
<1>5. SaversCurrent'
  <2> SUFFICES ASSUME NEW s \in Sessions, pc'[s] \in {"reload", "update", "reinsert"},
                      rows'[target[s]] = "none"
               PROVE  Voter(owner[target[s]]) \in raced
    BY DEF SaversCurrent, Live, Voter
  <2>1. pc[s] \in {"reload", "update", "reinsert"}
    OBVIOUS
  <2>2. target[s] # 0 /\ target[s] \in Ids
    BY <2>1 DEF RaceInv, Pending, Deciding, TypeOK, Tables, Ids
  <2>3. ~Live(target[s])
    BY <2>2
  <2> QED
    BY <2>1, <2>3 DEF RaceInv, SaversCurrent
<1>6. OneBallotUnlessRaced'
  BY DEF RaceInv, OneBallotUnlessRaced, SameVoter, Live, Ids, Voter
<1> QED
  BY <1>1, <1>2, <1>3, <1>4, <1>5, <1>6 DEF RaceInv

\* The steps that fix a target.
LEMMA FindNothingKeeps ==
  ASSUME TypeOK, RaceInv, NEW s \in Sessions, FindNothing(s)
  PROVE  RaceInv'
<1>1. 0 \in 0..Len(rows) /\ Aim(s, 0)
  BY DEF FindNothing, TypeOK, Tables
<1>2. /\ pc' = [pc EXCEPT ![s] = "insert"] /\ UNCHANGED <<rows, owner>>
      /\ \A i \in Ids : ~Matches(s, i)
  BY DEF FindNothing, Goto, store
<1>3. /\ raced \subseteq raced' /\ target'[s] = 0
      /\ \A t \in Sessions : t # s => target'[t] = target[t] /\ pc'[t] = pc[t]
      /\ pc'[s] = "insert"
      /\ \A t \in Sessions : /\ t # s /\ pc[t] \in Deciding /\ target[t] = 0
                             /\ Voter(Identity(t)) = Voter(Identity(s))
                             => Voter(Identity(s)) \in raced'
  BY <1>1, <1>2, AimRace DEF TypeOK
<1>4. ASSUME NEW i \in Ids, Live(i) PROVE Voter(owner[i]) # Voter(Identity(s))
  <2>1. owner[i] \in Identities
    BY DEF Ids, TypeOK, Tables
  <2>2. CASE UserOf[s] # Guest
    BY <1>2, <1>4, <2>1, <2>2, IdentityAssumption DEF Matches, Voter, Identity, Identities
  <2>3. CASE UserOf[s] = Guest
    BY <1>2, <1>4, <2>1, <2>3, IdentityAssumption DEF Matches, Voter, Identity, Identities
  <2> QED
    BY <2>2, <2>3
<1>5. (\A r \in Sessions : pc[r] \in Deciding => Pending(r))'
  BY <1>3 DEF RaceInv, Pending, Deciding
<1>6. InsertersClear'
  BY <1>2, <1>3, <1>4 DEF RaceInv, InsertersClear, Live, Ids, Identity, Voter
<1>7. InsertersApart'
  BY <1>3 DEF RaceInv, InsertersApart, Identity, Voter, Deciding, Pending
<1>8. HoldersApart'
  BY <1>2, <1>3 DEF RaceInv, HoldersApart, Holding, Voter
<1>9. SaversCurrent'
  BY <1>2, <1>3 DEF RaceInv, SaversCurrent, Live, Voter
<1>10. OneBallotUnlessRaced'
  BY <1>2, <1>3 DEF RaceInv, OneBallotUnlessRaced, SameVoter, Live, Ids, Voter
<1> QED
  BY <1>5, <1>6, <1>7, <1>8, <1>9, <1>10 DEF RaceInv

\* An id found by the lookup is live; the one a route was given may be gone
\* already, and then the request only deletes.
LEMMA HoldKeeps ==
  ASSUME TypeOK, RaceInv, NEW s \in Sessions, NEW i \in 1..Len(rows), Aim(s, i),
         UNCHANGED <<rows, owner>>,
         \/ pc' = [pc EXCEPT ![s] = "cancel"]
         \/ pc' = [pc EXCEPT ![s] = "reload"] /\ Live(i)
  PROVE  RaceInv'
<1>1. i \in 0..Len(rows) /\ i # 0
  BY DEF TypeOK, Tables
<1>2. /\ raced \subseteq raced' /\ target'[s] = i
      /\ \A t \in Sessions : t # s => target'[t] = target[t] /\ pc'[t] = pc[t]
      /\ pc'[s] \in {"cancel", "reload"} /\ (pc'[s] = "reload" => Live(i))
      /\ \A t \in Sessions : t # s /\ pc[t] \in Deciding /\ target[t] = i =>
           Voter(owner[i]) \in raced'
  BY <1>1, AimRace DEF TypeOK
<1>3. (\A r \in Sessions : pc[r] \in Deciding => Pending(r))'
  BY <1>1, <1>2 DEF RaceInv, Pending, Deciding
<1>4. InsertersClear'
  BY <1>2 DEF RaceInv, InsertersClear, Live, Ids, Identity, Voter
<1>5. InsertersApart'
  BY <1>2 DEF RaceInv, InsertersApart, Identity, Voter
<1>6. HoldersApart'
  BY <1>2 DEF RaceInv, HoldersApart, Holding, Deciding, Voter
<1>7. SaversCurrent'
  BY <1>2 DEF RaceInv, SaversCurrent, Live, Voter
<1>8. OneBallotUnlessRaced'
  BY <1>2 DEF RaceInv, OneBallotUnlessRaced, SameVoter, Live, Ids, Voter
<1> QED
  BY <1>3, <1>4, <1>5, <1>6, <1>7, <1>8 DEF RaceInv

\* The steps that write.
LEMMA InsertKeeps ==
  ASSUME TypeOK, RaceInv, NEW s \in Sessions, Insert(s)
  PROVE  RaceInv'
<1> DEFINE n == Len(rows) + 1
<1>1. /\ n \in Nat /\ Len(rows) \in Nat /\ DOMAIN rows = 1..Len(rows)
      /\ Len(owner) = Len(rows) /\ DOMAIN owner = DOMAIN rows
  BY DEF TypeOK, Tables
<1>2. /\ rows' = Append(rows, side[s]) /\ owner' = Append(owner, Identity(s))
      /\ pc[s] = "insert" /\ pc' = [pc EXCEPT ![s] = "release"]
      /\ UNCHANGED <<target, raced>>
  BY DEF Insert, Goto
<1>3. /\ DOMAIN rows' = DOMAIN rows \cup {n}
      /\ \A i \in Ids : rows'[i] = rows[i]
  BY <1>1, <1>2 DEF TypeOK, Tables, Ids
<1>4. owner'[n] = Identity(s) /\ \A i \in Ids : owner'[i] = owner[i]
  BY <1>1, <1>2, IdentityType DEF TypeOK, Ids
<1>5. /\ pc'[s] = "release" /\ \A t \in Sessions : t # s => pc'[t] = pc[t]
  BY <1>2 DEF TypeOK
<1> HIDE DEF n
<1>6. (\A r \in Sessions : pc[r] \in Deciding => Pending(r))'
  BY <1>2, <1>5 DEF RaceInv, Pending, Deciding
<1>7. InsertersClear'
  <2> SUFFICES ASSUME NEW r \in Sessions, NEW i \in DOMAIN rows',
                      pc'[r] = "insert", rows'[i] # "none",
                      Voter(owner'[i]) = Voter(Identity(r))
               PROVE  Voter(owner'[i]) \in raced'
    BY DEF InsertersClear, Live, Ids, Identity, Voter
  <2>1. pc[r] = "insert" /\ r # s
    BY <1>5
  <2>2. CASE i = n
    BY <1>2, <1>4, <2>1, <2>2 DEF RaceInv, InsertersApart
  <2>3. CASE i \in Ids
    BY <1>2, <1>3, <1>4, <2>1, <2>3 DEF RaceInv, InsertersClear, Live
  <2> QED
    BY <1>3, <2>2, <2>3 DEF Ids
<1>8. InsertersApart'
  BY <1>2, <1>5 DEF RaceInv, InsertersApart, Identity, Voter
<1>9. \A r \in Sessions : pc'[r] \in Holding =>
        pc[r] = pc'[r] /\ target'[r] = target[r] /\ target[r] \in Ids
  BY <1>1, <1>2, <1>5 DEF RaceInv, Pending, Holding, Deciding, TypeOK, Ids
<1>10. HoldersApart'
  <2> SUFFICES ASSUME NEW r \in Sessions, NEW u \in Sessions, r # u,
                      pc'[r] \in Holding, pc'[u] \in Holding,
                      target'[r] = target'[u]
               PROVE  Voter(owner'[target'[r]]) \in raced'
    BY DEF HoldersApart, Voter
  <2>1. /\ pc[r] \in Holding /\ pc[u] \in Holding /\ target[r] = target[u]
        /\ target[r] \in Ids
    BY <1>9
  <2>2. Voter(owner[target[r]]) \in raced
    BY <2>1 DEF RaceInv, HoldersApart
  <2> QED
    BY <1>2, <1>4, <2>1, <2>2
<1>11. SaversCurrent'
  <2> SUFFICES ASSUME NEW r \in Sessions, pc'[r] \in {"reload", "update", "reinsert"},
                      ~Live(target[r])'
               PROVE  Voter(owner'[target'[r]]) \in raced'
    BY DEF SaversCurrent, Voter
  <2>1. pc[r] = pc'[r] /\ target'[r] = target[r] /\ target[r] \in Ids
    BY <1>9 DEF Holding, Deciding
  <2>2. ~Live(target[r])
    BY <1>3, <2>1 DEF Live, Ids
  <2>3. Voter(owner[target[r]]) \in raced
    BY <2>1, <2>2 DEF RaceInv, SaversCurrent
  <2> QED BY <1>2, <1>4, <2>1, <2>3
<1>12. OneBallotUnlessRaced'
  <2> SUFFICES ASSUME NEW i \in DOMAIN rows', NEW j \in DOMAIN rows',
                      rows'[i] # "none", rows'[j] # "none", i # j,
                      Voter(owner'[i]) = Voter(owner'[j])
               PROVE  Voter(owner'[i]) \in raced'
    BY DEF OneBallotUnlessRaced, SameVoter, Live, Ids, Voter
  <2>1. ASSUME NEW k \in Ids, rows[k] # "none", Voter(owner[k]) = Voter(Identity(s))
        PROVE  Voter(Identity(s)) \in raced
    BY <1>2, <2>1 DEF RaceInv, InsertersClear, Live
  <2>2. CASE i = n
    <3>1. j \in Ids
      BY <1>3, <2>2 DEF Ids
    <3> QED
      BY <1>2, <1>3, <1>4, <2>1, <2>2, <3>1
  <2>3. CASE j = n
    <3>1. i \in Ids
      BY <1>3, <2>3 DEF Ids
    <3> QED
      BY <1>2, <1>3, <1>4, <2>1, <2>3, <3>1
  <2>4. CASE i \in Ids /\ j \in Ids
    BY <1>2, <1>3, <1>4, <2>4 DEF RaceInv, OneBallotUnlessRaced, SameVoter, Live
  <2> QED
    BY <1>3, <2>2, <2>3, <2>4 DEF Ids
<1> QED
  BY <1>6, <1>7, <1>8, <1>10, <1>11, <1>12 DEF RaceInv

LEMMA DeleteKeeps ==
  ASSUME TypeOK, RaceInv, NEW s \in Sessions, Delete(s), Live(target[s])
  PROVE  RaceInv'
<1>1. /\ rows' = [rows EXCEPT ![target[s]] = "none"]
      /\ pc[s] = "delete" /\ UNCHANGED <<owner, target, raced>>
      /\ pc' \in {[pc EXCEPT ![s] = "release"], [pc EXCEPT ![s] = "commit"]}
  BY DEF Delete, Goto
<1>2. /\ pc'[s] \in {"release", "commit"}
      /\ \A t \in Sessions : t # s => pc'[t] = pc[t]
  BY <1>1 DEF TypeOK
<1>3. /\ DOMAIN rows' = DOMAIN rows
      /\ \A i \in Ids : rows'[i] = IF i = target[s] THEN "none" ELSE rows[i]
  BY <1>1 DEF TypeOK, Tables, Ids
<1>4. (\A r \in Sessions : pc[r] \in Deciding => Pending(r))'
  BY <1>1, <1>2 DEF RaceInv, Pending, Deciding
<1>5. InsertersClear'
  BY <1>1, <1>2, <1>3 DEF RaceInv, InsertersClear, Live, Ids, Identity, Voter
<1>6. InsertersApart'
  BY <1>1, <1>2 DEF RaceInv, InsertersApart, Identity, Voter
<1>7. HoldersApart'
  <2>1. \A r \in Sessions : pc'[r] \in Holding => pc[r] \in Holding
    BY <1>2 DEF Holding, Deciding
  <2> SUFFICES ASSUME NEW r \in Sessions, NEW u \in Sessions, r # u,
                      pc'[r] \in Holding, pc'[u] \in Holding,
                      target[r] = target[u]
               PROVE  Voter(owner[target[r]]) \in raced
    BY <1>1 DEF HoldersApart, Voter
  <2> QED
    BY <2>1 DEF RaceInv, HoldersApart
<1>8. SaversCurrent'
  <2> SUFFICES ASSUME NEW r \in Sessions, pc'[r] \in {"reload", "update", "reinsert"},
                      rows'[target[r]] = "none"
               PROVE  Voter(owner[target[r]]) \in raced
    BY <1>1 DEF SaversCurrent, Live, Voter
  <2>1. r # s /\ pc[r] = pc'[r]
    BY <1>2
  <2>2. CASE target[r] = target[s]
    BY <1>1, <2>1, <2>2 DEF RaceInv, HoldersApart, Holding, Deciding
  <2>3. CASE target[r] # target[s]
    <3>1. target[r] \in Ids
      BY <2>1 DEF RaceInv, Pending, Deciding, TypeOK, Tables, Ids
    <3> QED
      BY <1>3, <2>1, <2>3, <3>1 DEF RaceInv, SaversCurrent, Live
  <2> QED
    BY <2>2, <2>3
<1>9. OneBallotUnlessRaced'
  BY <1>1, <1>3 DEF RaceInv, OneBallotUnlessRaced, SameVoter, Live, Ids, Voter
<1> QED
  BY <1>4, <1>5, <1>6, <1>7, <1>8, <1>9 DEF RaceInv

LEMMA SaveKeeps ==
  ASSUME TypeOK, RaceInv, NEW s \in Sessions, Update(s) \/ Reinsert(s),
         rows' # rows
  PROVE  RaceInv'
<1>1. /\ rows' = [rows EXCEPT ![target[s]] = side[s]]
      /\ pc[s] \in {"update", "reinsert"} /\ UNCHANGED <<owner, target, raced>>
      /\ pc' = [pc EXCEPT ![s] = "release"]
      /\ pc[s] = "reinsert" => ~Live(target[s])
      /\ pc[s] = "update" => Live(target[s])
  BY DEF Update, Reinsert, Goto
<1>2. /\ DOMAIN rows' = DOMAIN rows
      /\ \A i \in Ids : rows'[i] = IF i = target[s] THEN side[s] ELSE rows[i]
      /\ side[s] # "none"
  BY <1>1 DEF TypeOK, Tables, Ids, Sides
<1>3. ~Live(target[s]) => Voter(owner[target[s]]) \in raced
  BY <1>1 DEF RaceInv, SaversCurrent
<1>4. Onward
  BY <1>1 DEF Onward, TypeOK, Holding, Deciding
<1>5. \A i \in Ids : Live(i) => rows'[i] # "none"
  BY <1>2 DEF Live
<1>6. \A i \in Ids : rows'[i] # "none" => Live(i) \/ Voter(owner[i]) \in raced
  BY <1>2, <1>3 DEF Live
<1> QED
  BY <1>1, <1>2, <1>4, <1>5, <1>6, OnwardKeeps

\* Everything else leaves the ballots alone.
LEMMA RestKeeps ==
  ASSUME TypeOK, RaceInv, NEW s \in Sessions, UNCHANGED rows,
         \/ \E x \in Sides : CreateVote(s, x)
         \/ Acquire(s) \/ StartTransaction(s) \/ Reload(s) \/ Update(s)
         \/ Reinsert(s) \/ Delete(s) \/ Commit(s) \/ Release(s)
         \/ Rollback(s) \/ Fault(s) \/ Answer(s)
  PROVE  RaceInv'
<1>1. UNCHANGED <<owner, target, raced>>
  BY DEF store, pool, CreateVote, Acquire, Connect, AcquireSecond,
         StartTransaction, Reload, Update, Reinsert, Delete, Commit, Release,
         Rollback, Fault, Answer
<1>2. Onward
  <2> SUFFICES ASSUME NEW x, pc' = [pc EXCEPT ![s] = x],
                      \/ x \notin Deciding
                      \/ pc[s] = "cancel" /\ x = "delete"
                      \/ pc[s] = "reload" /\ x \in {"update", "reinsert"}
               PROVE  Onward
    BY DEF Goto, Deciding, CreateVote, Acquire, Connect, AcquireSecond,
           StartTransaction, Reload, Update, Reinsert, Delete, Commit, Release,
           Rollback, Fault, Answer
  <2> QED
    BY DEF Onward, TypeOK, Deciding, Holding
<1>3. /\ \A i \in Ids : Live(i) => rows'[i] # "none"
      /\ \A i \in Ids : rows'[i] # "none" => Live(i) \/ Voter(owner[i]) \in raced
  BY DEF Live
<1> QED
  BY <1>1, <1>2, <1>3, OnwardKeeps

LEMMA RaceNext == TypeOK /\ RaceInv /\ [Next]_vars => RaceInv'
<1> SUFFICES ASSUME TypeOK, RaceInv, [Next]_vars PROVE RaceInv'
  OBVIOUS
<1>1. ASSUME NEW s \in Sessions, FindBallot(s) PROVE RaceInv'
  <2>1. PICK i \in Ids :
          /\ Live(i) /\ Aim(s, i)
          /\ Goto(s, IF rows[i] = side[s] THEN "cancel" ELSE "reload")
    BY <1>1 DEF FindBallot, Matches
  <2>2. i \in 1..Len(rows)
    BY DEF Ids, TypeOK, Tables
  <2> QED
    BY <1>1, <2>1, <2>2, HoldKeeps DEF FindBallot, Goto, store
<1>2. ASSUME NEW s \in Sessions, CancelByHttp(s) PROVE RaceInv'
  <2>1. PICK i \in Ids : Aim(s, i)
    BY <1>2 DEF CancelByHttp
  <2>2. i \in 1..Len(rows)
    BY DEF TypeOK, Tables, Ids
  <2> QED
    BY <1>2, <2>1, <2>2, HoldKeeps DEF CancelByHttp, Goto, store
<1>3. CASE UNCHANGED vars
  <2>1. UNCHANGED <<rows, owner, target, raced, pc>>
    BY <1>3 DEF vars
  <2> QED
    BY <2>1, OnwardKeeps DEF Onward, Live
<1>4. ASSUME NEW s \in Sessions, Delete(s) PROVE RaceInv'
  <2>1. CASE Live(target[s])
    BY <1>4, <2>1, DeleteKeeps
  <2>2. CASE ~Live(target[s])
    BY <1>4, <2>2, RestKeeps DEF Delete
  <2> QED
    BY <2>1, <2>2
<1>5. ASSUME NEW s \in Sessions, Update(s) \/ Reinsert(s) PROVE RaceInv'
  BY <1>5, SaveKeeps, RestKeeps
<1>6. ASSUME NEW s \in Sessions,
             \/ \E x \in Sides : CreateVote(s, x)
             \/ Acquire(s) \/ StartTransaction(s) \/ Reload(s) \/ Commit(s)
             \/ Release(s) \/ Rollback(s) \/ Fault(s) \/ Answer(s)
      PROVE  RaceInv'
  <2>1. UNCHANGED rows
    BY <1>6 DEF store, CreateVote, Acquire, Connect, AcquireSecond,
                StartTransaction, Reload, Commit, Release, Rollback, Fault, Answer
  <2> QED
    BY <1>6, <2>1, RestKeeps
<1> QED
  BY <1>1, <1>2, <1>3, <1>4, <1>5, <1>6, FindNothingKeeps, InsertKeeps
     DEF Next, ServiceNext, Request, Handle

\* RaceInv holds in every reachable state.
THEOREM RaceInvariant == Spec => []RaceInv
<1> QED
  BY TypeInit, TypeCorrect, RaceInit, RaceNext, PTL DEF Spec

\* Whatever the sessions, the pool and the faults: two ballots of one voter exist
\* only after two requests were to write for that voter at once.
THEOREM OneBallotUnlessRacedAlways == Spec => []OneBallotUnlessRaced
<1>1. RaceInv => OneBallotUnlessRaced
  BY DEF RaceInv
<1> QED
  BY <1>1, RaceInvariant, PTL

\* A cancelled ballot comes back only for a voter who raced.
THEOREM CancelledStays == Spec => CancelledStaysCancelled
<1>1. TypeOK /\ RaceInv /\ [Next]_vars =>
        [\A i \in Ids : ~Live(i) /\ rows'[i] # "none" => Voter(owner[i]) \in raced]_rows
  <2> SUFFICES ASSUME TypeOK, RaceInv, [Next]_vars, rows' # rows,
                      NEW i \in Ids, ~Live(i), rows'[i] # "none"
               PROVE  Voter(owner[i]) \in raced
    OBVIOUS
  <2>1. PICK s \in Sessions : Insert(s) \/ Update(s) \/ Reinsert(s) \/ Delete(s)
    BY DEF Next, ServiceNext, vars, store, Request, Acquire, Handle, CreateVote,
           CancelByHttp, Connect, AcquireSecond, StartTransaction, FindNothing,
           FindBallot, Reload, Commit, Release, Rollback, Answer, Fault
  <2>2. ~Insert(s)
    BY DEF Insert, TypeOK, Tables, Ids, Live
  <2>3. ~Delete(s)
    BY DEF Delete, TypeOK, Tables, Ids, Live
  <2>4. i = target[s] /\ pc[s] = "reinsert"
    BY <2>1, <2>2, <2>3 DEF Update, Reinsert, TypeOK, Tables, Ids, Live
  <2> QED
    BY <2>4 DEF RaceInv, SaversCurrent
<1> QED
  BY <1>1, TypeCorrect, RaceInvariant, PTL DEF Spec, CancelledStaysCancelled

-----------------------------------------------------------------------------
(* The pool.                                                               *)

LEMMA OwnedInit == Init => ConnectionsOwnedOnce
BY DEF Init, ConnectionsOwnedOnce

LEMMA OwnedNext == TypeOK /\ ConnectionsOwnedOnce /\ [Next]_vars => ConnectionsOwnedOnce'
<1> SUFFICES ASSUME TypeOK, ConnectionsOwnedOnce, [Next]_vars
             PROVE  ConnectionsOwnedOnce'
  OBVIOUS
<1> USE DEF Goto, store, pool
<1>1. ASSUME NEW s \in Sessions, Connect(s) PROVE ConnectionsOwnedOnce'
  <2>1. PICK c \in Free : txn' = [txn EXCEPT ![s] = c]
    BY <1>1 DEF Connect
  <2>2. c \in Conns /\ c \notin leaked /\ c # NoConn
        /\ \A r \in Sessions : c # txn[r] /\ c # aux[r]
    BY PoolAssumption DEF Free
  <2>3. pc' = [pc EXCEPT ![s] = "begin"] /\ UNCHANGED <<aux, leaked>>
    BY <1>1 DEF Connect
  <2>4. txn'[s] = c /\ \A r \in Sessions : r # s => txn'[r] = txn[r] /\ pc'[r] = pc[r]
    BY <2>1, <2>3 DEF TypeOK
  <2>5. pc'[s] = "begin" /\ aux[s] = NoConn
    BY <1>1, <2>3 DEF Connect, ConnectionsOwnedOnce, TypeOK
  <2> QED
    BY <2>2, <2>3, <2>4, <2>5 DEF ConnectionsOwnedOnce
<1>2. ASSUME NEW s \in Sessions, AcquireSecond(s) PROVE ConnectionsOwnedOnce'
  <2>1. PICK c \in Free : aux' = [aux EXCEPT ![s] = c]
    BY <1>2 DEF AcquireSecond
  <2>2. c \in Conns /\ c \notin leaked /\ c # NoConn
        /\ \A r \in Sessions : c # txn[r] /\ c # aux[r]
    BY PoolAssumption DEF Free
  <2>3. pc' = [pc EXCEPT ![s] = "delete"] /\ UNCHANGED <<txn, leaked>>
    BY <1>2 DEF AcquireSecond
  <2> QED
    BY <2>1, <2>2, <2>3 DEF ConnectionsOwnedOnce, TypeOK
<1>3. ASSUME NEW s \in Sessions, Delete(s) PROVE ConnectionsOwnedOnce'
  <2>1. PICK x \in {"release", "commit", "rollback"} : pc' = [pc EXCEPT ![s] = x]
    BY <1>3 DEF Delete
  <2>2. aux' = [aux EXCEPT ![s] = NoConn] /\ UNCHANGED <<txn, leaked>>
    BY <1>3 DEF Delete
  <2> QED
    BY <2>1, <2>2, PoolAssumption DEF ConnectionsOwnedOnce, TypeOK
<1>4. ASSUME NEW s \in Sessions, Release(s) \/ Rollback(s) PROVE ConnectionsOwnedOnce'
  <2>1. PICK x \in {"idle", "count"} : pc' = [pc EXCEPT ![s] = x]
    BY <1>4 DEF Release, Rollback
  <2>2. txn' = [txn EXCEPT ![s] = NoConn] /\ UNCHANGED <<aux, leaked>>
    BY <1>4 DEF Release, Rollback
  <2>3. aux[s] = NoConn
    BY <1>4 DEF Release, Rollback, ConnectionsOwnedOnce
  <2> QED
    BY <2>1, <2>2, <2>3, PoolAssumption DEF ConnectionsOwnedOnce, TypeOK
<1>5. ASSUME NEW s \in Sessions, Fault(s) PROVE ConnectionsOwnedOnce'
  <2>1. aux' = [aux EXCEPT ![s] = NoConn]
    BY <1>5 DEF Fault
  <2>2. CASE pc[s] = "begin"
    <3>1. /\ pc' = [pc EXCEPT ![s] = "idle"] /\ leaked' = leaked \cup {txn[s]}
          /\ txn' = [txn EXCEPT ![s] = NoConn] /\ txn[s] # NoConn
      BY <1>5, <2>2 DEF Fault, TypeOK
    <3>2. /\ txn'[s] = NoConn /\ aux'[s] = NoConn /\ pc'[s] = "idle"
          /\ \A r \in Sessions : r # s =>
               txn'[r] = txn[r] /\ aux'[r] = aux[r] /\ pc'[r] = pc[r]
      BY <2>1, <3>1 DEF TypeOK
    <3>3. NoConn \notin leaked'
      BY <3>1, PoolAssumption DEF TypeOK
    <3>4. \A r \in Sessions : r # s => txn[s] \notin {txn[r], aux[r]}
      BY <3>1 DEF ConnectionsOwnedOnce
    <3>5. \A r \in Sessions : {txn'[r], aux'[r]} \cap leaked' = {}
      BY <3>1, <3>2, <3>3, <3>4 DEF ConnectionsOwnedOnce
    <3> QED
      BY <3>2, <3>5 DEF ConnectionsOwnedOnce
  <2>3. CASE pc[s] # "begin"
    <3>1. pc' = [pc EXCEPT ![s] = "rollback"] /\ UNCHANGED <<txn, leaked>>
      BY <1>5, <2>3 DEF Fault
    <3> QED
      BY <2>1, <3>1, PoolAssumption DEF ConnectionsOwnedOnce, TypeOK
  <2> QED
    BY <2>2, <2>3
<1>6. ASSUME UNCHANGED pool, NEW s \in Sessions, NEW x, pc' = [pc EXCEPT ![s] = x],
             x \in {"idle", "connect", "count"} => txn[s] = NoConn,
             pc[s] # "delete"
      PROVE  ConnectionsOwnedOnce'
  BY <1>6 DEF ConnectionsOwnedOnce, TypeOK
<1>7. ASSUME NEW s \in Sessions,
             \/ Request(s) \/ StartTransaction(s) \/ FindNothing(s)
             \/ FindBallot(s) \/ Insert(s) \/ Reload(s) \/ Update(s)
             \/ Reinsert(s) \/ Commit(s) \/ Answer(s)
      PROVE  ConnectionsOwnedOnce'
  <2>1. pc[s] \in {"idle", "connect", "count"} => txn[s] = NoConn
    BY DEF ConnectionsOwnedOnce
  <2> QED
    BY <1>6, <1>7, <2>1
       DEF Request, CreateVote, CancelByHttp, StartTransaction, FindNothing,
           FindBallot, Insert, Reload, Update, Reinsert, Commit, Answer
<1>8. CASE UNCHANGED vars
  BY <1>8 DEF ConnectionsOwnedOnce, vars
<1> QED
  BY <1>1, <1>2, <1>3, <1>4, <1>5, <1>7, <1>8 DEF Next, ServiceNext, Acquire, Handle

\* No connection is shared, and none stays with a session that left the try
\* block of addVoteUserorNanUser, whatever statements fail in it.
THEOREM ConnectionsOwned == Spec => []ConnectionsOwnedOnce
<1> QED
  BY TypeInit, TypeCorrect, OwnedInit, OwnedNext, PTL DEF Spec

\* If the pool is jammed, every usable connection is some session's first.
LEMMA JamCount ==
  ASSUME TypeOK, ConnectionsOwnedOnce, Jammed
  PROVE  Cardinality(Conns \ leaked) <= Cardinality(Sessions)
<1> DEFINE T == {txn[s] : s \in Sessions}
           f == [s \in Sessions |-> txn[s]]
<1>1. Conns \ leaked \subseteq T
  <2> SUFFICES ASSUME NEW c \in Conns \ leaked PROVE c \in T
    OBVIOUS
  <2>1. PICK s \in Sessions : c \in {txn[s], aux[s]}
    BY DEF Jammed, Free
  <2>2. aux[s] = NoConn
    BY DEF Jammed, Waiting, ConnectionsOwnedOnce
  <2> QED
    BY <2>1, <2>2, PoolAssumption
<1>2. f \in Surjection(Sessions, T)
  BY DEF Surjection
<1>3. IsFiniteSet(T) /\ Cardinality(T) <= Cardinality(Sessions)
  BY <1>2, PoolAssumption, FS_Surjection
<1>4. Cardinality(Conns \ leaked) <= Cardinality(T)
  BY <1>1, <1>3, FS_Subset
<1>5. /\ Cardinality(T) \in Nat /\ Cardinality(Sessions) \in Nat
      /\ Cardinality(Conns \ leaked) \in Nat
  BY <1>1, <1>3, PoolAssumption, FS_CardinalityType, FS_Subset
<1> QED
  BY <1>3, <1>4, <1>5

\* One usable connection more than handlers in flight, and the second
\* connection of canselEachVote can never be waited for in a circle.
THEOREM PoolIsLive == Spec => []PoolNeverJams
<1>1. TypeOK /\ ConnectionsOwnedOnce => PoolNeverJams
  <2> SUFFICES ASSUME TypeOK, ConnectionsOwnedOnce, Jammed,
                      Cardinality(Conns \ leaked) > Cardinality(Sessions)
               PROVE  FALSE
    BY DEF PoolNeverJams
  <2>1. Cardinality(Conns \ leaked) \in Nat /\ Cardinality(Sessions) \in Nat
    BY PoolAssumption, FS_CardinalityType, FS_Subset
  <2> QED
    BY <2>1, JamCount
<1> QED
  BY <1>1, TypeCorrect, ConnectionsOwned, PTL

-----------------------------------------------------------------------------
(* Who touches what.                                                       *)

Step(s) == Request(s) \/ Acquire(s) \/ Handle(s) \/ Fault(s) \/ Answer(s)

\* What a step of s leaves alone.
Others(s) ==
  \A r \in Sessions \ {s} : /\ pc'[r] = pc[r] /\ side'[r] = side[r]
                            /\ target'[r] = target[r] /\ txn'[r] = txn[r]

LEMMA OneSteps ==
  ASSUME TypeOK, [Next]_vars
  PROVE  \/ \E s \in Sessions : Step(s)
         \/ UNCHANGED <<rows, owner, pc, side, target, txn, raced>>
BY DEF Next, ServiceNext, Step, pool, vars

LEMMA OthersStay ==
  ASSUME TypeOK, NEW s \in Sessions, Step(s)
  PROVE  Others(s)
<1>1. /\ pc \in [Sessions -> Labels] /\ side \in [Sessions -> Sides]
      /\ target \in [Sessions -> 0 .. Len(rows)]
      /\ txn \in [Sessions -> Conns \cup {NoConn}]
  BY DEF TypeOK
<1>2. CASE Request(s)
  BY <1>1, <1>2 DEF Request, CreateVote, CancelByHttp, Aim, Goto, pool, Others
<1>3. CASE Acquire(s) \/ Fault(s) \/ Answer(s)
  BY <1>1, <1>3 DEF Acquire, Connect, AcquireSecond, Fault, Answer, Goto, pool, Others
<1>4. CASE FindNothing(s) \/ FindBallot(s)
  BY <1>1, <1>4 DEF FindNothing, FindBallot, Aim, Goto, pool, Others
<1>5. CASE StartTransaction(s) \/ Insert(s) \/ Reload(s) \/ Update(s) \/ Reinsert(s)
  BY <1>1, <1>5 DEF StartTransaction, Insert, Reload, Update, Reinsert, Goto, pool, Others
<1>6. CASE Delete(s) \/ Commit(s) \/ Release(s) \/ Rollback(s)
  BY <1>1, <1>6 DEF Delete, Commit, Release, Rollback, Goto, pool, Others
<1> QED
  BY <1>2, <1>3, <1>4, <1>5, <1>6 DEF Step, Handle

\* What a step does to the table.
LEMMA TableMoves ==
  ASSUME TypeOK, NEW s \in Sessions, Step(s)
  PROVE  \/ Insert(s)
         \/ /\ Update(s) \/ Reinsert(s) \/ Delete(s)
            /\ owner' = owner /\ DOMAIN rows' = DOMAIN rows
            /\ \A i \in Ids \ {target[s]} : rows'[i] = rows[i]
            /\ pc[s] \in Holding
         \/ UNCHANGED <<rows, owner>>
<1>1. CASE Request(s) \/ Acquire(s) \/ Fault(s) \/ Answer(s)
  BY <1>1 DEF Request, CreateVote, CancelByHttp, Acquire, Connect, AcquireSecond, Fault, Answer,
              store
<1>2. CASE StartTransaction(s) \/ FindNothing(s) \/ FindBallot(s) \/ Reload(s) \/ Commit(s)
           \/ Release(s) \/ Rollback(s)
  BY <1>2 DEF StartTransaction, FindNothing, FindBallot, Reload, Commit, Release, Rollback, store
<1>3. CASE Update(s) \/ Reinsert(s) \/ Delete(s)
  <2>1. rows \in Tables
    BY DEF TypeOK
  <2>2. PICK x : rows' = rows \/ rows' = [rows EXCEPT ![target[s]] = x]
    BY <1>3 DEF Update, Reinsert, Delete
  <2>3. DOMAIN rows' = DOMAIN rows /\ \A i \in Ids \ {target[s]} : rows'[i] = rows[i]
    BY <2>1, <2>2 DEF Ids, Tables
  <2>4. owner' = owner /\ pc[s] \in Holding
    BY <1>3 DEF Update, Reinsert, Delete, Holding, Deciding
  <2> QED
    BY <1>3, <2>3, <2>4
<1> QED
  BY <1>1, <1>2, <1>3 DEF Step, Handle

LEMMA Appended ==
  ASSUME TypeOK, NEW s \in Sessions, Insert(s)
  PROVE  LET n == Len(rows) + 1
         IN  /\ n \notin Ids /\ DOMAIN rows' = Ids \cup {n}
             /\ rows'[n] = side[s] /\ owner'[n] = Identity(s)
             /\ \A i \in Ids : rows'[i] = rows[i] /\ owner'[i] = owner[i]
<1>1. /\ rows \in Tables /\ owner \in Seq(Identities) /\ Len(owner) = Len(rows)
      /\ Len(rows) \in Nat /\ Identity(s) \in Identities /\ side[s] \in Sides
  BY IdentityType DEF TypeOK, Tables
<1>2. rows' = Append(rows, side[s]) /\ owner' = Append(owner, Identity(s))
  BY DEF Insert
<1> QED
  BY <1>1, <1>2 DEF Tables, Ids

\* A handler between its first statement and its last is in its transaction;
\* the row it holds is one it reaches, unless it came over the DELETE route.
InTransaction == {"begin", "lookup", "insert", "reload", "update", "reinsert"}

Reached(s) ==
  /\ pc[s] \in InTransaction => txn[s] # NoConn
  /\ pc[s] \in Holding =>
       /\ target[s] \in Ids
       /\ CancelsOverHttp(s) \/ (txn[s] # NoConn /\ Reaches(s, target[s]))

TargetsReached == \A s \in Sessions : Reached(s)

LEMMA ReachInit == Init => TargetsReached
BY DEF Init, TargetsReached, Reached, Holding, Deciding, InTransaction

LEMMA ReachOthers ==
  ASSUME TypeOK, TargetsReached, NEW s \in Sessions, Step(s), NEW r \in Sessions \ {s}
  PROVE  Reached(r)'
<1>1. pc'[r] = pc[r] /\ target'[r] = target[r] /\ txn'[r] = txn[r]
  BY OthersStay DEF Others
<1>2. \A i \in Ids : i \in DOMAIN rows' /\ owner'[i] = owner[i]
  BY TableMoves, Appended DEF Ids
<1>3. Reached(r)
  BY DEF TargetsReached
<1> QED
  BY <1>1, <1>2, <1>3 DEF Reached, Reaches, CancelsOverHttp, Ids

LEMMA ReachOneself ==
  ASSUME TypeOK, ConnectionsOwnedOnce, TargetsReached, NEW s \in Sessions, Step(s)
  PROVE  Reached(s)'
<1>1. /\ pc \in [Sessions -> Labels] /\ target \in [Sessions -> 0 .. Len(rows)]
      /\ txn \in [Sessions -> Conns \cup {NoConn}]
      /\ pc[s] \in {"idle", "connect", "count"} => txn[s] = NoConn
      /\ Reached(s)
  BY DEF TypeOK, ConnectionsOwnedOnce, TargetsReached
<1>2. ASSUME pc'[s] \notin Holding, pc'[s] \notin InTransaction PROVE Reached(s)'
  BY <1>2 DEF Reached
<1>3. ASSUME UNCHANGED <<rows, owner, target, txn>>, pc[s] \in Holding, pc'[s] \in Holding,
             pc'[s] \in InTransaction => pc[s] \in InTransaction
      PROVE  Reached(s)'
  BY <1>1, <1>3 DEF Reached, Reaches, CancelsOverHttp, Ids
<1>4. ASSUME NEW i \in Ids, Aim(s, i), UNCHANGED <<rows, owner, txn>>,
             CancelsOverHttp(s) \/ (txn[s] # NoConn /\ Reaches(s, i)),
             pc'[s] \in InTransaction => txn[s] # NoConn
      PROVE  Reached(s)'
  <2>1. target'[s] = i
    BY <1>1, <1>4 DEF Aim
  <2> QED
    BY <1>4, <2>1 DEF Reached, Reaches, CancelsOverHttp, Ids
<1>5. CASE Acquire(s)
  <2>1. CASE Connect(s)
    <3>1. PICK c \in Free : txn' = [txn EXCEPT ![s] = c]
      BY <2>1 DEF Connect
    <3>2. txn'[s] # NoConn /\ pc'[s] = "begin"
      BY <1>1, <2>1, <3>1, PoolAssumption DEF Connect, Goto, Free
    <3> QED
      BY <3>2 DEF Reached, Holding, Deciding
  <2>2. CASE AcquireSecond(s)
    BY <1>1, <1>3, <2>2 DEF AcquireSecond, Goto, store, Holding, Deciding, InTransaction
  <2> QED
    BY <1>5, <2>1, <2>2 DEF Acquire
<1>6. CASE StartTransaction(s) \/ FindNothing(s)
  <2>1. pc[s] \in InTransaction /\ pc'[s] \in {"lookup", "insert"} /\ txn' = txn
    BY <1>1, <1>6 DEF StartTransaction, FindNothing, Goto, pool, InTransaction
  <2> QED
    BY <1>1, <2>1 DEF Reached, Holding, Deciding
<1>7. CASE FindBallot(s)
  <2>1. PICK i \in Ids : Matches(s, i) /\ Aim(s, i)
    BY <1>7 DEF FindBallot
  <2>2. UNCHANGED <<rows, owner, txn>> /\ pc[s] = "lookup"
    BY <1>7 DEF FindBallot, store, pool
  <2>3. txn[s] # NoConn /\ Reaches(s, i)
    BY <1>1, <2>1, <2>2 DEF Reached, InTransaction, Matches, Reaches
  <2> QED
    BY <1>4, <2>1, <2>2, <2>3
<1>8. CASE CancelByHttp(s)
  <2>1. PICK i \in Ids : Aim(s, i)
    BY <1>8 DEF CancelByHttp
  <2>2. UNCHANGED <<rows, owner, txn>> /\ pc[s] = "idle" /\ pc'[s] = "cancel"
    BY <1>1, <1>8 DEF CancelByHttp, Goto, store, pool
  <2>3. CancelsOverHttp(s)
    BY <1>1, <1>8, <2>2 DEF CancelByHttp, CancelsOverHttp
  <2> QED
    BY <1>4, <2>1, <2>2, <2>3 DEF InTransaction
<1>9. CASE Reload(s)
  <2>1. UNCHANGED <<rows, owner, target, txn>> /\ pc[s] = "reload"
        /\ pc'[s] \in {"reinsert", "commit", "update"}
    BY <1>1, <1>9 DEF Reload, Goto, store, pool
  <2> QED
    BY <1>2, <1>3, <2>1 DEF Holding, Deciding, InTransaction
<1>10. ASSUME \/ \E x \in Sides : CreateVote(s, x)
              \/ Insert(s) \/ Update(s) \/ Reinsert(s) \/ Delete(s) \/ Commit(s)
              \/ Release(s) \/ Rollback(s) \/ Fault(s) \/ Answer(s)
       PROVE  Reached(s)'
  <2>1. pc'[s] \in {"connect", "release", "rollback", "commit", "idle", "count"}
    BY <1>1, <1>10 DEF CreateVote, Insert, Update, Reinsert, Delete, Commit, Release, Rollback,
                       Fault, Answer, Goto
  <2> QED
    BY <1>2, <2>1 DEF Holding, Deciding, InTransaction
<1> QED
  BY <1>5, <1>6, <1>7, <1>8, <1>9, <1>10 DEF Step, Request, Handle

LEMMA ReachNext ==
  TypeOK /\ ConnectionsOwnedOnce /\ TargetsReached /\ [Next]_vars => TargetsReached'
<1> SUFFICES ASSUME TypeOK, ConnectionsOwnedOnce, TargetsReached, [Next]_vars
             PROVE  TargetsReached'
  OBVIOUS
<1>1. ASSUME NEW s \in Sessions, Step(s) PROVE TargetsReached'
  BY <1>1, ReachOthers, ReachOneself DEF TargetsReached
<1>2. CASE UNCHANGED <<rows, owner, pc, side, target, txn, raced>>
  BY <1>2 DEF TargetsReached, Reached, Reaches, CancelsOverHttp, Ids
<1> QED
  BY <1>1, <1>2, OneSteps

LEMMA ReachAlways == Spec => []TargetsReached
<1> QED
  BY TypeInit, TypeCorrect, ConnectionsOwned, ReachInit, ReachNext, PTL DEF Spec

\* Nobody votes in another's name: a ballot takes a side only in a transaction
\* of a request that reaches it and asked for that side (its own account's, or,
\* for a guest, one from the address it was cast from).  It disappears there,
\* or over the DELETE route, where a board has it.
THEOREM OnlyItsVoterTouches == Spec => TouchedByItsVoter
<1>1. TypeOK /\ TargetsReached /\ [Next]_vars =>
        [\A i \in Ids : rows'[i] # rows[i] =>
           \E s \in Sessions : pc'[s] # pc[s] /\ MayTurn(s, i, rows'[i])]_rows
  <2> SUFFICES ASSUME TypeOK, TargetsReached, [Next]_vars, rows' # rows,
                      NEW i \in Ids, rows'[i] # rows[i]
               PROVE  \E s \in Sessions : pc'[s] # pc[s] /\ MayTurn(s, i, rows'[i])
    OBVIOUS
  <2>1. PICK s \in Sessions : Step(s)
    BY OneSteps
  <2>2. ~Insert(s)
    BY Appended
  <2>3. /\ i = target[s] /\ pc[s] \in Holding
        /\ Update(s) \/ Reinsert(s) \/ Delete(s)
    BY <2>1, <2>2, TableMoves
  <2>4. /\ pc'[s] # pc[s]
        /\ Delete(s) => rows'[i] = "none"
        /\ Update(s) \/ Reinsert(s) => rows'[i] = side[s] /\ pc[s] \in InTransaction
    BY <2>3 DEF Update, Reinsert, Delete, Goto, TypeOK, Tables, Ids, InTransaction
  <2>5. Reached(s)
    BY DEF TargetsReached
  <2> QED
    BY <2>3, <2>4, <2>5 DEF Reached, MayTurn, CancelsOverHttp
<1> QED
  BY <1>1, ReachAlways, TypeCorrect, PTL DEF Spec, TouchedByItsVoter

-----------------------------------------------------------------------------
(* Every step of the handlers is one of BallotBox, or none.                *)

\* Who reaches a row of a session is that session.
LEMMA ReachesOwn ==
  ASSUME NobodyShares, NEW s \in Sessions, NEW t \in Sessions, NEW i,
         owner[i] = Identity(t), Reaches(s, i)
  PROVE  s = t
<1>1. CASE UserOf[s] = Guest
  <2>1. IpOf[s] = IpOf[t]
    BY <1>1 DEF Reaches, Identity
  <2> QED
    BY <1>1, <2>1 DEF NobodyShares
<1>2. CASE UserOf[s] # Guest
  <2>1. Voter(Identity(s)) = Voter(Identity(t))
    BY <1>2 DEF Reaches, Identity, Voter
  <2> QED
    BY <2>1 DEF NobodyShares
<1> QED
  BY <1>1, <1>2

LEMMA DifferentVoters ==
  ASSUME NobodyShares, NEW s \in Sessions, NEW t \in Sessions, s # t
  PROVE  Voter(Identity(s)) # Voter(Identity(t)) /\ Identity(s) # Identity(t)
BY DEF NobodyShares

LEMMA HoldsOwn ==
  ASSUME NobodyShares, TargetsReached, AloneInv, NEW s \in Sessions, pc[s] \in Holding,
         txn[s] # NoConn
  PROVE  target[s] \in Ids /\ owner[target[s]] = Identity(s)
<1>1. target[s] \in Ids /\ Reaches(s, target[s])
  BY DEF TargetsReached, Reached, CancelsOverHttp
<1>2. PICK t \in Sessions : owner[target[s]] = Identity(t)
  BY <1>1 DEF AloneInv
<1> QED
  BY <1>1, <1>2, ReachesOwn

\* The rows of the others stay, or are cancelled over HTTP.
LEMMA OthersRows ==
  ASSUME NobodyShares, TypeOK, TargetsReached, AloneInv, NEW s \in Sessions, Step(s),
         NEW i \in Ids, owner[i] # Identity(s)
  PROVE  /\ i \in DOMAIN rows' /\ owner'[i] = owner[i]
         /\ \/ rows'[i] = rows[i]
            \/ rows'[i] = "none" /\ i = target[s] /\ txn[s] = NoConn /\ Delete(s)
<1>1. CASE Insert(s)
  BY <1>1, Appended
<1>2. CASE UNCHANGED <<rows, owner>>
  BY <1>2 DEF Ids
<1>3. CASE /\ Update(s) \/ Reinsert(s) \/ Delete(s)
           /\ pc[s] \in Holding /\ owner' = owner /\ DOMAIN rows' = DOMAIN rows
           /\ \A j \in Ids \ {target[s]} : rows'[j] = rows[j]
  <2>1. CASE i # target[s]
    BY <1>3, <2>1 DEF Ids
  <2>2. CASE i = target[s]
    <3>1. txn[s] = NoConn
      BY <1>3, <2>2, HoldsOwn
    <3>2. Delete(s)
      BY <1>3, <3>1 DEF TargetsReached, Reached, InTransaction, Update, Reinsert
    <3>3. rows' = rows \/ rows' = [rows EXCEPT ![i] = "none"]
      BY <2>2, <3>2 DEF Delete
    <3>4. rows'[i] = rows[i] \/ rows'[i] = "none"
      BY <3>3 DEF TypeOK, Tables, Ids
    <3> QED
      BY <1>3, <2>2, <3>1, <3>2, <3>4 DEF Ids
  <2> QED
    BY <2>1, <2>2
<1> QED
  BY <1>1, <1>2, <1>3, TableMoves

\* No row of another is added.
LEMMA OthersLive ==
  ASSUME NobodyShares, TypeOK, TargetsReached, AloneInv, NEW s \in Sessions, Step(s),
         NEW t \in Sessions \ {s}
  PROVE  BallotsOf(Voter(Identity(t)))' \subseteq BallotsOf(Voter(Identity(t)))
<1> DEFINE v == Voter(Identity(t))
<1>1. v # Voter(Identity(s)) /\ v' = v
  BY DifferentVoters DEF Voter, Identity
<1> HIDE DEF v
<1>2. ASSUME NEW i \in BallotsOf(v)' PROVE i \in BallotsOf(v)
  <2>1. i \in DOMAIN rows' /\ rows'[i] # "none" /\ Voter(owner'[i]) = v'
    BY <1>2 DEF BallotsOf, Ids, Live, Voter
  <2>2. i \in Ids /\ owner'[i] = owner[i]
    BY <1>1, <2>1, TableMoves, Appended DEF Ids
  <2>3. owner[i] # Identity(s)
    BY <1>1, <2>1, <2>2
  <2>4. rows'[i] = rows[i]
    BY <2>1, <2>2, <2>3, OthersRows
  <2> QED
    BY <1>1, <2>1, <2>2, <2>4 DEF BallotsOf, Live
<1> QED
  BY <1>2 DEF v

LEMMA AloneInit == Init => AloneInv
BY DEF Init, AloneInv, HoldsBallot, Ids, Holding, Deciding

LEMMA AloneOwners ==
  ASSUME TypeOK, NEW s \in Sessions, Step(s), AloneInv, NEW i \in DOMAIN rows'
  PROVE  \E t \in Sessions : owner'[i] = Identity(t)
<1>1. \A j \in Ids : \E t \in Sessions : owner[j] = Identity(t)
  BY DEF AloneInv
<1>2. CASE Insert(s)
  BY <1>1, <1>2, Appended
<1>3. CASE owner' = owner /\ DOMAIN rows' = DOMAIN rows
  BY <1>1, <1>3 DEF Ids
<1> QED
  BY <1>2, <1>3, TableMoves

\* A row that comes to life is the handler's own, and the voter had none.
LEMMA NewLife ==
  ASSUME NobodyShares, TypeOK, TargetsReached, AloneInv, NEW s \in Sessions, Step(s),
         NEW i \in DOMAIN rows', rows'[i] # "none", i \notin Ids \/ ~Live(i)
  PROVE  /\ owner'[i] = Identity(s)
         /\ BallotsOf(Voter(Identity(s))) \subseteq {i}
         /\ \A j \in Ids \ {i} : rows'[j] = rows[j] /\ owner'[j] = owner[j]
         /\ DOMAIN rows' = Ids \cup {i}
         /\ rows'[i] = side[s]
<1>1. CASE Insert(s)
  <2>1. i = Len(rows) + 1
    BY <1>1, Appended DEF Live
  <2>2. BallotsOf(Voter(Identity(s))) = {}
    BY <1>1 DEF Insert, AloneInv, HoldsBallot
  <2> QED
    BY <1>1, <2>1, <2>2, Appended
<1>2. CASE ~Insert(s)
  <2>1. /\ Update(s) \/ Reinsert(s) \/ Delete(s)
        /\ pc[s] \in Holding /\ owner' = owner /\ DOMAIN rows' = Ids
        /\ \A j \in Ids \ {target[s]} : rows'[j] = rows[j]
    BY <1>2, TableMoves DEF Ids, Live
  <2>2. i \in Ids /\ rows[i] = "none" /\ i = target[s]
    BY <2>1 DEF Live
  <2>3. Reinsert(s)
    BY <2>1, <2>2 DEF Update, Delete, Live
  <2>4. txn[s] # NoConn
    BY <2>3 DEF TargetsReached, Reached, InTransaction, Reinsert
  <2>5. owner[i] = Identity(s)
    BY <2>1, <2>2, <2>4, HoldsOwn
  <2>6. BallotsOf(Voter(Identity(s))) \subseteq {i}
    BY <2>1, <2>2, <2>4 DEF AloneInv, HoldsBallot
  <2>7. rows' = [rows EXCEPT ![i] = side[s]]
    BY <2>2, <2>3 DEF Reinsert, Live
  <2>8. rows'[i] = side[s]
    BY <2>2, <2>7 DEF TypeOK, Tables, Ids
  <2> QED
    BY <2>1, <2>2, <2>5, <2>6, <2>8
<1> QED
  BY <1>1, <1>2

\* Nobody gets a second ballot.
LEMMA AloneUnique ==
  ASSUME NobodyShares, TypeOK, TargetsReached, AloneInv, NEW s \in Sessions, Step(s),
         NEW i \in DOMAIN rows', NEW j \in DOMAIN rows', rows'[i] # "none", rows'[j] # "none",
         Voter(owner'[i]) = Voter(owner'[j])
  PROVE  i = j
<1>1. ASSUME NEW k \in DOMAIN rows', rows'[k] # "none", k \notin Ids \/ ~Live(k),
             NEW l \in DOMAIN rows', rows'[l] # "none", Voter(owner'[k]) = Voter(owner'[l])
      PROVE  k = l
  <2> SUFFICES ASSUME k # l PROVE FALSE
    OBVIOUS
  <2>1. /\ owner'[k] = Identity(s) /\ BallotsOf(Voter(Identity(s))) \subseteq {k}
        /\ \A m \in Ids \ {k} : rows'[m] = rows[m] /\ owner'[m] = owner[m]
        /\ DOMAIN rows' = Ids \cup {k}
    BY <1>1, NewLife
  <2>2. l \in Ids /\ rows[l] # "none" /\ Voter(owner[l]) = Voter(Identity(s))
    BY <1>1, <2>1
  <2> QED
    BY <2>1, <2>2 DEF BallotsOf, Live
<1>2. ASSUME i \in Ids, Live(i), j \in Ids, Live(j) PROVE i = j
  <2>1. owner'[i] = owner[i] /\ owner'[j] = owner[j]
    BY <1>2, TableMoves, Appended
  <2> QED
    BY <1>2, <2>1 DEF AloneInv, SameVoter
<1> QED
  BY <1>1, <1>2

LEMMA AloneOthers ==
  ASSUME NobodyShares, TypeOK, TargetsReached, AloneInv, NEW s \in Sessions, Step(s),
         NEW r \in Sessions \ {s}
  PROVE  HoldsBallot(r)'
<1> DEFINE v == Voter(Identity(r))
<1>1. /\ pc'[r] = pc[r] /\ side'[r] = side[r] /\ target'[r] = target[r] /\ txn'[r] = txn[r]
  BY OthersStay DEF Others
<1>2. HoldsBallot(r)
  BY DEF AloneInv
<1>3. BallotsOf(v)' \subseteq BallotsOf(v)
  BY OthersLive
<1>4. ASSUME pc[r] \in {"cancel", "delete"}, txn[r] # NoConn, rows'[target[r]] # "none"
      PROVE  rows'[target[r]] = rows[target[r]]
  <2>1. target[r] \in Ids /\ owner[target[r]] = Identity(r)
    BY <1>4, HoldsOwn DEF Holding, Deciding
  <2>2. owner[target[r]] # Identity(s)
    BY <2>1, DifferentVoters
  <2> QED
    BY <1>4, <2>1, <2>2, OthersRows
<1>5. HoldsBallot(r) /\ Live(target[r])' /\ pc[r] \in {"cancel", "delete"} /\ txn[r] # NoConn
        => rows'[target[r]] = side[r]
  BY <1>1, <1>4 DEF HoldsBallot, Live
<1> HIDE DEF v
<1>6. /\ pc[r] = "insert" => BallotsOf(v) = {}
      /\ pc[r] \in Holding /\ txn[r] # NoConn => BallotsOf(v) \subseteq {target[r]}
  BY <1>2 DEF HoldsBallot, v
<1>7. /\ pc[r] = "insert" => BallotsOf(v)' = {}
      /\ pc[r] \in Holding /\ txn[r] # NoConn => BallotsOf(v)' \subseteq {target[r]}
  BY <1>3, <1>6
<1>8. BallotsOf(Voter(Identity(r)))' = BallotsOf(v)'
  BY DEF v
<1> QED
  BY <1>1, <1>2, <1>5, <1>7, <1>8 DEF HoldsBallot

\* A step that leaves the table alone and keeps a handler's hold.
LEMMA HoldStays ==
  ASSUME NEW s \in Sessions, HoldsBallot(s), UNCHANGED <<rows, owner, target, side>>,
         txn'[s] = txn[s], pc[s] \in Holding, pc'[s] \in Holding,
         pc'[s] \in {"cancel", "delete"} => pc[s] \in {"cancel", "delete"}
  PROVE  HoldsBallot(s)'
<1>1. BallotsOf(Voter(Identity(s)))' = BallotsOf(Voter(Identity(s)))
  BY DEF BallotsOf, Ids, Live, Voter, Identity
<1> QED
  BY <1>1 DEF HoldsBallot, Live, Holding

LEMMA AloneOneself ==
  ASSUME NobodyShares, TypeOK, ConnectionsOwnedOnce, TargetsReached, AloneInv,
         NEW s \in Sessions, Step(s)
  PROVE  HoldsBallot(s)'
<1> DEFINE v == Voter(Identity(s))
<1>1. /\ pc \in [Sessions -> Labels] /\ target \in [Sessions -> 0 .. Len(rows)]
      /\ txn \in [Sessions -> Conns \cup {NoConn}]
      /\ pc[s] = "idle" => txn[s] = NoConn
      /\ HoldsBallot(s)
  BY DEF TypeOK, ConnectionsOwnedOnce, AloneInv
<1>2. ASSUME pc'[s] \notin Deciding PROVE HoldsBallot(s)'
  BY <1>2 DEF HoldsBallot, Holding, Deciding
<1>3. CASE FindNothing(s)
  <2>1. pc'[s] = "insert" /\ UNCHANGED <<rows, owner>> /\ \A i \in Ids : ~Matches(s, i)
    BY <1>1, <1>3 DEF FindNothing, Goto, store
  <2>2. BallotsOf(v) = {}
    <3> SUFFICES ASSUME NEW i \in BallotsOf(v) PROVE FALSE
      OBVIOUS
    <3>1. i \in Ids /\ Live(i) /\ Voter(owner[i]) = v
      BY DEF BallotsOf
    <3>2. PICK t \in Sessions : owner[i] = Identity(t)
      BY <3>1 DEF AloneInv
    <3>3. owner[i] = Identity(s)
      BY <3>1, <3>2 DEF NobodyShares
    <3> QED
      BY <2>1, <3>1, <3>3 DEF Matches, Identity
  <2>3. BallotsOf(v)' = BallotsOf(v)
    BY <2>1 DEF BallotsOf, Ids, Live, Voter, Identity
  <2> QED
    BY <2>1, <2>2, <2>3 DEF HoldsBallot, Holding
<1>4. CASE FindBallot(s)
  <2>1. PICK i \in Ids : /\ Matches(s, i) /\ Aim(s, i)
                        /\ Goto(s, IF rows[i] = side[s] THEN "cancel" ELSE "reload")
    BY <1>4 DEF FindBallot
  <2>2. /\ target'[s] = i /\ UNCHANGED <<rows, owner, side>>
        /\ pc'[s] = IF rows[i] = side[s] THEN "cancel" ELSE "reload"
    BY <1>1, <1>4, <2>1 DEF FindBallot, Aim, Goto, store
  <2>3. Live(i) /\ Reaches(s, i)
    BY <2>1 DEF Matches, Reaches
  <2>4. PICK t \in Sessions : owner[i] = Identity(t)
    BY DEF AloneInv
  <2>5. owner[i] = Identity(s)
    BY <2>3, <2>4, ReachesOwn
  <2>6. BallotsOf(v) \subseteq {i}
    BY <2>3, <2>5 DEF BallotsOf, AloneInv, SameVoter
  <2>7. BallotsOf(v)' = BallotsOf(v)
    BY <2>2 DEF BallotsOf, Ids, Live, Voter, Identity
  <2> QED
    BY <2>2, <2>6, <2>7 DEF HoldsBallot
<1>5. CASE CancelByHttp(s)
  <2>1. txn'[s] = NoConn /\ pc'[s] = "cancel"
    BY <1>1, <1>5 DEF CancelByHttp, Goto, pool
  <2> QED
    BY <2>1 DEF HoldsBallot
<1>6. CASE AcquireSecond(s)
  <2>1. /\ UNCHANGED <<rows, owner, target, side, txn>>
        /\ pc[s] = "cancel" /\ pc'[s] = "delete"
    BY <1>1, <1>6 DEF AcquireSecond, Goto, store
  <2> QED
    BY <1>1, <2>1, HoldStays DEF Holding, Deciding
<1>7. CASE Reload(s)
  <2>1. /\ UNCHANGED <<rows, owner, target, side, txn>>
        /\ pc[s] = "reload" /\ pc'[s] \in {"reinsert", "commit", "update"}
    BY <1>1, <1>7 DEF Reload, Goto, store, pool
  <2>2. CASE pc'[s] = "commit"
    BY <1>2, <2>2 DEF Deciding
  <2>3. CASE pc'[s] # "commit"
    BY <1>1, <2>1, <2>3, HoldStays DEF Holding, Deciding
  <2> QED
    BY <2>2, <2>3
<1>8. ASSUME \/ \E x \in Sides : CreateVote(s, x)
             \/ Connect(s) \/ StartTransaction(s)
             \/ Insert(s) \/ Update(s) \/ Reinsert(s) \/ Delete(s) \/ Commit(s)
             \/ Release(s) \/ Rollback(s) \/ Fault(s) \/ Answer(s)
      PROVE  HoldsBallot(s)'
  <2>1. pc'[s] \in {"connect", "begin", "lookup", "release", "rollback", "commit", "idle",
                    "count"}
    BY <1>1, <1>8 DEF CreateVote, Connect, StartTransaction, Insert, Update, Reinsert, Delete,
                      Commit, Release, Rollback, Fault, Answer, Goto
  <2> QED
    BY <1>2, <2>1 DEF Deciding
<1> QED
  BY <1>3, <1>4, <1>5, <1>6, <1>7, <1>8 DEF Step, Request, Acquire, Handle

LEMMA AloneNext ==
  ASSUME NobodyShares
  PROVE  TypeOK /\ ConnectionsOwnedOnce /\ TargetsReached /\ AloneInv /\ [Next]_vars => AloneInv'
<1> SUFFICES ASSUME TypeOK, ConnectionsOwnedOnce, TargetsReached, AloneInv, [Next]_vars
             PROVE  AloneInv'
  OBVIOUS
<1>1. ASSUME NEW s \in Sessions, Step(s) PROVE AloneInv'
  <2>1. \A i \in DOMAIN rows' : \E t \in Sessions : owner'[i] = Identity(t)
    BY <1>1, AloneOwners
  <2>2. \A i, j \in DOMAIN rows' :
          rows'[i] # "none" /\ rows'[j] # "none" /\ Voter(owner'[i]) = Voter(owner'[j]) => i = j
    BY <1>1, AloneUnique
  <2>3. \A r \in Sessions : HoldsBallot(r)'
    BY <1>1, AloneOthers, AloneOneself
  <2>4. (\A i \in Ids : \E t \in Sessions : owner[i] = Identity(t))'
    BY <2>1 DEF Ids, Identity
  <2>5. (\A i, j \in Ids : Live(i) /\ Live(j) /\ SameVoter(i, j) => i = j)'
    BY <2>2 DEF Ids, Live, SameVoter, Voter
  <2> QED
    BY <2>3, <2>4, <2>5 DEF AloneInv
<1>2. CASE UNCHANGED <<rows, owner, pc, side, target, txn, raced>>
  BY <1>2 DEF AloneInv, HoldsBallot, BallotsOf, SameVoter, Ids, Live
<1> QED
  BY <1>1, <1>2, OneSteps

\* The theorem's invariant.
BoxInv == TypeOK /\ ConnectionsOwnedOnce /\ TargetsReached /\ AloneInv

LEMMA AloneAlways == ASSUME NobodyShares PROVE Spec => []BoxInv
<1>1. TypeOK /\ ConnectionsOwnedOnce /\ TargetsReached /\ AloneInv /\ [Next]_vars => AloneInv'
  BY AloneNext
<1>2. TypeOK /\ ConnectionsOwnedOnce /\ TargetsReached /\ AloneInv => BoxInv
  BY DEF BoxInv
<1> QED
  BY <1>1, <1>2, AloneInit, TypeCorrect, ConnectionsOwned, ReachAlways, PTL DEF Spec

\* The ballots of a voter: one at most, and BallotOf reads it.
RowsTell ==
  \A v \in ActiveVoters :
    /\ BallotsOf(v) = {} => BallotOf(v) = "none"
    /\ \A i \in BallotsOf(v) : BallotOf(v) = rows[i]

LEMMA RowsTellBallots == AloneInv => RowsTell
<1> SUFFICES ASSUME AloneInv, NEW v \in ActiveVoters, NEW i \in BallotsOf(v)
             PROVE  BallotOf(v) = rows[i]
  BY DEF RowsTell, BallotOf
<1> DEFINE j == CHOOSE j \in BallotsOf(v) : TRUE
<1>1. j \in BallotsOf(v) /\ BallotOf(v) = rows[j]
  BY DEF BallotOf
<1> HIDE DEF j
<1>2. i = j
  BY <1>1 DEF BallotsOf, AloneInv, SameVoter
<1> QED
  BY <1>1, <1>2

LEMMA SessionFound ==
  ASSUME NobodyShares, NEW s \in Sessions PROVE SessionOf(Voter(Identity(s))) = s
<1> DEFINE t == CHOOSE t \in Sessions : Voter(Identity(t)) = Voter(Identity(s))
<1>1. t \in Sessions /\ Voter(Identity(t)) = Voter(Identity(s))
  OBVIOUS
<1>2. SessionOf(Voter(Identity(s))) = t
  BY DEF SessionOf
<1> HIDE DEF t
<1> QED
  BY <1>1, <1>2 DEF NobodyShares

LEMMA SameBallots ==
  ASSUME RowsTell, RowsTell', NEW v \in ActiveVoters, BallotsOf(v)' = BallotsOf(v),
         \A i \in BallotsOf(v) : rows'[i] = rows[i]
  PROVE  BallotOf(v)' = BallotOf(v)
<1>1. CASE BallotsOf(v) = {}
  BY <1>1 DEF RowsTell
<1>2. ASSUME NEW i \in BallotsOf(v) PROVE BallotOf(v)' = BallotOf(v)
  BY <1>2 DEF RowsTell
<1> QED
  BY <1>1, <1>2

\* A step of a handler changes no ballot but its voter's, unless it deletes over
\* HTTP.
LEMMA OthersBallots ==
  ASSUME NobodyShares, TypeOK, TargetsReached, AloneInv, RowsTell, RowsTell',
         NEW s \in Sessions, Step(s), ~(Delete(s) /\ txn[s] = NoConn),
         NEW t \in Sessions \ {s}
  PROVE  BallotOf(Voter(Identity(t)))' = BallotOf(Voter(Identity(t)))
<1> DEFINE v == Voter(Identity(t))
<1>1. v \in ActiveVoters /\ v # Voter(Identity(s))
  BY DifferentVoters DEF ActiveVoters
<1>2. ASSUME NEW i \in BallotsOf(v) PROVE i \in BallotsOf(v)' /\ rows'[i] = rows[i]
  <2>1. i \in Ids /\ Live(i) /\ Voter(owner[i]) = v
    BY <1>2 DEF BallotsOf
  <2>2. owner[i] # Identity(s)
    BY <1>1, <2>1
  <2>3. i \in DOMAIN rows' /\ rows'[i] = rows[i] /\ owner'[i] = owner[i]
    BY <2>1, <2>2, OthersRows
  <2> QED
    BY <2>1, <2>3 DEF BallotsOf, Ids, Live, Voter
<1>3. BallotsOf(v)' \subseteq BallotsOf(v)
  BY OthersLive
<1> HIDE DEF v
<1>4. BallotsOf(v)' = BallotsOf(v)
  BY <1>2, <1>3
<1>5. BallotOf(v)' = BallotOf(v)
  BY <1>1, <1>2, <1>4, SameBallots
<1> QED
  BY <1>5 DEF v

-----------------------------------------------------------------------------
(* The steps of the box.                                                   *)

Ball == [v \in ActiveVoters |-> BallotOf(v)]
Want == [v \in ActiveVoters |-> WantOf(SessionOf(v))]

\* What one step may do to what voter v wants (w to x) and has (b to c).
BoxStep(v, w, x, b, c) ==
  \/ x = w /\ c = b
  \/ w = "nothing" /\ (x \in Sides \/ (x = "retract" /\ v \in HttpVoters)) /\ c = b
  \/ w \in Sides /\ x = "reply" /\ (c = b \/ c = IF w = b THEN "none" ELSE w)
  \/ w = "retract" /\ x = "reply" /\ c = b
  \/ w = "reply" /\ x = "nothing" /\ c = b
  \/ w \in Sides /\ x = "nothing" /\ c = b

LEMMA OneMoves ==
  ASSUME NEW S, NEW f, NEW g, f = [u \in S |-> f[u]], g = [u \in S |-> g[u]], NEW v \in S,
         \A u \in S \ {v} : g[u] = f[u]
  PROVE  g = [f EXCEPT ![v] = g[v]]
OBVIOUS

LEMMA BoxMoves ==
  ASSUME NEW v \in ActiveVoters,
         \A u \in ActiveVoters \ {v} : Want'[u] = Want[u] /\ Ball'[u] = Ball[u],
         BoxStep(v, Want[v], Want'[v], Ball[v], Ball'[v])
  PROVE  [Ballots!Next]_(Ballots!vars)
<1>1. /\ Want = [u \in ActiveVoters |-> Want[u]] /\ Want' = [u \in ActiveVoters |-> Want'[u]]
      /\ Ball = [u \in ActiveVoters |-> Ball[u]] /\ Ball' = [u \in ActiveVoters |-> Ball'[u]]
  BY DEF Want, Ball, ActiveVoters, Identity
<1>2. Want' = [Want EXCEPT ![v] = Want'[v]] /\ Ball' = [Ball EXCEPT ![v] = Ball'[v]]
  BY <1>1, OneMoves
<1>3. Ball'[v] = Ball[v] => Ball' = Ball
  BY <1>1, <1>2
<1>4. Want'[v] = Want[v] => Want' = Want
  BY <1>1, <1>2
<1>5. CASE Want'[v] = Want[v] /\ Ball'[v] = Ball[v]
  BY <1>3, <1>4, <1>5 DEF Ballots!vars, Want, Ball
<1>6. CASE /\ Want[v] = "nothing" /\ Ball'[v] = Ball[v]
           /\ Want'[v] \in Sides \/ (Want'[v] = "retract" /\ v \in HttpVoters)
  <2>1. Ballots!Click(v, Want'[v])
    BY <1>2, <1>3, <1>6 DEF Ballots!Click, Ballots!Set, Want, Ball, Sides
  <2> QED
    BY <1>6, <2>1 DEF Ballots!Next, Ballots!Sides, Sides
<1>7. CASE Want[v] \in Sides \cup {"retract"} /\ Want'[v] = "reply" /\ Ball'[v] = Ball[v]
  <2>1. Ballots!Abort(v)
    BY <1>2, <1>3, <1>7 DEF Ballots!Abort, Ballots!Set, Ballots!Sides, Sides, Want, Ball
  <2> QED
    BY <2>1 DEF Ballots!Next, Ballots!Serve
<1>8. CASE /\ Want[v] \in Sides /\ Want'[v] = "reply"
           /\ Ball'[v] = IF Want[v] = Ball[v] THEN "none" ELSE Want[v]
  <2>1. Ballots!Apply(v)
    BY <1>2, <1>8 DEF Ballots!Apply, Ballots!Toggled, Ballots!Set, Ballots!Sides, Sides, Want, Ball
  <2> QED
    BY <2>1 DEF Ballots!Next, Ballots!Serve
<1>9. CASE Want[v] = "reply" /\ Want'[v] = "nothing" /\ Ball'[v] = Ball[v]
  <2>1. Ballots!Reply(v)
    BY <1>2, <1>3, <1>9 DEF Ballots!Reply, Ballots!Set, Want, Ball
  <2> QED
    BY <2>1 DEF Ballots!Next, Ballots!Serve
<1>10. CASE Want[v] \in Sides /\ Want'[v] = "nothing" /\ Ball'[v] = Ball[v]
  <2>1. Ballots!Refuse(v)
    BY <1>2, <1>3, <1>10 DEF Ballots!Refuse, Ballots!Set, Ballots!Sides, Sides, Want, Ball
  <2> QED
    BY <2>1 DEF Ballots!Next, Ballots!Serve
<1> QED
  BY <1>5, <1>6, <1>7, <1>8, <1>9, <1>10 DEF BoxStep, Sides

WantTells ==
  \A s \in Sessions :
    /\ pc[s] = "idle" => WantOf(s) = "nothing"
    /\ pc[s] \in {"commit", "rollback", "release", "count"} => WantOf(s) = "reply"
    /\ pc[s] \in {"cancel", "delete"} =>
         WantOf(s) = IF txn[s] = NoConn THEN "retract" ELSE side[s]
    /\ pc[s] \in {"connect", "begin", "lookup", "insert", "reload", "update", "reinsert"} =>
         WantOf(s) = side[s]

LEMMA WantReads == WantTells
BY DEF WantTells, WantOf

LEMMA TableStays ==
  ASSUME RowsTell, RowsTell', UNCHANGED <<rows, owner>>, NEW v \in ActiveVoters
  PROVE  BallotOf(v)' = BallotOf(v)
<1>1. BallotsOf(v)' = BallotsOf(v)
  BY DEF BallotsOf, Ids, Live, Voter
<1> QED
  BY <1>1, SameBallots

\* What a step does to what its voter wants, while the table stays.
QuietStep(v, w, x) ==
  \/ x = w
  \/ w = "nothing" /\ (x \in Sides \/ (x = "retract" /\ v \in HttpVoters))
  \/ w \in Sides \cup {"retract"} /\ x = "reply"
  \/ w = "reply" /\ x = "nothing"
  \/ w \in Sides /\ x = "nothing"

LEMMA QuietWants ==
  ASSUME TypeOK, ConnectionsOwnedOnce, TargetsReached, NEW s \in Sessions, Step(s), ~Insert(s)
  PROVE  QuietStep(Voter(Identity(s)), WantOf(s), WantOf(s)')
<1> DEFINE v == Voter(Identity(s))
           w == WantOf(s)
           x == WantOf(s)'
           Goal == QuietStep(v, w, x)
<1>2. /\ pc \in [Sessions -> Labels] /\ side \in [Sessions -> Sides]
      /\ txn \in [Sessions -> Conns \cup {NoConn}]
      /\ pc[s] \in {"idle", "connect", "count"} => txn[s] = NoConn
      /\ pc[s] \in InTransaction => txn[s] # NoConn
  BY DEF TypeOK, ConnectionsOwnedOnce, TargetsReached, Reached
<1>3. /\ pc[s] = "idle" => w = "nothing"
      /\ pc[s] \in {"commit", "rollback", "release", "count"} => w = "reply"
      /\ pc[s] \in {"cancel", "delete"} => w = IF txn[s] = NoConn THEN "retract" ELSE side[s]
      /\ pc[s] \in {"connect", "begin", "lookup", "insert", "reload", "update", "reinsert"} =>
           w = side[s]
  BY WantReads DEF WantTells
<1>4. /\ pc'[s] = "idle" => x = "nothing"
      /\ pc'[s] \in {"commit", "rollback", "release", "count"} => x = "reply"
      /\ pc'[s] \in {"cancel", "delete"} => x = IF txn'[s] = NoConn THEN "retract" ELSE side'[s]
      /\ pc'[s] \in {"connect", "begin", "lookup", "insert", "reload", "update", "reinsert"} =>
           x = side'[s]
  <2>1. WantTells'
    BY WantReads, PTL
  <2> QED
    BY <2>1 DEF WantTells
<1>5. side[s] \in Sides
  BY <1>2
<1> USE DEF QuietStep
<1> HIDE DEF w, x, v
<1>6. ASSUME NEW y \in Sides, CreateVote(s, y) PROVE Goal
  BY <1>2, <1>3, <1>4, <1>6 DEF CreateVote, Goto
<1>7. ASSUME CancelByHttp(s) PROVE Goal
  <2>1. pc[s] = "idle" /\ pc'[s] = "cancel" /\ txn'[s] = txn[s] /\ HttpCancels /\ UserOf[s] # Guest
    BY <1>2, <1>7 DEF CancelByHttp, Goto, pool
  <2>2. v \in HttpVoters
    BY <2>1 DEF HttpVoters, v
  <2> QED
    BY <1>2, <1>3, <1>4, <2>1, <2>2
<1>8. ASSUME Acquire(s) PROVE Goal
  <2>1. CASE Connect(s)
    BY <1>2, <1>3, <1>4, <2>1 DEF Connect, Goto
  <2>2. CASE AcquireSecond(s)
    BY <1>2, <1>3, <1>4, <2>2 DEF AcquireSecond, Goto
  <2> QED
    BY <1>8, <2>1, <2>2 DEF Acquire
<1>9. ASSUME StartTransaction(s) \/ FindNothing(s) PROVE Goal
  <2>1. /\ pc[s] \in {"begin", "lookup"} /\ pc'[s] \in {"lookup", "insert"} /\ side' = side
    BY <1>2, <1>9 DEF StartTransaction, FindNothing, Goto
  <2> QED
    BY <1>3, <1>4, <2>1
<1>10. ASSUME FindBallot(s) PROVE Goal
  <2>1. PICK i \in Ids : Goto(s, IF rows[i] = side[s] THEN "cancel" ELSE "reload")
    BY <1>10 DEF FindBallot
  <2>2. /\ pc[s] = "lookup" /\ pc'[s] \in {"cancel", "reload"}
        /\ txn'[s] = txn[s] /\ side'[s] = side[s] /\ txn[s] # NoConn
    BY <1>2, <1>10, <2>1 DEF FindBallot, Goto, pool, InTransaction
  <2> QED
    BY <1>3, <1>4, <2>2
<1>11. ASSUME Reload(s) PROVE Goal
  <2>1. /\ pc[s] = "reload" /\ pc'[s] \in {"reinsert", "commit", "update"} /\ side' = side
    BY <1>2, <1>11 DEF Reload, Goto
  <2> QED
    BY <1>3, <1>4, <1>5, <2>1
<1>12. ASSUME Update(s) \/ Reinsert(s) PROVE Goal
  <2>1. pc[s] \in {"update", "reinsert"} /\ pc'[s] \in {"release", "rollback"}
    BY <1>2, <1>12 DEF Update, Reinsert, Goto
  <2> QED
    BY <1>3, <1>4, <1>5, <2>1
<1>13. ASSUME Delete(s) PROVE Goal
  <2>1. pc[s] = "delete" /\ pc'[s] \in {"release", "commit", "rollback"}
    BY <1>2, <1>13 DEF Delete, Goto
  <2> QED
    BY <1>3, <1>4, <1>5, <2>1
<1>14. ASSUME Commit(s) \/ Release(s) \/ Rollback(s) \/ Answer(s) PROVE Goal
  <2>1. /\ pc[s] \in {"commit", "release", "rollback", "count"}
        /\ pc'[s] \in {"release", "idle", "count"}
    BY <1>2, <1>14 DEF Commit, Release, Rollback, Answer, Goto
  <2> QED
    BY <1>3, <1>4, <2>1
<1>15. ASSUME Fault(s) PROVE Goal
  <2>1. pc[s] \in Statements
    BY <1>15, BoundAssumption DEF Fault
  <2>2. CASE pc[s] = "begin"
    <3>1. pc'[s] = "idle"
      BY <1>2, <1>15, <2>2 DEF Fault, Goto
    <3> QED
      BY <1>3, <1>4, <1>5, <2>2, <3>1
  <2>3. CASE pc[s] # "begin"
    <3>1. pc'[s] = "rollback"
      BY <1>2, <1>15, <2>3 DEF Fault, Goto
    <3> QED
      BY <1>3, <1>4, <1>5, <2>1, <2>3, <3>1 DEF Statements
  <2> QED
    BY <2>2, <2>3
<1> HIDE DEF Goal
<1>16. Goal
  BY <1>6, <1>7, <1>8, <1>9, <1>10, <1>11, <1>12, <1>13, <1>14, <1>15
     DEF Step, Request, Handle
<1> QED
  BY <1>16 DEF Goal, v, w, x

\* The steps that leave the table alone.
LEMMA QuietSteps ==
  ASSUME TypeOK, ConnectionsOwnedOnce, TargetsReached, RowsTell, RowsTell',
         NEW s \in Sessions, Step(s), UNCHANGED <<rows, owner>>, ~Insert(s)
  PROVE  LET v == Voter(Identity(s))
         IN  BoxStep(v, WantOf(s), WantOf(s)', BallotOf(v), BallotOf(v)')
<1> DEFINE v == Voter(Identity(s))
<1>1. BallotOf(v)' = BallotOf(v)
  BY TableStays DEF ActiveVoters
<1>2. QuietStep(v, WantOf(s), WantOf(s)')
  BY QuietWants
<1> HIDE DEF v
<1>3. BoxStep(v, WantOf(s), WantOf(s)', BallotOf(v), BallotOf(v)')
  BY <1>1, <1>2 DEF QuietStep, BoxStep
<1> QED
  BY <1>3 DEF v

\* The steps that write the voter's own row: it reads the side it asked for, or
\* nothing where it read that side already.
LEMMA SaveSteps ==
  ASSUME RowsTell, RowsTell', NEW s \in Sessions, WantOf(s) \in Sides, WantOf(s)' = "reply",
         LET v == Voter(Identity(s))
         IN  \/ \E i \in BallotsOf(v)' : rows'[i] = WantOf(s)
             \/ BallotsOf(v)' = {} /\ BallotOf(v) = WantOf(s)
  PROVE  LET v == Voter(Identity(s))
         IN  BoxStep(v, WantOf(s), WantOf(s)', BallotOf(v), BallotOf(v)')
<1> DEFINE v == Voter(Identity(s))
<1>1. v \in ActiveVoters
  BY DEF ActiveVoters
<1> HIDE DEF v
<1>2. CASE \E i \in BallotsOf(v)' : rows'[i] = WantOf(s)
  <2>1. BallotOf(v)' = WantOf(s)
    BY <1>1, <1>2 DEF RowsTell
  <2> QED
    BY <1>2, <2>1 DEF BoxStep, v
<1>3. CASE BallotsOf(v)' = {} /\ BallotOf(v) = WantOf(s)
  <2>1. BallotOf(v)' = "none"
    BY <1>1, <1>3 DEF RowsTell
  <2> QED
    BY <1>3, <2>1 DEF BoxStep, v
<1> QED
  BY <1>2, <1>3 DEF v

\* The write of a handler ends what its voter waited for.
LEMMA WriteWants ==
  ASSUME TypeOK, TargetsReached, NEW s \in Sessions,
         Insert(s) \/ Update(s) \/ (Reinsert(s) /\ ~Live(target[s])) \/ (Delete(s) /\ Live(target[s]))
  PROVE  /\ WantOf(s)' = "reply" /\ side[s] \in Sides /\ "none" \notin Sides
         /\ WantOf(s) = IF Delete(s) /\ txn[s] = NoConn THEN "retract" ELSE side[s]
<1>1. /\ pc[s] \in {"insert", "update", "reinsert", "delete"} /\ (pc[s] = "delete" <=> Delete(s))
      /\ pc'[s] \in {"release", "commit"} /\ side[s] \in Sides
  BY DEF Insert, Update, Reinsert, Delete, Goto, TypeOK
<1>2. WantTells'
  BY WantReads, PTL
<1> QED
  BY <1>1, <1>2, WantReads DEF WantTells, Sides

LEMMA InsertSteps ==
  ASSUME TypeOK, TargetsReached, AloneInv, RowsTell, RowsTell', NEW s \in Sessions, Insert(s)
  PROVE  LET v == Voter(Identity(s))
         IN  BoxStep(v, WantOf(s), WantOf(s)', BallotOf(v), BallotOf(v)')
<1> DEFINE v == Voter(Identity(s))
           n == Len(rows) + 1
<1>1. WantOf(s)' = "reply" /\ WantOf(s) = side[s] /\ side[s] \in Sides /\ side[s] # "none"
  <2>1. ~Delete(s)
    BY DEF Insert, Delete
  <2> QED
    BY <2>1, WriteWants
<1>2. n \in BallotsOf(v)' /\ rows'[n] = side[s]
  <2>1. n \in DOMAIN rows' /\ rows'[n] = side[s] /\ owner'[n] = Identity(s)
    BY Appended
  <2> HIDE DEF n
  <2> QED
    BY <1>1, <2>1 DEF BallotsOf, Ids, Live, Voter, Identity
<1> HIDE DEF n
<1> QED
  BY <1>1, <1>2, SaveSteps

\* A row that a handler in its transaction saves or deletes is its voter's
\* ballot.
LEMMA HeldBallot ==
  ASSUME NobodyShares, TargetsReached, AloneInv, RowsTell, NEW s \in Sessions,
         pc[s] \in Holding, txn[s] # NoConn, Live(target[s])
  PROVE  LET v == Voter(Identity(s))
         IN  v \in ActiveVoters /\ target[s] \in BallotsOf(v) /\ BallotOf(v) = rows[target[s]]
<1> DEFINE v == Voter(Identity(s))
<1>1. target[s] \in Ids /\ owner[target[s]] = Identity(s)
  BY HoldsOwn
<1>2. v \in ActiveVoters /\ target[s] \in BallotsOf(v)
  BY <1>1 DEF ActiveVoters, BallotsOf
<1> HIDE DEF v
<1>3. BallotOf(v) = rows[target[s]]
  BY <1>2 DEF RowsTell
<1> QED
  BY <1>2, <1>3 DEF v

\* save() writes the row it loaded, or brings it back.
LEMMA StoreSteps ==
  ASSUME NobodyShares, TypeOK, TargetsReached, AloneInv, RowsTell, RowsTell', NEW s \in Sessions,
         (Update(s) /\ Live(target[s])) \/ (Reinsert(s) /\ ~Live(target[s]))
  PROVE  LET v == Voter(Identity(s))
         IN  BoxStep(v, WantOf(s), WantOf(s)', BallotOf(v), BallotOf(v)')
<1> DEFINE v == Voter(Identity(s))
           i == target[s]
<1>1. pc[s] \in {"update", "reinsert"} /\ ~Delete(s)
  BY DEF Update, Reinsert, Delete
<1>2. txn[s] # NoConn
  BY <1>1 DEF TargetsReached, Reached, InTransaction
<1>3. i \in Ids /\ owner[i] = Identity(s)
  BY <1>1, <1>2, HoldsOwn DEF Holding, Deciding
<1>4. WantOf(s)' = "reply" /\ WantOf(s) = side[s] /\ side[s] \in Sides /\ side[s] # "none"
  BY <1>1, WriteWants
<1>5. rows' = [rows EXCEPT ![i] = side[s]] /\ owner' = owner
  BY DEF Update, Reinsert
<1>6. i \in BallotsOf(v)' /\ rows'[i] = side[s]
  <2>1. i \in DOMAIN rows' /\ rows'[i] = side[s]
    BY <1>3, <1>5 DEF TypeOK, Tables, Ids
  <2> QED
    BY <1>3, <1>4, <1>5, <2>1 DEF BallotsOf, Ids, Live, Voter, Identity
<1> HIDE DEF i
<1> QED
  BY <1>4, <1>6, SaveSteps

\* A deleted row was the only one of its voter.
LEMMA DeletedEmpties ==
  ASSUME TypeOK, AloneInv, NEW v, NEW i \in BallotsOf(v), rows' = [rows EXCEPT ![i] = "none"],
         owner' = owner, v' = v
  PROVE  BallotsOf(v)' = {}
<1> SUFFICES ASSUME NEW j \in BallotsOf(v)' PROVE FALSE
  OBVIOUS
<1>1. rows \in Tables /\ i \in Ids /\ Live(i) /\ Voter(owner[i]) = v
  BY DEF TypeOK, BallotsOf
<1>2. j \in DOMAIN rows' /\ rows'[j] # "none" /\ Voter(owner[j]) = v
  BY DEF BallotsOf, Ids, Live, Voter
<1>3. j \in Ids /\ j # i /\ rows[j] = rows'[j]
  BY <1>1, <1>2 DEF Ids, Tables
<1>4. j = i
  BY <1>1, <1>2, <1>3 DEF AloneInv, SameVoter, Live
<1> QED
  BY <1>3, <1>4

\* canselEachVote in the transaction of a click: the side clicked was the side
\* cast.
LEMMA DeleteSteps ==
  ASSUME NobodyShares, TypeOK, TargetsReached, AloneInv, RowsTell, RowsTell',
         NEW s \in Sessions, Delete(s), Live(target[s]), txn[s] # NoConn
  PROVE  LET v == Voter(Identity(s))
         IN  BoxStep(v, WantOf(s), WantOf(s)', BallotOf(v), BallotOf(v)')
<1> DEFINE v == Voter(Identity(s))
           i == target[s]
<1>1. pc[s] = "delete" /\ pc[s] \in Holding
  BY DEF Delete, Holding, Deciding
<1>2. v \in ActiveVoters /\ i \in BallotsOf(v) /\ BallotOf(v) = rows[i]
  BY <1>1, HeldBallot
<1>3. WantOf(s)' = "reply" /\ WantOf(s) = side[s] /\ side[s] \in Sides
  BY WriteWants
<1>4. rows[i] = side[s]
  BY <1>1 DEF AloneInv, HoldsBallot
<1>5. rows' = [rows EXCEPT ![i] = "none"] /\ owner' = owner /\ v' = v
  BY DEF Delete, Voter, Identity
<1> HIDE DEF i, v
<1>6. BallotsOf(v)' = {}
  BY <1>2, <1>5, DeletedEmpties
<1> QED
  BY <1>2, <1>3, <1>4, <1>6, SaveSteps DEF v

\* The DELETE route withdraws the ballot it was given, whosever it is.
LEMMA RouteSteps ==
  ASSUME NobodyShares, TypeOK, ConnectionsOwnedOnce, TargetsReached, AloneInv, RowsTell, RowsTell',
         NEW s \in Sessions, Delete(s), Live(target[s]), txn[s] = NoConn
  PROVE  [Ballots!Next]_(Ballots!vars)
<1> DEFINE v == Voter(Identity(s))
           i == target[s]
<1>1. pc[s] = "delete" /\ pc[s] \in Holding /\ i \in Ids
  BY DEF Delete, Holding, Deciding, TargetsReached, Reached
<1>2. PICK t \in Sessions : owner[i] = Identity(t)
  BY <1>1 DEF AloneInv
<1> DEFINE u == Voter(Identity(t))
<1>3. v \in ActiveVoters /\ u \in ActiveVoters /\ i \in BallotsOf(u) /\ u' = u
  BY <1>1, <1>2 DEF ActiveVoters, BallotsOf, Voter, Identity
<1>4. rows' = [rows EXCEPT ![i] = "none"] /\ owner' = owner
  BY DEF Delete
<1>5. WantOf(s) = "retract" /\ WantOf(s)' = "reply"
  BY WriteWants
<1>6. ActiveVoters' = ActiveVoters /\ (\A w \in ActiveVoters : SessionOf(w)' = SessionOf(w))
  BY DEF ActiveVoters, SessionOf, Voter, Identity
<1>7. ASSUME NEW w \in ActiveVoters \ {v} PROVE Want'[w] = Want[w]
  <2>1. PICK r \in Sessions : w = Voter(Identity(r))
    BY DEF ActiveVoters
  <2>2. r # s /\ SessionOf(w) = r
    BY <1>7, <2>1, SessionFound
  <2>3. WantOf(r)' = WantOf(r)
    BY <2>2, OthersStay DEF Others, WantOf, Step, Handle
  <2> QED
    BY <1>6, <2>2, <2>3 DEF Want
<1>8. Want[v] = "retract" /\ Want'[v] = "reply"
  <2>1. SessionOf(v) = s
    BY SessionFound
  <2> QED
    BY <1>3, <1>5, <1>6, <2>1 DEF Want
<1>9. BallotOf(u)' = "none"
  <2> HIDE DEF u, i
  <2>1. BallotsOf(u)' = {}
    BY <1>3, <1>4, DeletedEmpties
  <2> QED
    BY <1>3, <2>1 DEF BallotOf
<1>10. ASSUME NEW w \in ActiveVoters \ {u} PROVE BallotOf(w)' = BallotOf(w)
  <2> HIDE DEF u, i
  <2>1. rows \in Tables
    BY DEF TypeOK
  <2>2. \A j \in BallotsOf(w) : j # i /\ rows'[j] = rows[j]
    BY <1>3, <1>4, <1>10, <2>1 DEF BallotsOf, Ids, Tables
  <2>3. BallotsOf(w)' = BallotsOf(w)
    BY <1>1, <1>3, <1>4, <1>10, <2>1 DEF BallotsOf, Ids, Live, Voter, Tables
  <2> QED
    BY <2>2, <2>3, SameBallots
<1> HIDE DEF v, u
<1>11. Want' = [Want EXCEPT ![v] = "reply"] /\ Ball' = [Ball EXCEPT ![u] = "none"]
  <2>1. /\ Want = [w \in ActiveVoters |-> Want[w]] /\ Want' = [w \in ActiveVoters |-> Want'[w]]
        /\ Ball = [w \in ActiveVoters |-> Ball[w]] /\ Ball' = [w \in ActiveVoters |-> Ball'[w]]
    BY <1>6 DEF Want, Ball
  <2>2. \A w \in ActiveVoters \ {u} : Ball'[w] = Ball[w]
    BY <1>6, <1>10 DEF Ball
  <2>3. Ball'[u] = "none"
    BY <1>3, <1>6, <1>9 DEF Ball
  <2>4. Want' = [Want EXCEPT ![v] = Want'[v]] /\ Ball' = [Ball EXCEPT ![u] = Ball'[u]]
    BY <1>3, <1>7, <2>1, <2>2, OneMoves
  <2> QED
    BY <1>8, <2>3, <2>4
<1>12. Ballots!Withdraw(v, u)
  BY <1>8, <1>11 DEF Ballots!Withdraw, Ballots!Set, Want, Ball
<1> QED
  BY <1>3, <1>12 DEF Ballots!Next, Ballots!Serve

\* Every other step of a handler, as a step of its voter's.
LEMMA HandlerSteps ==
  ASSUME NobodyShares, BoxInv, RowsTell, RowsTell', NEW s \in Sessions, Step(s),
         ~(Delete(s) /\ Live(target[s]) /\ txn[s] = NoConn)
  PROVE  LET v == Voter(Identity(s))
         IN  BoxStep(v, WantOf(s), WantOf(s)', BallotOf(v), BallotOf(v)')
<1> USE DEF BoxInv
<1>1. CASE Insert(s)
  BY <1>1, InsertSteps
<1>2. CASE (Update(s) /\ Live(target[s])) \/ (Reinsert(s) /\ ~Live(target[s]))
  BY <1>2, StoreSteps
<1>3. CASE Delete(s) /\ Live(target[s]) /\ txn[s] # NoConn
  BY <1>3, DeleteSteps
<1>4. CASE \/ Update(s) /\ ~Live(target[s])
           \/ Reinsert(s) /\ Live(target[s])
           \/ Delete(s) /\ ~Live(target[s])
  <2>1. UNCHANGED <<rows, owner>> /\ ~Insert(s)
    BY <1>4 DEF Update, Reinsert, Delete, Insert
  <2> QED
    BY <2>1, QuietSteps
<1>5. CASE UNCHANGED <<rows, owner>> /\ ~Insert(s)
  BY <1>5, QuietSteps
<1> QED
  BY <1>1, <1>2, <1>3, <1>4, <1>5, TableMoves

LEMMA BoxSimulated ==
  ASSUME NobodyShares, BoxInv, BoxInv', [Next]_vars
  PROVE  [Ballots!Next]_(Ballots!vars)
<1>1. RowsTell
  BY RowsTellBallots DEF BoxInv
<1>2. RowsTell'
  <2>1. AloneInv'
    BY DEF BoxInv
  <2> QED
    BY <2>1, RowsTellBallots, PTL
<1>3. ASSUME NEW s \in Sessions, Step(s), ~(Delete(s) /\ Live(target[s]) /\ txn[s] = NoConn)
      PROVE  [Ballots!Next]_(Ballots!vars)
  <2> DEFINE v == Voter(Identity(s))
  <2>1. v \in ActiveVoters
    BY DEF ActiveVoters
  <2>2. ASSUME NEW u \in ActiveVoters \ {v} PROVE Want'[u] = Want[u] /\ Ball'[u] = Ball[u]
    <3>1. PICK t \in Sessions : u = Voter(Identity(t))
      BY DEF ActiveVoters
    <3>2. t # s /\ SessionOf(u) = t
      BY <3>1, <2>2, SessionFound
    <3>3. BallotOf(u)' = BallotOf(u)
      <4>1. CASE Delete(s) /\ txn[s] = NoConn
        <5>1. UNCHANGED <<rows, owner>>
          BY <1>3, <4>1 DEF Delete
        <5> QED
          BY <1>1, <1>2, <5>1, TableStays
      <4>2. CASE ~(Delete(s) /\ txn[s] = NoConn)
        BY <1>1, <1>2, <1>3, <3>1, <3>2, <4>2, OthersBallots DEF BoxInv
      <4> QED
        BY <4>1, <4>2
    <3>4. WantOf(t)' = WantOf(t)
      BY <1>3, <3>2, OthersStay DEF Others, WantOf, BoxInv
    <3> QED
      BY <3>2, <3>3, <3>4 DEF Want, Ball, ActiveVoters, SessionOf, Identity
  <2>3. Want[v] = WantOf(s) /\ Want'[v] = WantOf(s)' /\ Ball[v] = BallotOf(v) /\ Ball'[v] = BallotOf(v)'
    BY <2>1, SessionFound DEF Want, Ball
  <2>4. BoxStep(v, Want[v], Want'[v], Ball[v], Ball'[v])
    BY <1>1, <1>2, <1>3, <2>3, HandlerSteps
  <2> HIDE DEF v
  <2> QED
    BY <2>1, <2>2, <2>4, BoxMoves
<1>4. ASSUME NEW s \in Sessions, Delete(s), Live(target[s]), txn[s] = NoConn
      PROVE  [Ballots!Next]_(Ballots!vars)
  BY <1>1, <1>2, <1>4, RouteSteps DEF BoxInv
<1>5. ASSUME UNCHANGED <<rows, owner, pc, side, target, txn, raced>>
      PROVE  [Ballots!Next]_(Ballots!vars)
  <2>1. Ball' = Ball
    <3>1. \A v \in ActiveVoters : BallotOf(v)' = BallotOf(v)
      BY <1>1, <1>2, <1>5, TableStays
    <3> QED
      BY <3>1 DEF Ball
  <2>2. Want' = Want
    BY <1>5 DEF Want, WantOf
  <2> QED
    BY <2>1, <2>2 DEF Ballots!vars, Ball, Want
<1> QED
  BY <1>3, <1>4, <1>5, OneSteps DEF BoxInv

LEMMA BoxStarts == Init => Ballots!Init
<1> SUFFICES ASSUME Init PROVE Ballots!Init
  OBVIOUS
<1>1. \A v \in ActiveVoters : BallotOf(v) = "none"
  BY DEF Init, BallotOf, BallotsOf, Ids
<1>2. \A v \in ActiveVoters : SessionOf(v) \in Sessions
  BY DEF ActiveVoters, SessionOf
<1>3. \A v \in ActiveVoters : WantOf(SessionOf(v)) = "nothing"
  BY <1>2 DEF Init, WantOf
<1> QED
  BY <1>1, <1>3 DEF Ballots!Init

\* Where no voter has two handlers in flight and nobody else is behind a guest's
\* address, validationAndSaveVote, canselEachVote and the DELETE route are an
\* atomic toggle of one ballot per voter: every step of any number of handlers,
\* for any pool and any failures, is a click, a toggle, the withdrawal of a
\* ballot (a stranger's, too), an abort or a reply of BallotBox, or changes
\* nothing of it.
THEOREM VotesAsBallotBox ==
  ASSUME NobodyShares
  PROVE  Spec => Ballots!Init /\ [][Ballots!Next]_(Ballots!vars)
<1>1. Spec => []BoxInv
  BY AloneAlways
<1>2. BoxInv /\ BoxInv' /\ [Next]_vars => [Ballots!Next]_(Ballots!vars)
  BY BoxSimulated
<1> QED
  BY <1>1, <1>2, BoxStarts, PTL DEF Spec
=============================================================================
