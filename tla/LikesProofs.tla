---------------------------- MODULE LikesProofs -----------------------------
(***************************************************************************)
(* Theorems about Likes, for every set of sessions and accounts.  The      *)
(* argument: a request whose lookup was fresh and alone still finds, when  *)
(* it writes, what the lookup read (LikesInv), so every row written or     *)
(* removed is followed by exactly one step of the counter.                 *)
(***************************************************************************)
EXTENDS Likes, FiniteSetTheorems, TLAPS

USE SessionAssumption, BoundAssumption

LEMMA TypeInit == Init => TypeOK
<1> SUFFICES ASSUME Init PROVE TypeOK
  OBVIOUS
<1>1. row \in [Users -> 0..serial] /\ row \in [Users -> Nat] /\ wal \in Seq(Version)
  BY DEF Init
<1>2. replica \in Version
  BY <1>1 DEF Init, Version
<1>3. /\ pc \in [Sessions -> Labels] /\ aim \in [Sessions -> Users \cup {Guest}]
      /\ hold \in [Sessions -> Nat]
      /\ \A s \in Sessions : pc[s] # "remove"
  BY DEF Init, Labels
<1>4. count \in Int /\ open \in BOOLEAN /\ serial \in Nat /\ clicks \in 0..MaxClicks
  BY DEF Init
<1>5. excused \subseteq Users /\ failed \in BOOLEAN
  BY DEF Init
<1> QED BY <1>1, <1>2, <1>3, <1>4, <1>5 DEF TypeOK

LEMMA ShipKeepsType ==
  ASSUME TypeOK, Ship,
         row' \in [Users -> Nat], count' \in Int, open' \in BOOLEAN
  PROVE  replica' \in Version /\ wal' \in Seq(Version)
<1>1. [row |-> row', count |-> count', open |-> open'] \in Version
  BY DEF Version
<1> QED BY <1>1 DEF TypeOK, Ship

\* TypeOK without the store, for the steps that only move a session.
LEMMA TypeStep == TypeOK /\ [Next]_vars => TypeOK'
<1> SUFFICES ASSUME TypeOK, [Next]_vars PROVE TypeOK'
  OBVIOUS
<1>1. ASSUME NEW s \in Sessions, Click(s) PROVE TypeOK'
  BY <1>1 DEF TypeOK, Click, Goto, store, notes, Labels
<1>2. ASSUME NEW s \in Sessions, CheckBoard(s) PROVE TypeOK'
  BY <1>2 DEF TypeOK, CheckBoard, Goto, store, notes, Labels
<1>3. ASSUME NEW s \in Sessions, FindLike(s) PROVE TypeOK'
  <2>1. PICK u \in Users : replica.row[u] # 0 /\ Aim(s, u, replica.row[u])
    BY <1>3 DEF FindLike, Candidates
  <2>2. replica.row[u] \in Nat
    BY DEF TypeOK, Version
  <2> QED BY <1>3, <2>1, <2>2 DEF TypeOK, FindLike, Aim, Goto, store, Labels
<1>4. ASSUME NEW s \in Sessions, FindNoLike(s) PROVE TypeOK'
  BY <1>4 DEF TypeOK, FindNoLike, Aim, Goto, store, Labels
<1>5. ASSUME NEW s \in Sessions, Save(s) PROVE TypeOK'
  <2>1. CASE aim[s] \in Users /\ row[aim[s]] = 0
    <3>1. /\ serial' = serial + 1
          /\ row' = [row EXCEPT ![aim[s]] = serial + 1]
          /\ UNCHANGED <<count, open>> /\ Ship
          /\ Goto(s, "increment")
          /\ UNCHANGED <<aim, hold, clicks, notes>>
      BY <1>5, <2>1 DEF Save
    <3>2. row' \in [Users -> 0..serial'] /\ serial' \in Nat
      BY <3>1, <2>1 DEF TypeOK
    <3>3. replica' \in Version /\ wal' \in Seq(Version)
      BY <3>1, <3>2, ShipKeepsType DEF TypeOK
    <3> QED BY <3>1, <3>2, <3>3 DEF TypeOK, Goto, notes, Labels
  <2>2. CASE ~(aim[s] \in Users /\ row[aim[s]] = 0)
    BY <1>5, <2>2 DEF TypeOK, Save, Goto, store, notes, Labels
  <2> QED BY <2>1, <2>2
<1>6. ASSUME NEW s \in Sessions, Remove(s) PROVE TypeOK'
  <2>1. CASE row[aim[s]] = hold[s]
    <3>1. /\ row' = [row EXCEPT ![aim[s]] = 0]
          /\ UNCHANGED <<count, open>> /\ Ship
          /\ Goto(s, "decrement")
          /\ UNCHANGED <<serial, aim, hold, clicks, notes>>
      BY <1>6, <2>1 DEF Remove
    <3>2. row' \in [Users -> 0..serial] /\ row' \in [Users -> Nat]
      <4>1. row \in [Users -> 0..serial] /\ 0 \in 0..serial
        BY DEF TypeOK
      <4>2. row' \in [Users -> 0..serial]
        BY <3>1, <4>1
      <4> QED BY <4>2
    <3>3. replica' \in Version /\ wal' \in Seq(Version)
      BY <3>1, <3>2, ShipKeepsType DEF TypeOK
    <3> QED BY <3>1, <3>2, <3>3 DEF TypeOK, Goto, notes, Labels
  <2>2. CASE row[aim[s]] # hold[s]
    BY <1>6, <2>2 DEF TypeOK, Remove, Goto, store, notes, Labels
  <2> QED BY <2>1, <2>2
<1>7. ASSUME NEW s \in Sessions, Increment(s) \/ Decrement(s) PROVE TypeOK'
  <2>1. /\ count' \in Int /\ UNCHANGED <<row, open>> /\ Ship
        /\ Goto(s, "reply")
        /\ UNCHANGED <<serial, aim, hold, clicks, notes>>
    BY <1>7 DEF TypeOK, Increment, Decrement
  <2>2. replica' \in Version /\ wal' \in Seq(Version)
    BY <2>1, ShipKeepsType DEF TypeOK
  <2> QED BY <2>1, <2>2 DEF TypeOK, Goto, notes, Labels
<1>8. ASSUME NEW s \in Sessions, Reply(s) PROVE TypeOK'
  BY <1>8 DEF TypeOK, Reply, Goto, store, notes, Labels
<1>9. ASSUME NEW s \in Sessions, Fault(s) PROVE TypeOK'
  BY <1>9 DEF TypeOK, Fault, Goto, store, Labels
<1>10. CASE DeleteBoard
  <2>0. row \in [Users -> Nat]
    BY DEF TypeOK
  <2>1. row' \in [Users -> Nat] /\ count' \in Int /\ open' \in BOOLEAN /\ Ship
    BY <1>10, <2>0 DEF TypeOK, DeleteBoard
  <2>2. replica' \in Version /\ wal' \in Seq(Version)
    BY <2>1, ShipKeepsType
  <2> QED BY <1>10, <2>2 DEF TypeOK, DeleteBoard, notes
<1>11. CASE Replicate
  BY <1>11 DEF TypeOK, Replicate, master, notes
<1>12. CASE UNCHANGED vars
  BY <1>12 DEF TypeOK, vars
<1> QED BY <1>1, <1>2, <1>3, <1>4, <1>5, <1>6, <1>7, <1>8, <1>9, <1>10, <1>11,
           <1>12 DEF Next, Handle

\* The variables of the like handlers keep their types.
THEOREM TypeCorrect == Spec => []TypeOK
<1> QED BY TypeInit, TypeStep, PTL DEF Spec

-----------------------------------------------------------------------------
(* Sizes.                                                                  *)

LEMMA AtFinite ==
  ASSUME NEW l PROVE IsFiniteSet(At(l)) /\ Cardinality(At(l)) \in Nat
<1>1. At(l) \subseteq Sessions
  BY DEF At
<1> QED BY <1>1, FS_Subset, FS_CardinalityType

LEMMA LikersFinite == IsFiniteSet(Likers) /\ Cardinality(Likers) \in Nat
<1>1. Likers \subseteq Users
  BY DEF Likers
<1> QED BY <1>1, FS_Subset, FS_CardinalityType

\* What a session that goes from one label to another does to the number of
\* sessions at a label.
LEMMA AtChanges ==
  ASSUME TypeOK, NEW s \in Sessions, NEW a, NEW l, Goto(s, a)
  PROVE  /\ a = l /\ pc[s] # l => Cardinality(At(l)') = Cardinality(At(l)) + 1
         /\ a # l /\ pc[s] = l => Cardinality(At(l)') = Cardinality(At(l)) - 1
         /\ (a = l <=> pc[s] = l) => At(l)' = At(l)
<1>0. /\ pc' = [pc EXCEPT ![s] = a] /\ pc \in [Sessions -> Labels]
      /\ \A t \in Sessions : pc'[t] = IF t = s THEN a ELSE pc[t]
  BY DEF Goto, TypeOK
<1>1. ASSUME a = l, pc[s] # l
      PROVE  Cardinality(At(l)') = Cardinality(At(l)) + 1
  <2>1. At(l)' = At(l) \cup {s} /\ s \notin At(l)
    BY <1>0, <1>1 DEF At
  <2> QED BY <2>1, AtFinite, FS_AddElement
<1>2. ASSUME a # l, pc[s] = l
      PROVE  Cardinality(At(l)') = Cardinality(At(l)) - 1
  <2>1. At(l)' = At(l) \ {s} /\ s \in At(l)
    BY <1>0, <1>2 DEF At
  <2> QED BY <2>1, AtFinite, FS_RemoveElement
<1>3. ASSUME a = l <=> pc[s] = l
      PROVE  At(l)' = At(l)
  BY <1>0, <1>3 DEF At
<1> QED BY <1>1, <1>2, <1>3

LEMMA LikersGrow ==
  ASSUME TypeOK, NEW u \in Users, row[u] = 0, NEW r \in Nat \ {0},
         row' = [row EXCEPT ![u] = r]
  PROVE  Cardinality(Likers') = Cardinality(Likers) + 1
<1>1. Likers' = Likers \cup {u} /\ u \notin Likers
  BY DEF Likers, TypeOK
<1> QED BY <1>1, LikersFinite, FS_AddElement

LEMMA LikersShrink ==
  ASSUME TypeOK, NEW u \in Users, row[u] # 0, row' = [row EXCEPT ![u] = 0]
  PROVE  Cardinality(Likers') = Cardinality(Likers) - 1
<1>1. Likers' = Likers \ {u} /\ u \in Likers
  BY DEF Likers, TypeOK
<1> QED BY <1>1, LikersFinite, FS_RemoveElement

\* Balanced after a step, from what the step did to each of its terms.
LEMMA Rebalance ==
  ASSUME TypeOK, Balanced, TypeOK',
         count' + Cardinality(At("increment")') - Cardinality(Likers')
           - Cardinality(At("decrement")') =
         count + Cardinality(At("increment")) - Cardinality(Likers)
           - Cardinality(At("decrement"))
  PROVE  Balanced'
<1>1. /\ Cardinality(At("increment")) \in Nat
      /\ Cardinality(At("decrement")) \in Nat
      /\ Cardinality(Likers) \in Nat /\ count \in Int
  BY AtFinite, LikersFinite DEF TypeOK
<1>2. /\ Cardinality(At("increment")') \in Nat
      /\ Cardinality(At("decrement")') \in Nat
  <2>1. At("increment")' \subseteq Sessions /\ At("decrement")' \subseteq Sessions
    BY DEF At
  <2> QED BY <2>1, FS_Subset, FS_CardinalityType
<1>3. Cardinality(Likers') \in Nat /\ count' \in Int
  <2>1. Likers' \subseteq Users
    BY DEF Likers
  <2> QED BY <2>1, FS_Subset, FS_CardinalityType DEF TypeOK
<1> HIDE DEF At, Likers
<1> QED BY <1>1, <1>2, <1>3 DEF Balanced

-----------------------------------------------------------------------------
(* LikesInv.                                                               *)

LEMMA InvInit == Init => LikesInv
<1> SUFFICES ASSUME Init PROVE LikesInv
  OBVIOUS
<1>1. At("increment") = {} /\ At("decrement") = {} /\ Likers = {}
  BY DEF Init, At, Likers
<1>2. Balanced
  BY <1>1, FS_EmptySet DEF Balanced, Init
<1>3. WritesCurrent /\ WritersApart
  BY DEF Init, WritesCurrent, WritersApart, Deciding
<1> QED BY <1>2, <1>3 DEF LikesInv

\* A session that is not about to write any more leaves the others' writes
\* current when it wrote only for the user it aimed at.
LEMMA LeaveDeciding ==
  ASSUME TypeOK, LikesInv, NEW s \in Sessions, NEW a \in Labels \ Deciding,
         Goto(s, a), UNCHANGED <<aim, hold>>, excused \subseteq excused',
         \A u \in Users : row'[u] # row[u] => pc[s] \in Deciding /\ aim[s] = u
  PROVE  WritesCurrent' /\ WritersApart'
<1>0. /\ pc \in [Sessions -> Labels]
      /\ \A t \in Sessions : pc'[t] = IF t = s THEN a ELSE pc[t]
  BY DEF Goto, TypeOK
<1>1. WritersApart'
  BY <1>0 DEF LikesInv, WritersApart
<1>2. WritesCurrent'
  <2> SUFFICES ASSUME NEW t \in Sessions, pc'[t] \in Deciding,
                      aim[t] \in Users, aim[t] \notin excused
               PROVE  row'[aim[t]] = hold[t]
    BY DEF WritesCurrent
  <2>1. t # s /\ pc[t] \in Deciding
    BY <1>0
  <2>2. row[aim[t]] = hold[t]
    BY <2>1 DEF LikesInv, WritesCurrent
  <2>3. ~(pc[s] \in Deciding /\ aim[s] = aim[t])
    BY <2>1 DEF LikesInv, WritersApart
  <2> QED BY <2>2, <2>3
<1> QED BY <1>1, <1>2

\* A lookup: the session is about to write what it just read, or its user is
\* excused from now on.
LEMMA EnterDeciding ==
  ASSUME TypeOK, LikesInv, NEW s \in Sessions, NEW a \in Deciding,
         pc[s] = "lookup", Goto(s, a), UNCHANGED row,
         NEW u \in Users \cup {Guest}, NEW r, Aim(s, u, r)
  PROVE  WritesCurrent' /\ WritersApart'
<1>0. /\ pc \in [Sessions -> Labels]
      /\ \A t \in Sessions : pc'[t] = IF t = s THEN a ELSE pc[t]
      /\ \A t \in Sessions : aim'[t] = IF t = s THEN u ELSE aim[t]
      /\ \A t \in Sessions : hold'[t] = IF t = s THEN r ELSE hold[t]
      /\ excused \subseteq excused'
      /\ u \in Users /\ (r # row[u] \/ Rival(s, u)) => u \in excused'
  BY DEF Goto, Aim, TypeOK
<1>1. WritesCurrent'
  BY <1>0 DEF LikesInv, WritesCurrent
<1>2. WritersApart'
  <2> SUFFICES ASSUME NEW p \in Sessions, NEW q \in Sessions, p # q,
                      pc'[p] \in Deciding, pc'[q] \in Deciding,
                      aim'[p] = aim'[q], aim'[p] \in Users
               PROVE  aim'[p] \in excused'
    BY DEF WritersApart
  <2>1. CASE p # s /\ q # s
    BY <2>1, <1>0 DEF LikesInv, WritersApart
  <2>2. CASE p = s
    BY <2>2, <1>0 DEF Rival
  <2>3. CASE q = s
    BY <2>3, <1>0 DEF Rival
  <2> QED BY <2>1, <2>2, <2>3
<1> QED BY <1>1, <1>2

\* A step that moves a session past both counters and touches neither the
\* table nor the counter keeps the balance.
LEMMA StayBalanced ==
  ASSUME TypeOK, TypeOK', LikesInv, NEW s \in Sessions, NEW a,
         Goto(s, a), UNCHANGED <<row, count>>,
         {a, pc[s]} \cap {"increment", "decrement"} = {},
         Exact' => Exact
  PROVE  Exact' => Balanced'
<1> SUFFICES ASSUME Exact PROVE Balanced'
  OBVIOUS
<1>1. At("increment")' = At("increment") /\ At("decrement")' = At("decrement")
  <2>1. a = "increment" <=> pc[s] = "increment"
    OBVIOUS
  <2>2. a = "decrement" <=> pc[s] = "decrement"
    OBVIOUS
  <2> QED BY <2>1, <2>2, AtChanges
<1>2. Likers' = Likers
  BY DEF Likers
<1>3. Balanced
  BY DEF LikesInv
<1> QED BY <1>1, <1>2, <1>3 DEF Balanced

LEMMA InvStep == TypeOK /\ TypeOK' /\ LikesInv /\ [Next]_vars => LikesInv'
<1> SUFFICES ASSUME TypeOK, TypeOK', LikesInv, [Next]_vars PROVE LikesInv'
  OBVIOUS
<1>a. ASSUME WritesCurrent' /\ WritersApart', Exact' => Balanced'
      PROVE  LikesInv'
  BY <1>a DEF LikesInv
<1>1. ASSUME NEW s \in Sessions, Click(s) \/ CheckBoard(s) \/ Reply(s)
      PROVE  LikesInv'
  <2>1. PICK a \in {"board", "lookup", "idle"} : Goto(s, a)
    BY <1>1 DEF Click, CheckBoard, Reply
  <2>2. /\ UNCHANGED <<row, count, aim, hold, excused, failed>>
        /\ pc[s] \in {"idle", "board", "reply"}
    BY <1>1 DEF Click, CheckBoard, Reply, store, notes
  <2>3. WritesCurrent' /\ WritersApart'
    <3>1. a \in Labels \ Deciding
      BY DEF Labels, Deciding
    <3> QED BY <2>1, <2>2, <3>1, LeaveDeciding
  <2>4. Exact' => Balanced'
    BY <2>1, <2>2, StayBalanced DEF Exact
  <2> QED BY <2>3, <2>4, <1>a
<1>2. ASSUME NEW s \in Sessions, FindLike(s) \/ FindNoLike(s)
      PROVE  LikesInv'
  <2>1. PICK a \in {"save", "remove"} : Goto(s, a)
    BY <1>2 DEF FindLike, FindNoLike
  <2>2. PICK u \in Users \cup {Guest} : \E r \in Nat : Aim(s, u, r)
    BY <1>2 DEF FindLike, FindNoLike, Candidates, TypeOK, Version
  <2>3. PICK r \in Nat : Aim(s, u, r)
    BY <2>2
  <2>4. pc[s] = "lookup" /\ UNCHANGED <<row, count>>
    BY <1>2 DEF FindLike, FindNoLike, store
  <2>5. WritesCurrent' /\ WritersApart'
    BY <2>1, <2>3, <2>4, EnterDeciding DEF Deciding
  <2>6. Exact' => Exact
    BY <2>3 DEF Exact, Aim
  <2>7. Exact' => Balanced'
    BY <2>1, <2>4, <2>6, StayBalanced
  <2> QED BY <2>5, <2>7, <1>a
<1>3. ASSUME NEW s \in Sessions, Save(s)
      PROVE  LikesInv'
  <2>0. /\ pc[s] = "save" /\ UNCHANGED <<aim, hold, excused, failed, count>>
        /\ Exact' = Exact
    BY <1>3 DEF Save, notes, store, Exact
  <2>1. CASE aim[s] \in Users /\ row[aim[s]] = 0
    <3>1. /\ row' = [row EXCEPT ![aim[s]] = serial + 1]
          /\ Goto(s, "increment") /\ serial + 1 \in Nat \ {0}
      BY <1>3, <2>1 DEF Save, TypeOK
    <3>2. WritesCurrent' /\ WritersApart'
      BY <2>0, <3>1, LeaveDeciding DEF Labels, Deciding, TypeOK
    <3>3. /\ Cardinality(At("increment")') = Cardinality(At("increment")) + 1
          /\ At("decrement")' = At("decrement")
      BY <2>0, <3>1, AtChanges
    <3>4. Cardinality(Likers') = Cardinality(Likers) + 1
      BY <2>1, <3>1, LikersGrow
    <3>5. Balanced => Balanced'
      <4>1. count \in Int /\ count' = count
        BY <2>0 DEF TypeOK
      <4> QED BY <4>1, <3>3, <3>4, Rebalance, AtFinite, LikersFinite
    <3> QED BY <2>0, <3>2, <3>5, <1>a DEF LikesInv
  <2>2. CASE ~(aim[s] \in Users /\ row[aim[s]] = 0)
    <3>1. Goto(s, "idle") /\ UNCHANGED row
      BY <1>3, <2>2 DEF Save, store
    <3>2. WritesCurrent' /\ WritersApart'
      BY <2>0, <3>1, LeaveDeciding DEF Labels, Deciding
    <3>3. Exact' => Balanced'
      BY <2>0, <3>1, StayBalanced
    <3> QED BY <3>2, <3>3, <1>a
  <2> QED BY <2>1, <2>2
<1>4. ASSUME NEW s \in Sessions, Remove(s)
      PROVE  LikesInv'
  <2>0. /\ pc[s] = "remove" /\ UNCHANGED <<aim, hold, excused, failed, count>>
        /\ Exact' = Exact /\ Goto(s, "decrement")
        /\ aim[s] \in Users /\ hold[s] # 0
    BY <1>4 DEF Remove, notes, store, Exact, TypeOK
  <2>1. /\ Cardinality(At("decrement")') = Cardinality(At("decrement")) + 1
        /\ At("increment")' = At("increment")
    BY <2>0, AtChanges
  <2>2. CASE row[aim[s]] = hold[s]
    <3>1. row' = [row EXCEPT ![aim[s]] = 0]
      BY <1>4, <2>2 DEF Remove
    <3>2. WritesCurrent' /\ WritersApart'
      BY <2>0, <3>1, LeaveDeciding DEF Labels, Deciding, TypeOK
    <3>3. Cardinality(Likers') = Cardinality(Likers) - 1
      BY <2>0, <2>2, <3>1, LikersShrink
    <3>4. Balanced => Balanced'
      <4>1. count \in Int /\ count' = count
        BY <2>0 DEF TypeOK
      <4> QED BY <4>1, <2>1, <3>3, Rebalance, AtFinite, LikersFinite
    <3> QED BY <2>0, <3>2, <3>4, <1>a DEF LikesInv
  <2>3. CASE row[aim[s]] # hold[s]
    <3>1. UNCHANGED row
      BY <1>4, <2>3 DEF Remove, store
    <3>2. WritesCurrent' /\ WritersApart'
      BY <2>0, <3>1, LeaveDeciding DEF Labels, Deciding
    <3>3. ~Exact
      BY <2>0, <2>3 DEF LikesInv, WritesCurrent, Exact, Deciding
    <3> QED BY <2>0, <3>2, <3>3, <1>a
  <2> QED BY <2>2, <2>3
<1>5. ASSUME NEW s \in Sessions, Increment(s) \/ Decrement(s)
      PROVE  LikesInv'
  <2>0. /\ Goto(s, "reply") /\ UNCHANGED <<row, aim, hold, excused, failed>>
        /\ Exact' = Exact /\ Likers' = Likers
    BY <1>5 DEF Increment, Decrement, notes, Exact, Likers
  <2>1. WritesCurrent' /\ WritersApart'
    BY <2>0, LeaveDeciding DEF Labels, Deciding
  <2>2. CASE Increment(s)
    <3>1. /\ Cardinality(At("increment")') = Cardinality(At("increment")) - 1
          /\ At("decrement")' = At("decrement") /\ count' = count + 1
      BY <2>0, <2>2, AtChanges DEF Increment
    <3> QED BY <2>0, <2>1, <3>1, <1>a, AtFinite, LikersFinite
            DEF LikesInv, Balanced, TypeOK
  <2>3. CASE Decrement(s)
    <3>1. /\ Cardinality(At("decrement")') = Cardinality(At("decrement")) - 1
          /\ At("increment")' = At("increment") /\ count' = count - 1
      BY <2>0, <2>3, AtChanges DEF Decrement
    <3> QED BY <2>0, <2>1, <3>1, <1>a, AtFinite, LikersFinite
            DEF LikesInv, Balanced, TypeOK
  <2> QED BY <1>5, <2>2, <2>3
<1>6. ASSUME NEW s \in Sessions, Fault(s)
      PROVE  LikesInv'
  <2>0. /\ Goto(s, "idle") /\ UNCHANGED <<row, count, aim, hold, excused>>
        /\ failed' = (failed \/ pc[s] \in {"increment", "decrement"})
    BY <1>6 DEF Fault, store
  <2>1. WritesCurrent' /\ WritersApart'
    BY <2>0, LeaveDeciding DEF Labels, Deciding
  <2>2. Exact' => Balanced'
    <3> SUFFICES ASSUME Exact' PROVE Balanced'
      OBVIOUS
    <3>1. Exact /\ pc[s] \notin {"increment", "decrement"}
      BY <2>0 DEF Exact
    <3> QED BY <2>0, <3>1, StayBalanced
  <2> QED BY <2>1, <2>2, <1>a
<1>7. CASE DeleteBoard \/ Replicate \/ UNCHANGED vars
  <2>1. UNCHANGED <<row, count, pc, aim, hold, excused, failed>>
    BY <1>7 DEF DeleteBoard, Replicate, vars, master, notes
  <2> QED BY <2>1 DEF LikesInv, WritesCurrent, WritersApart, Exact, Balanced, At, Likers
<1> QED BY <1>1, <1>2, <1>3, <1>4, <1>5, <1>6, <1>7 DEF Next, Handle

\* What like() writes is still what its lookup read, and the counter differs
\* from the table only by the steps still to be made.
THEOREM WritesMatchLookups == Spec => []LikesInv
<1> QED BY TypeInit, TypeStep, InvInit, InvStep, PTL DEF Spec

\* board.like equals the number of like rows whenever no like is in flight and
\* nothing stale, overlapping or rejected came in between.
THEOREM CounterIsExact == Spec => []CounterExact
<1>1. TypeOK /\ LikesInv => CounterExact
  <2> SUFFICES ASSUME TypeOK, LikesInv, Exact, \A s \in Sessions : pc[s] = "idle"
               PROVE  count = Cardinality(Likers)
    BY DEF CounterExact
  <2>1. At("increment") = {} /\ At("decrement") = {}
    BY DEF At
  <2>2. Balanced
    BY DEF LikesInv
  <2>3. Cardinality({}) = 0 /\ count \in Int
    BY FS_EmptySet DEF TypeOK
  <2>4. Cardinality(At("increment")) = 0 /\ Cardinality(At("decrement")) = 0
    BY <2>1, <2>3
  <2>5. Cardinality(Likers) \in Nat
    BY LikersFinite
  <2>6. count + 0 = Cardinality(Likers) + 0
    BY <2>2, <2>4 DEF Balanced
  <2> QED BY <2>3, <2>5, <2>6
<1> QED BY <1>1, TypeCorrect, WritesMatchLookups, PTL

\* Whose row a request is about to write: a row of its own user, or, for a
\* guest, a row it removes.
FindsOwn ==
  \A s \in Sessions : pc[s] \in Deciding =>
    /\ UserOf[s] = Guest \/ UserOf[s] = aim[s]
    /\ pc[s] = "save" => UserOf[s] = aim[s]

\* A like appears or disappears only in a click that may concern it.
THEOREM LikesTouched == Spec => LikesTouchedByTheirUser
<1>1. TypeOK /\ FindsOwn /\ [Next]_vars => FindsOwn'
  <2> SUFFICES ASSUME TypeOK, FindsOwn, [Next]_vars PROVE FindsOwn'
    OBVIOUS
  <2>1. ASSUME NEW s \in Sessions, FindLike(s) PROVE FindsOwn'
    BY <2>1 DEF FindsOwn, FindLike, Candidates, Aim, Goto, TypeOK, Deciding
  <2>2. ASSUME NEW s \in Sessions, FindNoLike(s) PROVE FindsOwn'
    BY <2>2 DEF FindsOwn, FindNoLike, Aim, Goto, TypeOK, Deciding
  <2>3. ASSUME NEW s \in Sessions,
               Click(s) \/ CheckBoard(s) \/ Save(s) \/ Remove(s) \/ Increment(s)
                 \/ Decrement(s) \/ Reply(s) \/ Fault(s)
        PROVE  FindsOwn'
    <3>1. UNCHANGED aim /\ \E a \in Labels \ Deciding : Goto(s, a)
      BY <2>3 DEF Click, CheckBoard, Save, Remove, Increment, Decrement, Reply,
                  Fault, Labels, Deciding
    <3> QED BY <3>1 DEF FindsOwn, Goto, TypeOK
  <2>4. CASE DeleteBoard \/ Replicate \/ UNCHANGED vars
    BY <2>4 DEF FindsOwn, DeleteBoard, Replicate, vars
  <2> QED BY <2>1, <2>2, <2>3, <2>4 DEF Next, Handle
<1>2. Init => FindsOwn
  BY DEF Init, FindsOwn, Deciding
<1>3. TypeOK /\ FindsOwn /\ [Next]_vars =>
        [\A u \in Users : row'[u] # row[u] =>
           \E s \in Sessions :
             /\ pc'[s] # pc[s]
             /\ \/ UserOf[s] = u
                \/ UserOf[s] = Guest /\ row'[u] = 0]_row
  <2> SUFFICES ASSUME TypeOK, FindsOwn, [Next]_vars, row' # row,
                      NEW u \in Users, row'[u] # row[u]
               PROVE  \E s \in Sessions :
                        /\ pc'[s] # pc[s]
                        /\ \/ UserOf[s] = u
                           \/ UserOf[s] = Guest /\ row'[u] = 0
    OBVIOUS
  <2>1. PICK s \in Sessions : Save(s) \/ Remove(s)
    BY DEF Next, Handle, Click, CheckBoard, FindLike, FindNoLike, Increment,
           Decrement, Reply, Fault, DeleteBoard, Replicate, vars, store, master
  <2>2. pc'[s] # pc[s]
    BY <2>1 DEF Save, Remove, Goto, TypeOK
  <2>3. aim[s] = u
    BY <2>1 DEF Save, Remove, store, TypeOK
  <2>4. CASE Save(s)
    <3>1. UserOf[s] = u
      BY <2>3, <2>4 DEF Save, FindsOwn, Deciding
    <3> QED BY <2>2, <3>1
  <2>5. CASE Remove(s)
    <3>1. UserOf[s] \in {u, Guest}
      BY <2>3, <2>5 DEF Remove, FindsOwn, Deciding
    <3>2. row'[u] = 0
      BY <2>3, <2>5 DEF Remove, store, TypeOK
    <3> QED BY <2>2, <3>1, <3>2
  <2> QED BY <2>1, <2>4, <2>5
<1> QED BY <1>1, <1>2, <1>3, TypeInit, TypeStep, PTL DEF Spec, LikesTouchedByTheirUser
=============================================================================
