---------------------------- MODULE SignUpProofs ----------------------------
(***************************************************************************)
(* Theorems about SignUp, for any number of requests, connections, faults  *)
(* and expiries.  The argument (SignUpInv): one transaction changes the    *)
(* address at a time and has read what it deletes as not verified; numbers *)
(* are drawn once, so a code names one account; and until an account is    *)
(* verified or crossed no other code than its own is stored or checked.    *)
(***************************************************************************)
EXTENDS SignUp, FiniteSetTheorems, TLAPS

USE HandlersAssumption, PoolAssumption, BoundAssumption

LEMMA SignUpInit == Init => SignUpInv
<1> SUFFICES ASSUME Init PROVE SignUpInv
  OBVIOUS
<1>1. TypeOK
  BY DEF Init, TypeOK, Rows, NoRow, Accounts, Ops, Labels, Writing, Coding
<1>2. SerialBounded
  <2>1. Numbering = {}
    BY DEF Init, Numbering
  <2> QED BY <2>1, FS_EmptySet DEF Init, SerialBounded
<1>3. NumbersFresh /\ OneChanges /\ ReplacesUnverified /\ SpendersVerified
  BY DEF Init, NumbersFresh, NumberFits, OneChanges, ReplacesUnverified, SpendersVerified,
         Verifying, Coding
<1>4. RowsVerified /\ ThankedIsVerified /\ CodesAreOfRow /\ MarksFound
  BY DEF Init, RowsVerified, NoneVerified, NoRow, ThankedIsVerified,
         CodesAreOfRow, MarksFound
<1> QED BY <1>1, <1>2, <1>3, <1>4 DEF SignUpInv

-----------------------------------------------------------------------------
(* Types.                                                                  *)

\* What a COMMIT does to the row and its copies.
LEMMA CommitTypes ==
  ASSUME TypeOK, NEW r \in Rows, Commits(r)
  PROVE  row' \in Rows /\ replica' \in Rows /\ wal' \in Seq(Rows) /\ serial' = serial
BY DEF TypeOK, Commits

\* A number is left for every request that may still draw one.
LEMMA NumberLeft ==
  ASSUME SignUpInv, NEW h \in Handlers, pc[h] = "insert"
  PROVE  serial + 1 \in Accounts /\ serial + 1 <= requests
<1>1. h \in Numbering /\ IsFiniteSet(Numbering)
  <2>1. Numbering \subseteq Handlers /\ h \in Numbering
    BY DEF Numbering
  <2> QED BY <2>1, FS_Subset
<1>2. Cardinality(Numbering) \in Nat /\ Cardinality(Numbering) # 0
  BY <1>1, FS_CardinalityType, FS_EmptySet
<1>3. serial \in Nat /\ requests \in 0 .. MaxRequests
  BY DEF SignUpInv, TypeOK
<1> QED BY <1>2, <1>3 DEF SignUpInv, SerialBounded, Accounts

LEMMA TypeStep == SignUpInv /\ [Next]_vars => TypeOK'
<1> SUFFICES ASSUME SignUpInv, [Next]_vars PROVE TypeOK'
  OBVIOUS
<1>0. TypeOK /\ NumbersFresh
  BY DEF SignUpInv
<1> USE <1>0 DEF db, redis, pool, txn, bounds, history, Goto, Labels, Writing,
                 Coding
<1>1. ASSUME NEW h \in Handlers, NEW o \in Ops, Request(h, o) PROVE TypeOK'
  <2>1. /\ pc[h] = "idle" /\ requests' = requests + 1 /\ requests < MaxRequests
        /\ op' = [op EXCEPT ![h] = o]
        /\ UNCHANGED <<db, redis, pool, txn, found, faults, expiries, history>>
    BY <1>1 DEF Request
  <2>2. \E l \in {"readCode", "findUser", "connect"}, c \in {0} \cup Accounts :
          /\ pc' = [pc EXCEPT ![h] = l]
          /\ mine' = [mine EXCEPT ![h] = c]
    BY <1>1 DEF Request, TypeOK
  <2>3. /\ pc' \in [Handlers -> Labels] /\ op' \in [Handlers -> Ops]
        /\ mine' \in [Handlers -> {0} \cup Accounts]
    BY <2>1, <2>2 DEF TypeOK
  <2>4. \A t \in Handlers :
          /\ pc'[t] \in {"lookup", "release"} \cup Writing \cup Coding
             <=> pc[t] \in {"lookup", "release"} \cup Writing \cup Coding
          /\ pc'[t] \in Writing <=> pc[t] \in Writing
    BY <2>1, <2>2 DEF TypeOK
  <2>5. serial \in 0 .. requests' /\ requests' \in 0 .. MaxRequests
    BY <2>1 DEF TypeOK
  <2> QED BY <2>1, <2>3, <2>4, <2>5 DEF TypeOK
<1>2. ASSUME NEW h \in Handlers, Connect(h) PROVE TypeOK'
  BY <1>2 DEF Connect, Free, TypeOK
<1>3. ASSUME NEW h \in Handlers, Lookup(h) PROVE TypeOK'
  BY <1>3 DEF Lookup, GiveBackOpen, TypeOK
<1>4. ASSUME NEW h \in Handlers, LookupRejects(h) PROVE TypeOK'
  BY <1>4 DEF LookupRejects, TypeOK
<1>5. ASSUME NEW h \in Handlers, FindUser(h) \/ CheckCode(h) PROVE TypeOK'
  <2>1. CASE FindUser(h)
    BY <2>1 DEF FindUser, TypeOK
  <2>2. CASE CheckCode(h)
    BY <2>2 DEF CheckCode, TypeOK
  <2> QED BY <1>5, <2>1, <2>2
<1>6. ASSUME NEW h \in Handlers, Delete(h) PROVE TypeOK'
  <2>1. del' \in [Handlers -> {0} \cup Accounts] /\ pc[h] = "delete"
    BY <1>6 DEF Delete, TypeOK, Rows
  <2>2. /\ pc' = [pc EXCEPT ![h] = "insert"]
        /\ \A t \in Handlers \ {h} : del'[t] = del[t]
        /\ UNCHANGED <<db, redis, pool, ins, op, found, mine, bounds, history>>
    BY <1>6 DEF Delete, TypeOK
  <2> QED BY <2>1, <2>2 DEF TypeOK
<1>7. ASSUME NEW h \in Handlers, Insert(h) PROVE TypeOK'
  <2>1. pc[h] = "insert"
    BY <1>7 DEF Insert
  <2>2. serial + 1 \in Accounts /\ serial + 1 <= requests
    BY <2>1, NumberLeft
  <2>3. serial' \in 0 .. requests
    BY <1>7, <2>2 DEF Insert, TypeOK
  <2>4. /\ mine' \in [Handlers -> {0} \cup Accounts]
        /\ ins' \in [Handlers -> {0} \cup Accounts]
    BY <1>7, <2>2 DEF Insert, TypeOK
  <2>5. pc' \in [Handlers -> Labels] /\ pc'[h] \in {"commit", "rollback"}
        /\ \A t \in Handlers \ {h} : pc'[t] = pc[t] /\ ins'[t] = ins[t]
    BY <1>7 DEF Insert, TypeOK
  <2>6. UNCHANGED <<row, replica, wal, redis, pool, del, op, found, bounds, history>>
    BY <1>7 DEF Insert
  <2> QED BY <2>1, <2>3, <2>4, <2>5, <2>6 DEF TypeOK
<1>8. ASSUME NEW h \in Handlers, Commit(h) PROVE TypeOK'
  <2>1. ins[h] \in Accounts
    BY <1>8 DEF Commit, NumbersFresh, NumberFits, TypeOK
  <2>2. [id |-> ins[h], ok |-> op[h] = "provider"] \in Rows
    BY <2>1 DEF Rows
  <2>3. row' \in Rows /\ replica' \in Rows /\ wal' \in Seq(Rows) /\ serial' = serial
    BY <1>8, <2>2, CommitTypes DEF Commit
  <2> QED BY <1>8, <2>1, <2>3 DEF Commit, TypeOK
<1>9. ASSUME NEW h \in Handlers, Rollback(h) PROVE TypeOK'
  BY <1>9 DEF Rollback, TypeOK
<1>10. ASSUME NEW h \in Handlers, WriteRejects(h) \/ VerifyRejects(h) PROVE TypeOK'
  <2>1. CASE WriteRejects(h)
    BY <2>1 DEF WriteRejects, TypeOK
  <2>2. CASE VerifyRejects(h)
    BY <2>2 DEF VerifyRejects, TypeOK
  <2> QED BY <1>10, <2>1, <2>2
<1>11. ASSUME NEW h \in Handlers, Release(h) PROVE TypeOK'
  BY <1>11 DEF Release, TypeOK
<1>12. ASSUME NEW h \in Handlers, GetCode(h) \/ DelCode(h) \/ GetRejects(h) PROVE TypeOK'
  BY <1>12 DEF GetCode, DelCode, GetRejects, TypeOK
<1>13. ASSUME NEW h \in Handlers, SetCode(h) \/ CodeRejects(h) PROVE TypeOK'
  <2>1. mine[h] \in Accounts
    BY <1>13 DEF SetCode, CodeRejects, NumbersFresh, NumberFits, TypeOK
  <2>2. CASE SetCode(h)
    BY <2>1, <2>2 DEF SetCode, TypeOK
  <2>3. CASE CodeRejects(h)
    BY <2>1, <2>3 DEF CodeRejects, TypeOK
  <2> QED BY <1>13, <2>2, <2>3
<1>14. ASSUME NEW h \in Handlers, ReadCode(h) PROVE TypeOK'
  <2>1. \A t \in Handlers : pc[t] \in Coding => mine[t] \in Accounts
    BY DEF NumbersFresh, NumberFits, TypeOK
  <2>2. crossed' \subseteq Accounts
    BY <1>14, <2>1 DEF ReadCode, TypeOK
  <2> QED BY <1>14, <2>2 DEF ReadCode, TypeOK
<1>15. ASSUME NEW h \in Handlers, Mark(h) PROVE TypeOK'
  <2>1. mine[h] \in Accounts
    BY <1>15 DEF Mark, NumbersFresh, NumberFits, Verifying, TypeOK
  <2>2. [row EXCEPT !.ok = TRUE] \in Rows /\ found[h].id \in {0} \cup Accounts
    BY DEF TypeOK, Rows
  <2>3. row' \in Rows /\ replica' \in Rows /\ wal' \in Seq(Rows) /\ serial' = serial
    BY <1>15, <2>2, CommitTypes DEF Mark, TypeOK
  <2>4. pend' \in [Conns -> {0} \cup Accounts] /\ misled' \subseteq Accounts
    <3>1. PICK k \in Conns :
            /\ pend' = [pend EXCEPT ![k] =
                          IF row.id = found[h].id /\ k \in unended THEN found[h].id
                          ELSE @]
            /\ misled' \in {misled, misled \cup {mine[h]}}
      BY <1>15 DEF Mark, Free
    <3>2. pend \in [Conns -> {0} \cup Accounts] /\ misled \subseteq Accounts
      BY DEF TypeOK
    <3> QED BY <2>1, <2>2, <3>1, <3>2
  <2>5. /\ pc[h] = "mark" /\ pc' = [pc EXCEPT ![h] = "spend"]
        /\ UNCHANGED <<redis, unended, lost, conn, txn, op, found, mine, bounds,
                       crossed, thanked>>
    BY <1>15 DEF Mark
  <2> QED BY <2>3, <2>4, <2>5 DEF TypeOK
<1>16. ASSUME NEW h \in Handlers, Spend(h) PROVE TypeOK'
  <2>1. mine[h] \in Accounts
    BY <1>16 DEF Spend, NumbersFresh, NumberFits, Verifying, TypeOK
  <2> QED BY <1>16, <2>1 DEF Spend, TypeOK
<1>17. CASE ExpireCode \/ UNCHANGED vars
  <2>1. CASE ExpireCode
    BY <2>1 DEF ExpireCode, TypeOK
  <2>2. CASE UNCHANGED vars
    BY <2>2 DEF vars, TypeOK
  <2> QED BY <1>17, <2>1, <2>2
<1>18. CASE Replicate
  <2>1. replica' \in Rows /\ wal' \in Seq(Rows)
    BY <1>18 DEF Replicate, TypeOK
  <2> QED BY <1>18, <2>1 DEF Replicate, TypeOK
<1> QED
  BY <1>1, <1>2, <1>3, <1>4, <1>5, <1>6, <1>7, <1>8, <1>9, <1>10, <1>11, <1>12,
     <1>13, <1>14, <1>15, <1>16, <1>17, <1>18 DEF Next, Handle

-----------------------------------------------------------------------------
(* Numbers.                                                                *)

LEMMA SerialStep == SignUpInv /\ TypeOK' /\ [Next]_vars => SerialBounded'
<1> SUFFICES ASSUME SignUpInv, TypeOK', [Next]_vars PROVE SerialBounded'
  OBVIOUS
<1> USE DEF db, redis, pool, txn, bounds, history, Goto
<1>0. /\ TypeOK /\ SerialBounded
      /\ serial \in Nat /\ requests \in Nat /\ pc \in [Handlers -> Labels]
  BY DEF SignUpInv, TypeOK
<1>a. /\ Numbering \subseteq Handlers
      /\ IsFiniteSet(Numbering) /\ Cardinality(Numbering) \in Nat
  BY FS_Subset, FS_CardinalityType DEF Numbering
<1>b. ASSUME Numbering' \subseteq Numbering, serial' = serial, requests' = requests
      PROVE  SerialBounded'
  <2>1. Cardinality(Numbering') <= Cardinality(Numbering)
        /\ Cardinality(Numbering') \in Nat
    BY <1>a, <1>b, FS_Subset, FS_CardinalityType
  <2> QED BY <1>0, <1>a, <1>b, <2>1 DEF SerialBounded
<1>1. ASSUME NEW h \in Handlers, NEW o \in Ops, Request(h, o) PROVE SerialBounded'
  <2>1. Numbering' \subseteq Numbering \cup {h}
    BY <1>0, <1>1 DEF Request, Numbering
  <2>2. /\ IsFiniteSet(Numbering \cup {h})
        /\ Cardinality(Numbering \cup {h}) \in {Cardinality(Numbering), Cardinality(Numbering) + 1}
    BY <1>a, FS_AddElement
  <2>3. /\ Cardinality(Numbering') <= Cardinality(Numbering \cup {h})
        /\ Cardinality(Numbering') \in Nat
    BY <2>1, <2>2, FS_Subset, FS_CardinalityType
  <2>4. serial' = serial /\ requests' = requests + 1
    BY <1>1 DEF Request
  <2> QED BY <1>0, <1>a, <2>2, <2>3, <2>4 DEF SerialBounded
<1>2. ASSUME NEW h \in Handlers, Insert(h) PROVE SerialBounded'
  <2>1. Numbering' = Numbering \ {h} /\ h \in Numbering
    BY <1>0, <1>2 DEF Insert, Numbering
  <2>2. Cardinality(Numbering') = Cardinality(Numbering) - 1
    BY <1>a, <2>1, FS_RemoveElement
  <2>3. serial' \in {serial, serial + 1} /\ requests' = requests
    BY <1>2 DEF Insert
  <2> QED BY <1>0, <1>a, <2>2, <2>3 DEF SerialBounded
<1>3. ASSUME NEW h \in Handlers,
             Connect(h) \/ Lookup(h) \/ LookupRejects(h) \/ FindUser(h) \/ Delete(h)
      PROVE  SerialBounded'
  <2>1. Numbering' \subseteq Numbering
    BY <1>0, <1>3 DEF Connect, Lookup, GiveBackOpen, LookupRejects, FindUser, Delete,
                      Numbering
  <2>2. serial' = serial /\ requests' = requests
    BY <1>3 DEF Connect, Lookup, LookupRejects, FindUser, Delete
  <2> QED BY <1>b, <2>1, <2>2
<1>4. ASSUME NEW h \in Handlers,
             \/ Commit(h) \/ Rollback(h) \/ WriteRejects(h) \/ Release(h)
             \/ GetCode(h) \/ DelCode(h) \/ GetRejects(h) \/ SetCode(h) \/ CodeRejects(h)
      PROVE  SerialBounded'
  <2>1. Numbering' \subseteq Numbering
    BY <1>0, <1>4 DEF Commit, Rollback, WriteRejects, Release, GetCode, DelCode, GetRejects,
                      SetCode, CodeRejects, Numbering
  <2>2. serial' = serial /\ requests' = requests
    BY <1>4 DEF Commit, Commits, Rollback, WriteRejects, Release, GetCode, DelCode, GetRejects,
                SetCode, CodeRejects
  <2> QED BY <1>b, <2>1, <2>2
<1>5. ASSUME NEW h \in Handlers,
             ReadCode(h) \/ CheckCode(h) \/ Mark(h) \/ Spend(h) \/ VerifyRejects(h)
      PROVE  SerialBounded'
  <2>1. Numbering' \subseteq Numbering
    BY <1>0, <1>5 DEF ReadCode, CheckCode, Mark, Spend, VerifyRejects, Numbering
  <2>2. serial' = serial /\ requests' = requests
    BY <1>5 DEF ReadCode, CheckCode, Mark, Commits, Spend, VerifyRejects
  <2> QED BY <1>b, <2>1, <2>2
<1>6. CASE ExpireCode \/ Replicate \/ UNCHANGED vars
  BY <1>b, <1>6 DEF ExpireCode, Replicate, vars, Numbering
<1> QED BY <1>1, <1>2, <1>3, <1>4, <1>5, <1>6 DEF Next, Handle

LEMMA NumbersStep == SignUpInv /\ TypeOK' /\ [Next]_vars => NumbersFresh'
<1> SUFFICES ASSUME SignUpInv, TypeOK', [Next]_vars PROVE NumbersFresh'
  OBVIOUS
<1> USE DEF db, redis, pool, txn, bounds, history, Goto, Writing, Coding, Verifying
<1>0. TypeOK /\ NumbersFresh /\ OneChanges
  BY DEF SignUpInv
<1>a. /\ pc \in [Handlers -> Labels] /\ mine \in [Handlers -> {0} \cup Accounts]
      /\ ins \in [Handlers -> {0} \cup Accounts] /\ Accounts \subseteq Nat
      /\ serial \in Nat /\ 0 \notin Accounts
      /\ \A h \in Handlers : ins[h] # 0 => pc[h] \in Writing
  BY <1>0 DEF TypeOK, Accounts
<1>c. /\ \A t \in Handlers : mine[t] \in Nat /\ mine[t] <= serial
      /\ serial + 1 \notin mailed
  <2>1. \A t \in Handlers : mine[t] \in Nat
    <3>1. \A t \in Handlers : mine[t] \in {0} \cup Accounts
      BY <1>a
    <3>2. Accounts \subseteq Nat /\ 0 \in Nat
      BY DEF Accounts
    <3> QED BY ONLY <3>1, <3>2
  <2>2. \A t \in Handlers : mine[t] <= serial
    BY <1>0 DEF NumbersFresh, NumberFits
  <2>3. mailed \subseteq 1 .. serial
    BY <1>0 DEF NumbersFresh
  <2> QED BY <1>a, <2>1, <2>2, <2>3
\* Steps that draw, mail and thank nothing, and start neither a code nor a check.
<1>b. ASSUME UNCHANGED <<serial, mine, ins, mailed, thanked>>,
             \A t \in Handlers :
               /\ pc'[t] \in Verifying => pc[t] \in Verifying
               /\ pc'[t] \in Coding => pc[t] \in Coding
               /\ pc'[t] = "commit" => pc[t] = "commit"
      PROVE  NumbersFresh'
  BY <1>0, <1>b DEF NumbersFresh, NumberFits
<1>1. ASSUME NEW h \in Handlers, NEW o \in Ops, Request(h, o) PROVE NumbersFresh'
  BY <1>0, <1>a, <1>1 DEF Request, NumbersFresh, NumberFits
<1>2. ASSUME NEW h \in Handlers, Insert(h) PROVE NumbersFresh'
  <2>1. CASE serial' = serial
    <3>1. UNCHANGED <<serial, mine, ins, mailed, thanked>>
          /\ pc' = [pc EXCEPT ![h] = "rollback"]
      BY <1>2, <1>a, <2>1 DEF Insert
    <3> QED BY <1>a, <1>b, <3>1
  <2>2. CASE serial' # serial
    <3>1. /\ serial' = serial + 1 /\ ins' = [ins EXCEPT ![h] = serial + 1]
          /\ mine' = [mine EXCEPT ![h] = serial + 1]
          /\ pc' = [pc EXCEPT ![h] = "commit"] /\ pc[h] = "insert"
          /\ UNCHANGED <<mailed, thanked>>
      BY <1>2, <2>2 DEF Insert
    <3>2. mailed' \subseteq 1 .. serial' /\ thanked' \subseteq mailed'
      BY <1>0, <1>a, <3>1 DEF NumbersFresh
    <3>3. ASSUME NEW t \in Handlers PROVE NumberFits(t)'
      <4>1. CASE t = h
        <5>1. /\ mine'[t] = serial + 1 /\ ins'[t] = serial + 1 /\ pc'[t] = "commit"
              /\ \A u \in Handlers \ {t} : mine'[u] = mine[u]
          BY <1>a, <3>1, <4>1
        <5>2. \A u \in Handlers \ {t} : mine'[u] # serial + 1
          BY <1>a, <1>c, <5>1
        <5>3. serial' = serial + 1 /\ mailed' = mailed
          BY <3>1
        <5>4. mine'[t] <= serial' /\ ins'[t] \notin mailed'
          BY <1>a, <1>c, <5>1, <5>3
        <5>5. pc'[t] \notin Verifying /\ pc'[t] \notin Coding /\ ins'[t] # 0
          BY <1>a, <5>1
        <5>6. ins'[t] = mine'[t] /\ \A u \in Handlers \ {t} : mine'[u] # ins'[t]
          BY <5>1, <5>2
        <5> QED BY ONLY <5>4, <5>5, <5>6 DEF NumberFits
      <4>2. CASE t # h
        <5>1. ins[t] = 0
          BY <1>2, <4>2 DEF Insert, Contended
        <5>2. mine'[t] = mine[t] /\ ins'[t] = 0 /\ pc'[t] = pc[t] /\ mailed' = mailed
          BY <1>a, <3>1, <4>2, <5>1
        <5>3. mine'[t] <= serial'
          BY <1>a, <1>c, <3>1, <5>2
        <5> QED BY <1>0, <5>1, <5>2, <5>3 DEF NumbersFresh, NumberFits
      <4> QED BY <4>1, <4>2
    <3> QED BY <3>2, <3>3 DEF NumbersFresh
  <2> QED BY <2>1, <2>2
<1>3. ASSUME NEW h \in Handlers,
             Connect(h) \/ Lookup(h) \/ LookupRejects(h) \/ FindUser(h) \/ Delete(h)
      PROVE  NumbersFresh'
  <2>1. /\ UNCHANGED <<serial, mine, ins, mailed, thanked>>
        /\ \E l \in {"idle", "connect", "lookup", "delete", "insert"} :
             pc' = [pc EXCEPT ![h] = l]
    BY <1>3 DEF Connect, Lookup, GiveBackOpen, LookupRejects, FindUser, Delete
  <2> QED BY <1>a, <1>b, <2>1
<1>4. ASSUME NEW h \in Handlers, Commit(h) PROVE NumbersFresh'
  BY <1>0, <1>a, <1>4 DEF Commit, Commits, NumbersFresh, NumberFits, OneChanges
<1>5. ASSUME NEW h \in Handlers, Rollback(h) PROVE NumbersFresh'
  BY <1>0, <1>a, <1>5 DEF Rollback, NumbersFresh, NumberFits
<1>6. ASSUME NEW h \in Handlers,
             WriteRejects(h) \/ Release(h) \/ CodeRejects(h) \/ VerifyRejects(h)
      PROVE  NumbersFresh'
  <2>1. /\ UNCHANGED <<serial, mine, ins, mailed, thanked>>
        /\ \E l \in {"idle", "rollback", "release"} : pc' = [pc EXCEPT ![h] = l]
    BY <1>6 DEF WriteRejects, Release, CodeRejects, VerifyRejects
  <2> QED BY <1>a, <1>b, <2>1
<1>7. ASSUME NEW h \in Handlers, GetCode(h) \/ DelCode(h) \/ GetRejects(h) PROVE NumbersFresh'
  <2>1. /\ UNCHANGED <<serial, mine, ins, mailed, thanked>> /\ pc[h] \in Coding
        /\ \E l \in {"delCode", "setCode"} : pc' = [pc EXCEPT ![h] = l]
    BY <1>7 DEF GetCode, DelCode, GetRejects
  <2> QED BY <1>a, <1>b, <2>1
<1>8. ASSUME NEW h \in Handlers, SetCode(h) PROVE NumbersFresh'
  <2>1. /\ pc[h] = "setCode" /\ mailed' = mailed \cup {mine[h]}
        /\ UNCHANGED <<serial, mine, ins, thanked>> /\ pc' = [pc EXCEPT ![h] = "release"]
    BY <1>8 DEF SetCode
  <2>2. mine[h] \in 1 .. serial
    <3>1. mine[h] # 0
      BY <1>0, <2>1 DEF NumbersFresh, NumberFits
    <3> QED BY <1>a, <1>c, <3>1
  <2>3. mailed' \subseteq 1 .. serial' /\ thanked' \subseteq mailed'
    BY <1>0, <2>1, <2>2 DEF NumbersFresh
  <2>4. ASSUME NEW t \in Handlers PROVE NumberFits(t)'
    BY <1>0, <1>a, <2>1 DEF NumbersFresh, NumberFits
  <2> QED BY <2>3, <2>4 DEF NumbersFresh
<1>9. ASSUME NEW h \in Handlers, ReadCode(h) \/ CheckCode(h) \/ Mark(h)
      PROVE  NumbersFresh'
  <2>1. /\ UNCHANGED <<serial, mine, ins, mailed, thanked>> /\ pc[h] \in Verifying
        /\ \E l \in {"idle", "checkCode", "mark", "spend"} : pc' = [pc EXCEPT ![h] = l]
    BY <1>9 DEF ReadCode, CheckCode, Mark, Commits
  <2> QED BY <1>a, <1>b, <2>1
<1>10. ASSUME NEW h \in Handlers, Spend(h) PROVE NumbersFresh'
  BY <1>0, <1>a, <1>10 DEF Spend, NumbersFresh, NumberFits
<1>11. CASE ExpireCode \/ Replicate \/ UNCHANGED vars
  BY <1>b, <1>11 DEF ExpireCode, Replicate, vars
<1> QED
  BY <1>1, <1>2, <1>3, <1>4, <1>5, <1>6, <1>7, <1>8, <1>9, <1>10, <1>11
     DEF Next, Handle

-----------------------------------------------------------------------------
(* Rows, and who may replace them.                                         *)

LEMMA RowsStep == SignUpInv /\ TypeOK' /\ [Next]_vars => RowsVerified'
<1> SUFFICES ASSUME SignUpInv, TypeOK', [Next]_vars PROVE RowsVerified'
  OBVIOUS
<1>0. TypeOK /\ NumbersFresh /\ RowsVerified /\ MarksFound
  BY DEF SignUpInv
<1>a. row \in Rows /\ replica \in Rows /\ wal \in Seq(Rows)
  BY <1>0 DEF TypeOK
<1>b. ASSUME NEW r \in Rows, Commits(r), NoneVerified(r) PROVE RowsVerified'
  <2>1. CASE r = row
    BY <1>0, <1>b, <2>1 DEF Commits, RowsVerified, NoneVerified
  <2>2. CASE r # row
    <3>1. wal' = Append(wal, r) /\ row' = r /\ replica' = replica
      BY <1>b, <2>2 DEF Commits
    <3>2. \A i \in 1 .. Len(wal') : NoneVerified(wal'[i])
      BY <1>0, <1>a, <1>b, <3>1 DEF RowsVerified
    <3> QED BY <1>0, <1>b, <3>1, <3>2 DEF RowsVerified, NoneVerified
  <2> QED BY <2>1, <2>2
<1>1. ASSUME NEW h \in Handlers, Commit(h) PROVE RowsVerified'
  <2>1. ins[h] \in Accounts /\ ins[h] # 0
    BY <1>0, <1>1 DEF Commit, NumbersFresh, NumberFits, TypeOK
  <2>2. [id |-> ins[h], ok |-> op[h] = "provider"] \in Rows
        /\ NoneVerified([id |-> ins[h], ok |-> op[h] = "provider"])
    BY <2>1 DEF Rows, NoneVerified
  <2> QED BY <1>1, <1>b, <2>2 DEF Commit
<1>2. ASSUME NEW h \in Handlers, Mark(h) PROVE RowsVerified'
  <2>1. CASE UNCHANGED db
    BY <1>0, <2>1 DEF db, RowsVerified, NoneVerified
  <2>2. CASE ~UNCHANGED db
    <3>1. row.id = found[h].id /\ Commits([row EXCEPT !.ok = TRUE]) /\ found[h].id # 0
      BY <1>0, <1>2, <2>2 DEF Mark, MarksFound
    <3>2. [row EXCEPT !.ok = TRUE] \in Rows /\ NoneVerified([row EXCEPT !.ok = TRUE])
      BY <1>a, <3>1 DEF Rows, NoneVerified
    <3> QED BY <1>b, <3>1, <3>2
  <2> QED BY <2>1, <2>2
<1>3. ASSUME NEW h \in Handlers, Insert(h) PROVE RowsVerified'
  BY <1>0, <1>3 DEF Insert, db, RowsVerified, NoneVerified
<1>4. CASE Replicate
  <2>1. wal # <<>> /\ replica' = Head(wal) /\ wal' = Tail(wal) /\ row' = row
    BY <1>4 DEF Replicate
  <2>2. replica' = wal[1] /\ 1 \in 1 .. Len(wal)
        /\ \A i \in 1 .. Len(wal') : wal'[i] = wal[i + 1] /\ i + 1 \in 1 .. Len(wal)
    BY <1>a, <2>1
  <2> QED BY <1>0, <2>1, <2>2 DEF RowsVerified, NoneVerified
<1>5. CASE db' = db
  BY <1>0, <1>5 DEF db, RowsVerified, NoneVerified
<1>6. \/ db' = db \/ Replicate
      \/ \E h \in Handlers : Commit(h) \/ Mark(h) \/ Insert(h)
  BY DEF Next, Handle, Request, Connect, Lookup, LookupRejects, FindUser, Delete,
         Rollback, WriteRejects, Release, GetCode, DelCode, GetRejects, SetCode, CodeRejects,
         ReadCode, CheckCode, Spend, VerifyRejects, ExpireCode, vars
<1> QED BY <1>1, <1>2, <1>3, <1>4, <1>5, <1>6

LEMMA ChangesStep == SignUpInv /\ TypeOK' /\ [Next]_vars => OneChanges'
<1> SUFFICES ASSUME SignUpInv, TypeOK', [Next]_vars PROVE OneChanges'
  OBVIOUS
<1>0. TypeOK /\ OneChanges /\ ReplacesUnverified
  BY DEF SignUpInv
<1>a. /\ del \in [Handlers -> {0} \cup Accounts]
      /\ ins \in [Handlers -> {0} \cup Accounts]
  BY <1>0 DEF TypeOK
<1>1. ASSUME NEW h \in Handlers, Delete(h) PROVE OneChanges'
  BY <1>0, <1>a, <1>1 DEF Delete, Locked, OneChanges, ReplacesUnverified
<1>2. ASSUME NEW h \in Handlers, Insert(h) PROVE OneChanges'
  BY <1>0, <1>a, <1>2 DEF Insert, Contended, OneChanges
<1>3. ASSUME NEW h \in Handlers, Commit(h) \/ Rollback(h) PROVE OneChanges'
  BY <1>0, <1>a, <1>3 DEF Commit, Rollback, OneChanges
<1>4. CASE txn' = txn
  BY <1>0, <1>4 DEF txn, OneChanges
<1>5. \/ txn' = txn
      \/ \E h \in Handlers : Delete(h) \/ Insert(h) \/ Commit(h) \/ Rollback(h)
  BY DEF Next, Handle, Request, Connect, Lookup, LookupRejects, FindUser,
         WriteRejects, Release, GetCode, DelCode, GetRejects, SetCode, CodeRejects,
         ReadCode, CheckCode, Mark, Spend, VerifyRejects, ExpireCode, Replicate, vars
<1> QED BY <1>1, <1>2, <1>3, <1>4, <1>5

LEMMA ReplacesStep == SignUpInv /\ TypeOK' /\ [Next]_vars => ReplacesUnverified'
<1> SUFFICES ASSUME SignUpInv, TypeOK', [Next]_vars PROVE ReplacesUnverified'
  OBVIOUS
<1> USE DEF db, redis, pool, txn, bounds, history, Goto, Writing
<1>0. TypeOK /\ OneChanges /\ ReplacesUnverified /\ RowsVerified /\ NumbersFresh
  BY DEF SignUpInv
<1>a. /\ del \in [Handlers -> {0} \cup Accounts] /\ pc \in [Handlers -> Labels]
      /\ ins \in [Handlers -> {0} \cup Accounts] /\ found \in [Handlers -> Rows]
      /\ op \in [Handlers -> Ops] /\ row \in Rows
      /\ \A h \in Handlers : del[h] # 0 \/ ins[h] # 0 => pc[h] \in Writing
  BY <1>0 DEF TypeOK
<1>b. ASSUME UNCHANGED <<row, del, ins, found, op>>,
             \A t \in Handlers :
               /\ pc'[t] \in {"delete", "insert", "commit"} => pc[t] = pc'[t]
               /\ pc'[t] = "connect" => pc[t] = "connect"
      PROVE  ReplacesUnverified'
  BY <1>0, <1>b DEF ReplacesUnverified
<1>1. ASSUME NEW h \in Handlers, NEW o \in Ops, Request(h, o)
      PROVE  ReplacesUnverified'
  BY <1>0, <1>a, <1>1 DEF Request, ReplacesUnverified
<1>2. ASSUME NEW h \in Handlers, Connect(h) PROVE ReplacesUnverified'
  BY <1>0, <1>a, <1>2 DEF Connect, ReplacesUnverified
<1>3. ASSUME NEW h \in Handlers, Lookup(h) PROVE ReplacesUnverified'
  BY <1>0, <1>a, <1>3 DEF Lookup, GiveBackOpen, ReplacesUnverified
<1>4. ASSUME NEW h \in Handlers, FindUser(h) \/ CheckCode(h) PROVE ReplacesUnverified'
  BY <1>0, <1>a, <1>4 DEF FindUser, CheckCode, ReplacesUnverified, RowsVerified,
                          NoneVerified
<1>5. ASSUME NEW h \in Handlers, Delete(h) PROVE ReplacesUnverified'
  BY <1>0, <1>a, <1>5 DEF Delete, ReplacesUnverified
<1>6. ASSUME NEW h \in Handlers, Insert(h) PROVE ReplacesUnverified'
  BY <1>0, <1>a, <1>6 DEF Insert, ReplacesUnverified
<1>7. ASSUME NEW h \in Handlers, Commit(h) PROVE ReplacesUnverified'
  BY <1>0, <1>a, <1>7 DEF Commit, Commits, ReplacesUnverified, OneChanges,
                          NumbersFresh, NumberFits
<1>8. ASSUME NEW h \in Handlers, Rollback(h) PROVE ReplacesUnverified'
  BY <1>0, <1>a, <1>8 DEF Rollback, ReplacesUnverified
<1>9. ASSUME NEW h \in Handlers, Mark(h) PROVE ReplacesUnverified'
  <2>1. /\ row'.id = row.id /\ UNCHANGED <<del, ins, found, op>>
        /\ pc' = [pc EXCEPT ![h] = "spend"]
    BY <1>9, <1>a DEF Mark, Commits, Rows
  <2> QED BY <1>0, <1>a, <2>1 DEF ReplacesUnverified
<1>10. ASSUME NEW h \in Handlers,
              \/ LookupRejects(h) \/ WriteRejects(h) \/ Release(h) \/ CodeRejects(h)
              \/ GetCode(h) \/ DelCode(h) \/ GetRejects(h) \/ SetCode(h)
              \/ ReadCode(h) \/ Spend(h) \/ VerifyRejects(h)
       PROVE  ReplacesUnverified'
  <2>1. /\ UNCHANGED <<row, del, ins, found, op>>
        /\ \E l \in {"idle", "rollback", "delCode", "setCode", "release", "checkCode"} :
             pc' = [pc EXCEPT ![h] = l]
    BY <1>10 DEF LookupRejects, WriteRejects, Release, CodeRejects, GetCode, DelCode, GetRejects,
                 SetCode, ReadCode, Spend, VerifyRejects
  <2> QED BY <1>a, <1>b, <2>1
<1>11. CASE ExpireCode \/ Replicate \/ UNCHANGED vars
  BY <1>b, <1>11 DEF ExpireCode, Replicate, vars
<1> QED
  BY <1>1, <1>2, <1>3, <1>4, <1>5, <1>6, <1>7, <1>8, <1>9, <1>10, <1>11
     DEF Next, Handle

-----------------------------------------------------------------------------
(* Codes, and who is thanked.                                              *)

\* A COMMIT of a sign-up replaces the row by an account that nobody was mailed
\* a code of; an UPDATE verifies the row; nothing else writes it.
LEMMA RowChanges ==
  ASSUME SignUpInv, [Next]_vars, row' # row
  PROVE  \E h \in Handlers :
           \/ /\ Commit(h) /\ row' = [id |-> ins[h], ok |-> op[h] = "provider"]
              /\ ins[h] # 0 /\ ins[h] \notin mailed
           \/ Mark(h) /\ row' = [row EXCEPT !.ok = TRUE] /\ found[h].id = row.id
<1>1. \E h \in Handlers : Commit(h) \/ Mark(h)
  BY DEF Next, Handle, Request, Connect, Lookup, LookupRejects, FindUser, Delete,
         Insert, Rollback, WriteRejects, Release, GetCode, DelCode, GetRejects, SetCode,
         CodeRejects, ReadCode, CheckCode, Spend, VerifyRejects, ExpireCode,
         Replicate, vars, db
<1>2. PICK h \in Handlers : Commit(h) \/ Mark(h)
  BY <1>1
<1>3. CASE Commit(h)
  BY <1>3 DEF Commit, Commits, SignUpInv, NumbersFresh, NumberFits
<1>4. CASE Mark(h)
  BY <1>4 DEF Mark, Commits, db
<1> QED BY <1>2, <1>3, <1>4

\* What has been noted of an account stays; only the end of a verification
\* notes that it was thanked.
LEMMA HistoryGrows ==
  ASSUME [Next]_vars
  PROVE  /\ misled \subseteq misled'
         /\ \/ thanked' = thanked
            \/ \E h \in Handlers : Spend(h) /\ thanked' = thanked \cup {mine[h]}
<1>1. ASSUME NEW h \in Handlers, \E o \in Ops : Request(h, o)
      PROVE  UNCHANGED history
  BY <1>1 DEF Request
<1>2. ASSUME NEW h \in Handlers,
             \/ Connect(h) \/ Lookup(h) \/ LookupRejects(h) \/ FindUser(h) \/ Delete(h)
             \/ Insert(h) \/ Commit(h) \/ Rollback(h) \/ WriteRejects(h) \/ Release(h)
      PROVE  UNCHANGED <<misled, thanked>>
  BY <1>2 DEF Connect, Lookup, LookupRejects, FindUser, Delete, Insert, Commit,
              Rollback, WriteRejects, Release, history
<1>3. ASSUME NEW h \in Handlers,
             \/ GetCode(h) \/ DelCode(h) \/ GetRejects(h) \/ SetCode(h) \/ CodeRejects(h)
             \/ ReadCode(h) \/ CheckCode(h) \/ VerifyRejects(h)
      PROVE  UNCHANGED <<misled, thanked>>
  BY <1>3 DEF GetCode, DelCode, GetRejects, SetCode, CodeRejects, ReadCode,
              CheckCode, VerifyRejects, history
<1>4. ASSUME NEW h \in Handlers, Mark(h)
      PROVE  misled \subseteq misled' /\ thanked' = thanked
  BY <1>4 DEF Mark
<1>5. ASSUME NEW h \in Handlers, Spend(h)
      PROVE  misled' = misled /\ thanked' = thanked \cup {mine[h]}
  BY <1>5 DEF Spend
<1>6. CASE ExpireCode \/ Replicate \/ UNCHANGED vars
  BY <1>6 DEF ExpireCode, Replicate, vars, history
<1> QED
  BY <1>1, <1>2, <1>3, <1>4, <1>5, <1>6 DEF Next, Handle, history

LEMMA ThankedStep == SignUpInv /\ NumbersFresh' /\ [Next]_vars => ThankedIsVerified'
<1> SUFFICES ASSUME SignUpInv, NumbersFresh', [Next]_vars,
                    row'.id \in thanked' \ misled'
             PROVE  row'.ok
  BY DEF ThankedIsVerified
<1>0. /\ TypeOK /\ NumbersFresh /\ ThankedIsVerified /\ SpendersVerified
      /\ row \in Rows
  BY DEF SignUpInv, TypeOK
<1>1. misled \subseteq misled'
  BY HistoryGrows
<1>2. CASE row' = row
  <2>1. CASE row.id \in thanked
    BY <1>0, <1>1, <1>2, <2>1 DEF ThankedIsVerified
  <2>2. CASE row.id \notin thanked
    <3>1. PICK h \in Handlers : Spend(h) /\ thanked' = thanked \cup {mine[h]}
      BY <1>2, <2>2, HistoryGrows
    <3>2. row.id = mine[h] /\ pc[h] = "spend" /\ mine[h] \notin misled
      BY <1>1, <1>2, <2>2, <3>1 DEF Spend
    <3> QED BY <1>0, <1>2, <3>2 DEF SpendersVerified
  <2> QED BY <2>1, <2>2
<1>3. CASE row' # row
  <2>1. PICK h \in Handlers :
           \/ /\ Commit(h) /\ row' = [id |-> ins[h], ok |-> op[h] = "provider"]
              /\ ins[h] # 0 /\ ins[h] \notin mailed
           \/ Mark(h) /\ row' = [row EXCEPT !.ok = TRUE] /\ found[h].id = row.id
    BY <1>3, RowChanges
  <2>2. CASE Commit(h)
    <3>1. row'.id \notin mailed /\ thanked' = thanked /\ thanked \subseteq mailed
      BY <1>0, <2>1, <2>2 DEF Commit, Mark, NumbersFresh
    <3> QED BY <3>1
  <2>3. CASE Mark(h) /\ row' = [row EXCEPT !.ok = TRUE]
    BY <1>0, <2>3 DEF Rows
  <2> QED BY <2>1, <2>2, <2>3
<1> QED BY <1>2, <1>3

LEMMA SpendersStep == SignUpInv /\ [Next]_vars => SpendersVerified'
<1> SUFFICES ASSUME SignUpInv, [Next]_vars, NEW t \in Handlers,
                    pc'[t] = "spend", mine'[t] \notin misled', row'.id = mine'[t]
             PROVE  row'.ok
  BY DEF SpendersVerified
<1>0. /\ TypeOK /\ NumbersFresh /\ SpendersVerified
      /\ row \in Rows /\ pc \in [Handlers -> Labels]
  BY DEF SignUpInv, TypeOK
<1>a. mine \in [Handlers -> {0} \cup Accounts]
  BY <1>0 DEF TypeOK
<1>1. CASE \E h \in Handlers : Mark(h)
  <2>1. PICK h \in Handlers : Mark(h)
    BY <1>1
  <2>2. /\ mine' = mine /\ misled \subseteq misled' /\ pc' = [pc EXCEPT ![h] = "spend"]
        /\ row'.id = row.id /\ (row.ok => row'.ok)
    BY <1>0, <2>1 DEF Mark, Goto, Commits, db, Rows
  <2>3. CASE t # h
    BY <1>0, <2>2, <2>3 DEF SpendersVerified
  <2>4. CASE t = h
    <3>1. PICK k \in Free :
            /\ IF row.id = found[h].id /\ k \notin unended
               THEN Commits([row EXCEPT !.ok = TRUE]) ELSE UNCHANGED db
            /\ misled' = IF found[h].id # mine[h] \/ k \in unended
                         THEN misled \cup {mine[h]} ELSE misled
      BY <2>1 DEF Mark
    <3>2. found[h].id = mine[h] /\ k \notin unended
      BY <2>2, <2>4, <3>1
    <3>3. row' = [row EXCEPT !.ok = TRUE]
      BY <2>2, <2>4, <3>1, <3>2 DEF Commits
    <3> QED BY <1>0, <3>3 DEF Rows
  <2> QED BY <2>3, <2>4
<1>2. CASE ~\E h \in Handlers : Mark(h)
  <2>1. pc[t] = "spend" /\ mine'[t] = mine[t] /\ misled' = misled
    <3> USE DEF db, redis, pool, txn, bounds, history, Goto
    <3>1. \A h \in Handlers, o \in Ops : Request(h, o) =>
            pc[t] = "spend" /\ mine'[t] = mine[t] /\ misled' = misled
      <4>1. SUFFICES ASSUME NEW h \in Handlers, NEW o \in Ops, Request(h, o)
                     PROVE  pc[t] = "spend" /\ mine'[t] = mine[t] /\ misled' = misled
        OBVIOUS
      <4>2. /\ \E l \in {"readCode", "findUser", "connect"} : pc' = [pc EXCEPT ![h] = l]
            /\ \E c : mine' = [mine EXCEPT ![h] = c]
            /\ misled' = misled
        BY <4>1 DEF Request
      <4> QED BY <1>0, <1>a, <4>2
    <3>2. \A h \in Handlers : Insert(h) =>
            pc[t] = "spend" /\ mine'[t] = mine[t] /\ misled' = misled
      <4>1. SUFFICES ASSUME NEW h \in Handlers, Insert(h)
                     PROVE  pc[t] = "spend" /\ mine'[t] = mine[t] /\ misled' = misled
        OBVIOUS
      <4>2. /\ \E l \in {"commit", "rollback"} : pc' = [pc EXCEPT ![h] = l]
            /\ mine' = mine \/ \E c : mine' = [mine EXCEPT ![h] = c]
            /\ misled' = misled
        BY <4>1 DEF Insert
      <4> QED BY <1>0, <1>a, <4>2
    <3>3. \A h \in Handlers :
            \/ Connect(h) \/ Lookup(h) \/ LookupRejects(h) \/ FindUser(h) \/ Delete(h)
            \/ Commit(h) \/ Rollback(h) \/ WriteRejects(h) \/ Release(h)
            => pc[t] = "spend" /\ mine'[t] = mine[t] /\ misled' = misled
      BY <1>0 DEF Connect, Lookup, GiveBackOpen, LookupRejects, FindUser, Delete,
                  Commit, Rollback, WriteRejects, Release
    <3>4. \A h \in Handlers :
            \/ GetCode(h) \/ DelCode(h) \/ GetRejects(h) \/ SetCode(h) \/ CodeRejects(h) \/ ReadCode(h)
            \/ CheckCode(h) \/ Spend(h) \/ VerifyRejects(h)
            => pc[t] = "spend" /\ mine'[t] = mine[t] /\ misled' = misled
      BY <1>0 DEF GetCode, DelCode, GetRejects, SetCode, CodeRejects, ReadCode, CheckCode, Spend,
                  VerifyRejects
    <3>5. ExpireCode \/ Replicate \/ UNCHANGED vars =>
            pc[t] = "spend" /\ mine'[t] = mine[t] /\ misled' = misled
      BY DEF ExpireCode, Replicate, vars
    <3> QED BY <1>2, <3>1, <3>2, <3>3, <3>4, <3>5 DEF Next, Handle
  <2>2. CASE row' = row
    BY <1>0, <2>1, <2>2 DEF SpendersVerified
  <2>3. CASE row' # row
    <3>1. \E h \in Handlers :
            row' = [id |-> ins[h], ok |-> op[h] = "provider"] /\ ins[h] \notin mailed
      BY <1>2, <2>3, RowChanges
    <3>2. mine[t] \in mailed
      BY <1>0, <2>1 DEF NumbersFresh, NumberFits, Verifying
    <3> QED BY <2>1, <3>1, <3>2
  <2> QED BY <2>2, <2>3
<1> QED BY <1>1, <1>2

LEMMA MarksStep == SignUpInv /\ [Next]_vars => MarksFound'
<1> SUFFICES ASSUME SignUpInv, [Next]_vars, NEW t \in Handlers, pc'[t] = "mark"
             PROVE  found'[t].id # 0
  BY DEF MarksFound
<1> USE DEF db, redis, pool, txn, bounds, history, Goto
<1>0. /\ MarksFound /\ pc \in [Handlers -> Labels] /\ found \in [Handlers -> Rows]
  BY DEF SignUpInv, TypeOK
<1>a. ASSUME found' = found, NEW h \in Handlers, NEW l, l # "mark",
             pc' = [pc EXCEPT ![h] = l]
      PROVE  found'[t].id # 0
  BY <1>0, <1>a DEF MarksFound
<1>1. ASSUME NEW h \in Handlers, Lookup(h) \/ FindUser(h) \/ CheckCode(h)
      PROVE  found'[t].id # 0
  BY <1>0, <1>1 DEF Lookup, GiveBackOpen, FindUser, CheckCode, MarksFound
<1>2. ASSUME NEW h \in Handlers, NEW o \in Ops, Request(h, o) PROVE found'[t].id # 0
  <2>1. found' = found /\ \E l \in Labels : l # "mark" /\ pc' = [pc EXCEPT ![h] = l]
    BY <1>2 DEF Request, Labels
  <2> QED BY <1>a, <2>1
<1>3. ASSUME NEW h \in Handlers,
             \/ Connect(h) \/ LookupRejects(h) \/ Delete(h) \/ Insert(h) \/ Commit(h)
             \/ Rollback(h) \/ WriteRejects(h) \/ Release(h)
      PROVE  found'[t].id # 0
  <2>1. found' = found /\ \E l \in Labels : l # "mark" /\ pc' = [pc EXCEPT ![h] = l]
    BY <1>3 DEF Connect, LookupRejects, Delete, Insert, Commit, Rollback,
                WriteRejects, Release, Labels, Writing, Coding
  <2> QED BY <1>a, <2>1
<1>4. ASSUME NEW h \in Handlers,
             \/ GetCode(h) \/ DelCode(h) \/ GetRejects(h) \/ SetCode(h) \/ CodeRejects(h) \/ ReadCode(h)
             \/ Mark(h) \/ Spend(h) \/ VerifyRejects(h)
      PROVE  found'[t].id # 0
  <2>1. found' = found /\ \E l \in Labels : l # "mark" /\ pc' = [pc EXCEPT ![h] = l]
    BY <1>4 DEF GetCode, DelCode, GetRejects, SetCode, CodeRejects, ReadCode, Mark, Spend,
                VerifyRejects, Labels, Writing, Coding
  <2> QED BY <1>a, <2>1
<1>5. CASE ExpireCode \/ Replicate \/ UNCHANGED vars
  BY <1>0, <1>5 DEF ExpireCode, Replicate, vars, MarksFound
<1> QED BY <1>1, <1>2, <1>3, <1>4, <1>5 DEF Next, Handle

LEMMA CodesStep == SignUpInv /\ NumbersFresh' /\ [Next]_vars => CodesAreOfRow'
<1> SUFFICES ASSUME SignUpInv, NumbersFresh', [Next]_vars,
                    row'.id # 0, ~row'.ok, row'.id \notin crossed'
             PROVE  /\ \A t \in Handlers :
                         pc'[t] \in Coding \cup {"checkCode", "mark"} => mine'[t] = row'.id
                    /\ (\A t \in Handlers : pc'[t] \notin Coding) => code' \in {0, row'.id}
  BY DEF CodesAreOfRow
<1> USE DEF db, redis, pool, txn, bounds, history, Goto, Coding, Writing
<1> DEFINE Goal == /\ \A t \in Handlers :
                        pc'[t] \in Coding \cup {"checkCode", "mark"} => mine'[t] = row'.id
                   /\ (\A t \in Handlers : pc'[t] \notin Coding) => code' \in {0, row'.id}
<1>0. /\ TypeOK /\ NumbersFresh /\ CodesAreOfRow /\ row \in Rows
      /\ pc \in [Handlers -> Labels] /\ mine \in [Handlers -> {0} \cup Accounts]
  BY DEF SignUpInv, TypeOK
\* While the row stays, so does what is known of its codes.
<1>a. ASSUME row' = row, crossed \subseteq crossed'
      PROVE  /\ \A t \in Handlers :
                  pc[t] \in Coding \cup {"checkCode", "mark"} => mine[t] = row.id
             /\ (\A t \in Handlers : pc[t] \notin Coding) => code \in {0, row.id}
  BY <1>0, <1>a DEF CodesAreOfRow
<1>b. ASSUME row' = row, crossed' = crossed, code' \in {code, 0},
             NEW h \in Handlers, NEW l, pc' = [pc EXCEPT ![h] = l],
             l \notin Coding \cup {"checkCode", "mark"}, pc[h] \notin Coding,
             \A t \in Handlers \ {h} : mine'[t] = mine[t]
      PROVE  Goal
  <2>1. \A t \in Handlers :
          pc'[t] \in Coding \cup {"checkCode", "mark"} => pc'[t] = pc[t] /\ t # h
    BY <1>0, <1>b
  <2>2. (\A t \in Handlers : pc'[t] \notin Coding) => \A t \in Handlers : pc[t] \notin Coding
    BY <1>0, <1>b
  <2> QED BY <1>a, <1>b, <2>1, <2>2
<1> HIDE DEF Goal
<1>1. ASSUME NEW h \in Handlers, NEW o \in Ops, Request(h, o) PROVE Goal
  <2>1. /\ row' = row /\ crossed' = crossed /\ code' = code /\ pc[h] = "idle"
        /\ \E l \in {"readCode", "findUser", "connect"} : pc' = [pc EXCEPT ![h] = l]
        /\ \A t \in Handlers \ {h} : mine'[t] = mine[t]
    BY <1>0, <1>1 DEF Request
  <2> QED BY <1>b, <2>1
<1>2. ASSUME NEW h \in Handlers,
             \/ Connect(h) \/ Lookup(h) \/ LookupRejects(h) \/ FindUser(h) \/ Delete(h)
             \/ Insert(h) \/ Rollback(h) \/ WriteRejects(h) \/ Release(h)
      PROVE  Goal
  <2>1. /\ row' = row /\ crossed' = crossed /\ code' = code /\ pc[h] \notin Coding
        /\ \E l \in {"idle", "connect", "lookup", "delete", "insert", "commit",
                     "rollback", "release"} : pc' = [pc EXCEPT ![h] = l]
        /\ \A t \in Handlers \ {h} : mine'[t] = mine[t]
    BY <1>0, <1>2 DEF Connect, Lookup, GiveBackOpen, LookupRejects, FindUser, Delete,
                      Insert, Rollback, WriteRejects, Release
  <2> QED BY <1>b, <2>1
<1>3. ASSUME NEW h \in Handlers, Commit(h) PROVE Goal
  <2>1. /\ row' = [id |-> ins[h], ok |-> op[h] = "provider"] /\ mine' = mine
        /\ ins[h] = mine[h]
        /\ crossed' = IF Overtakes(h) THEN crossed \cup {ins[h]} ELSE crossed
        /\ pc' = [pc EXCEPT ![h] = IF op[h] = "provider" THEN "release" ELSE "getCode"]
    BY <1>0, <1>3 DEF Commit, Commits, NumbersFresh, NumberFits
  <2>2. ~Overtakes(h) /\ op[h] # "provider" /\ row'.id = mine[h]
    BY <2>1
  <2>3. pc'[h] = "getCode"
        /\ \A t \in Handlers \ {h} : pc'[t] \notin Coding \cup {"checkCode", "mark"}
    BY <1>0, <2>1, <2>2 DEF Overtakes
  <2> QED BY <2>1, <2>2, <2>3 DEF Goal
<1>4. ASSUME NEW h \in Handlers, GetCode(h) \/ DelCode(h) \/ GetRejects(h) PROVE Goal
  <2>1. /\ row' = row /\ crossed' = crossed /\ mine' = mine /\ pc[h] \in Coding
        /\ \E l \in Coding : pc' = [pc EXCEPT ![h] = l]
    BY <1>4 DEF GetCode, DelCode, GetRejects
  <2> QED BY <1>0, <1>a, <2>1 DEF Goal
<1>5. ASSUME NEW h \in Handlers, SetCode(h) PROVE Goal
  <2>1. /\ row' = row /\ crossed' = crossed /\ mine' = mine /\ pc[h] \in Coding
        /\ pc' = [pc EXCEPT ![h] = "release"] /\ code' = mine[h]
    BY <1>5 DEF SetCode
  <2> QED BY <1>0, <1>a, <2>1 DEF Goal
<1>6. ASSUME NEW h \in Handlers, CodeRejects(h) PROVE Goal
  <2>1. row' = row /\ crossed' = crossed \cup {mine[h]} /\ pc[h] \in Coding
    BY <1>6 DEF CodeRejects
  <2> QED BY <1>a, <2>1
<1>7. ASSUME NEW h \in Handlers, ReadCode(h) PROVE Goal
  <2>1. /\ row' = row /\ mine' = mine /\ code' = code /\ pc[h] = "readCode"
        /\ crossed' = crossed \cup {mine[t] : t \in {u \in Handlers : pc[u] \in Coding}}
        /\ pc' = [pc EXCEPT ![h] = IF code = mine[h] THEN "checkCode" ELSE "idle"]
    BY <1>7 DEF ReadCode
  <2>2. \A t \in Handlers : pc[t] \notin Coding
    BY <1>a, <2>1
  <2>3. code \in {0, row.id} /\ mine[h] # 0
    <3>1. mine[h] \in mailed /\ mailed \subseteq 1 .. serial
      BY <1>0, <2>1 DEF NumbersFresh, NumberFits, Verifying
    <3> QED BY <1>a, <2>1, <2>2, <3>1 DEF TypeOK
  <2>4. \A t \in Handlers :
          pc'[t] \in Coding \cup {"checkCode", "mark"} => mine[t] = row.id
    BY <1>0, <1>a, <2>1, <2>2, <2>3
  <2> QED BY <2>1, <2>3, <2>4 DEF Goal
<1>8. ASSUME NEW h \in Handlers, CheckCode(h) PROVE Goal
  <2>1. /\ row' = row /\ crossed' = crossed /\ mine' = mine /\ code' = code
        /\ pc[h] = "checkCode"
        /\ \E l \in {"idle", "mark"} : pc' = [pc EXCEPT ![h] = l]
    BY <1>8 DEF CheckCode
  <2> QED BY <1>0, <1>a, <2>1 DEF Goal
<1>9. ASSUME NEW h \in Handlers, Mark(h) PROVE Goal
  <2>1. row' = row
    BY <1>0, <1>9 DEF Mark, Commits, Rows
  <2>2. /\ crossed' = crossed /\ mine' = mine /\ code' = code /\ pc[h] = "mark"
        /\ pc' = [pc EXCEPT ![h] = "spend"]
    BY <1>9 DEF Mark
  <2> QED BY <1>b, <2>1, <2>2
<1>10. ASSUME NEW h \in Handlers, Spend(h) \/ VerifyRejects(h) PROVE Goal
  <2>1. /\ row' = row /\ crossed' = crossed /\ mine' = mine /\ code' \in {code, 0}
        /\ pc[h] \notin Coding
        /\ pc' = [pc EXCEPT ![h] = "idle"]
    BY <1>10 DEF Spend, VerifyRejects
  <2> QED BY <1>b, <2>1
<1>11. ASSUME ExpireCode \/ Replicate \/ UNCHANGED vars PROVE Goal
  <2>1. /\ row' = row /\ crossed' = crossed /\ mine' = mine /\ code' \in {code, 0}
        /\ pc' = pc
    BY <1>11 DEF ExpireCode, Replicate, vars
  <2> QED BY <1>a, <2>1 DEF Goal
<1>12. Goal
  BY <1>1, <1>2, <1>3, <1>4, <1>5, <1>6, <1>7, <1>8, <1>9, <1>10, <1>11
     DEF Next, Handle
<1> QED BY <1>12 DEF Goal

-----------------------------------------------------------------------------
(* The theorems.                                                           *)

LEMMA SignUpInvariant == Spec => []SignUpInv
<1>1. SignUpInv /\ [Next]_vars => SignUpInv'
  BY TypeStep, SerialStep, NumbersStep, RowsStep, ChangesStep, ReplacesStep,
     ThankedStep, SpendersStep, CodesStep, MarksStep DEF SignUpInv
<1> QED BY <1>1, SignUpInit, PTL DEF Spec

\* The variables keep their types; no connection has two owners, and only a
\* handler about to end its transaction has written in it.
THEOREM SignUpTypeCorrect == Spec => []TypeOK
BY SignUpInvariant, PTL DEF SignUpInv

\* Who was told that the verification succeeded is verified, whatever other
\* requests, lags and rejections came, unless its UPDATE hit another account or
\* ran in a transaction that a refused sign-up had left open.
THEOREM ThankedStaysVerified == Spec => []ThankedIsVerified
BY SignUpInvariant, PTL DEF SignUpInv

\* Nothing replaces a verified account but a sign-up that read it as it was
\* before its verification.
THEOREM VerifiedAccountIsKept == Spec => VerifiedIsKept
<1>1. SignUpInv /\ [Next]_vars =>
        [row.ok /\ row' # row =>
           \E h \in Handlers :
             pc[h] = "commit" /\ pc'[h] # "commit" /\
             found[h] = [id |-> row.id, ok |-> FALSE]]_row
  <2> SUFFICES ASSUME SignUpInv, [Next]_vars, row.ok, row' # row
               PROVE  \E h \in Handlers :
                        /\ pc[h] = "commit" /\ pc'[h] # "commit"
                        /\ found[h] = [id |-> row.id, ok |-> FALSE]
    OBVIOUS
  <2>0. /\ row \in Rows /\ pc \in [Handlers -> Labels] /\ found \in [Handlers -> Rows]
        /\ ReplacesUnverified /\ RowsVerified
    BY DEF SignUpInv, TypeOK
  <2>1. PICK h \in Handlers :
           \/ Commit(h) /\ ins[h] # 0
           \/ Mark(h) /\ row' = [row EXCEPT !.ok = TRUE]
    BY RowChanges
  <2>2. Commit(h) /\ ins[h] # 0
    BY <2>0, <2>1 DEF Rows
  <2>3. pc[h] = "commit" /\ pc'[h] # "commit"
    BY <2>0, <2>2 DEF Commit, Goto
  <2>4. found[h].id = row.id /\ ~found[h].ok
    BY <2>0, <2>2, <2>3 DEF ReplacesUnverified, RowsVerified, NoneVerified
  <2>5. found[h] = [id |-> row.id, ok |-> FALSE]
    BY <2>0, <2>4 DEF Rows
  <2> QED BY <2>3, <2>5
<1> QED BY <1>1, SignUpInvariant, PTL DEF Spec, VerifiedIsKept

\* A code verifies the account it was drawn for, or one that is named crossed.
THEOREM CodesFit == Spec => CodeFitsAccount
<1>1. SignUpInv /\ [Next]_vars =>
        [\A h \in Handlers :
           pc[h] = "mark" /\ pc'[h] = "spend" /\ row' # row =>
             mine[h] = row.id \/ row.id \in crossed]_vars
  <2> SUFFICES ASSUME SignUpInv, [Next]_vars, NEW h \in Handlers,
                      pc[h] = "mark", pc'[h] = "spend", row' # row,
                      row.id \notin crossed
               PROVE  mine[h] = row.id
    OBVIOUS
  <2>0. /\ row \in Rows /\ pc \in [Handlers -> Labels] /\ found \in [Handlers -> Rows]
        /\ CodesAreOfRow /\ MarksFound
    BY DEF SignUpInv, TypeOK
  <2>1. PICK t \in Handlers :
           \/ Commit(t)
           \/ Mark(t) /\ row' = [row EXCEPT !.ok = TRUE] /\ found[t].id = row.id
    BY RowChanges
  <2>2. t = h
    BY <2>0, <2>1 DEF Commit, Mark, Goto
  <2>3. /\ Mark(h) /\ row' = [row EXCEPT !.ok = TRUE] /\ found[h].id = row.id
    BY <2>1, <2>2 DEF Commit
  <2>4. row.id # 0 /\ ~row.ok
    BY <2>0, <2>3 DEF MarksFound, Rows
  <2> QED BY <2>0, <2>4 DEF CodesAreOfRow
<1> QED BY <1>1, SignUpInvariant, PTL DEF Spec, CodeFitsAccount

=============================================================================
