------------------------------- MODULE SignUp -------------------------------
(***************************************************************************)
(* The account of one email address (src/src/auth/auth.service.ts): signUp,*)
(* verifiCationEmail and createProviderUser, over the pool of connections  *)
(* of the master, the slave that findByEmail reads, and the verification   *)
(* code kept in Redis under the address.                                   *)
(*                                                                         *)
(* userInfos.email is unique: there is at most one row, replaced by        *)
(* DELETE and INSERT in one transaction.  An account is the number of the  *)
(* Users row made for it, and a code the number of the account it was      *)
(* drawn for.                                                              *)
(*                                                                         *)
(* signUp gives its connection back without ending the transaction when it *)
(* refuses a request.  The next user of that connection works inside the   *)
(* open transaction: a plain UPDATE there is committed, or rolled back,    *)
(* with whatever transaction is next to end on the connection.             *)
(***************************************************************************)
EXTENDS Naturals, Sequences, FiniteSets

CONSTANTS
  Handlers,     \* requests in flight
  Conns,        \* connections of the pool of the master
  NoConn,
  MaxRequests, MaxFaults, MaxExpiries   \* bounds

ASSUME HandlersAssumption == IsFiniteSet(Handlers)
ASSUME PoolAssumption == NoConn \notin Conns
ASSUME BoundAssumption ==
  MaxRequests \in Nat /\ MaxFaults \in Nat /\ MaxExpiries \in Nat

VARIABLES
  row,       \* master: the committed row, id 0 when there is none
  replica,   \* the slave's copy of it
  wal,       \* versions of it the slave has not applied yet
  serial,    \* accounts numbered so far
  code,      \* Redis: the code kept for the address, 0 for none
  mailed,    \* codes handed to the mail queue
  unended,   \* pooled connections inside a transaction nobody ends
  pend,      \* per connection: the account an uncommitted UPDATE verifies
  lost,      \* connections that were never given back
  pc, op, conn, found,  \* handler: label, route, connection, row it read
  mine,      \* handler: the account it makes, or the code it was sent
  del, ins,  \* handler: rows its transaction has deleted and inserted
  requests, faults, expiries,   \* bounded counters
  crossed,   \* history: accounts a foreign code may verify
  thanked,   \* history: codes whose verification was answered with success
  misled     \* history: of these, codes whose UPDATE hit another row or an open transaction

db      == <<row, replica, wal, serial>>
redis   == <<code, mailed>>
pool    == <<unended, pend, lost, conn>>
txn     == <<del, ins>>
bounds  == <<requests, faults, expiries>>
history == <<crossed, thanked, misled>>
vars    == <<db, redis, pool, txn, pc, op, found, mine, bounds, history>>

Accounts == 1 .. MaxRequests
Rows     == [id : {0} \cup Accounts, ok : BOOLEAN]
NoRow    == [id |-> 0, ok |-> FALSE]
Ops      == {"signUp", "mismatch", "provider", "verify"}
Coding   == {"getCode", "delCode", "setCode"}
Writing  == {"delete", "insert", "commit", "rollback"}
Labels   == {"idle", "connect", "lookup", "findUser", "readCode", "checkCode",
             "mark", "spend", "release"} \cup Writing \cup Coding

Init ==
  /\ row = NoRow /\ replica = NoRow /\ wal = <<>> /\ serial = 0
  /\ code = 0 /\ mailed = {}
  /\ unended = {} /\ lost = {}
  /\ pend = [k \in Conns |-> 0]
  /\ conn = [h \in Handlers |-> NoConn]
  /\ del = [h \in Handlers |-> 0] /\ ins = [h \in Handlers |-> 0]
  /\ pc = [h \in Handlers |-> "idle"]
  /\ op = [h \in Handlers |-> "signUp"]
  /\ found = [h \in Handlers |-> NoRow]
  /\ mine = [h \in Handlers |-> 0]
  /\ requests = 0 /\ faults = 0 /\ expiries = 0
  /\ crossed = {} /\ thanked = {} /\ misled = {}

Goto(h, label) == pc' = [pc EXCEPT ![h] = label]

\* A commit reaches the slave later.
Commits(r) == /\ row' = r
              /\ wal' = IF r = row THEN wal ELSE Append(wal, r)
              /\ UNCHANGED <<replica, serial>>

Free == Conns \ (lost \cup {conn[h] : h \in Handlers})

\* Another transaction holds the lock of account a, or is changing the address.
Locked(h, a) ==
  \/ \E t \in Handlers \ {h} : del[t] = a
  \/ \E k \in Conns \ {conn[h]} : pend[k] = a
Contended(h) == \E t \in Handlers \ {h} : del[t] # 0 \/ ins[t] # 0

-----------------------------------------------------------------------------
(* signUp and createProviderUser                                           *)

Request(h, o) ==
  /\ pc[h] = "idle" /\ requests < MaxRequests
  /\ requests' = requests + 1
  /\ op' = [op EXCEPT ![h] = o]
  /\ IF o = "verify"
     THEN \E c \in mailed : mine' = [mine EXCEPT ![h] = c] /\ Goto(h, "readCode")
     ELSE /\ mine' = [mine EXCEPT ![h] = 0]
          /\ Goto(h, IF o = "provider" THEN "findUser" ELSE "connect")
  /\ UNCHANGED <<db, redis, pool, txn, found, faults, expiries, history>>

\* connect() and START TRANSACTION, which inside an open transaction only warns.
Connect(h) ==
  /\ pc[h] = "connect"
  /\ \E k \in Free : conn' = [conn EXCEPT ![h] = k] /\ unended' = unended \ {k}
  /\ Goto(h, IF op[h] = "provider" THEN "insert" ELSE "lookup")
  /\ UNCHANGED <<db, redis, pend, lost, txn, op, found, mine, bounds, history>>

\* The connection goes back as it is: release() ends no transaction.
GiveBackOpen(h) ==
  /\ unended' = unended \cup {conn[h]}
  /\ conn' = [conn EXCEPT ![h] = NoConn]
  /\ Goto(h, "idle")

\* Mutation: the verified account is not refused.
LookupAny(h) ==
  /\ pc[h] = "lookup"
  /\ found' = [found EXCEPT ![h] = replica]
  /\ IF op[h] = "mismatch"
     THEN GiveBackOpen(h)
     ELSE /\ Goto(h, IF replica.id # 0 THEN "delete" ELSE "insert")
          /\ UNCHANGED <<unended, conn>>
  /\ UNCHANGED <<db, redis, pend, lost, txn, op, mine, bounds, history>>

Lookup(h) ==
  /\ pc[h] = "lookup"
  /\ found' = [found EXCEPT ![h] = replica]
  /\ IF replica.ok \/ op[h] = "mismatch"
     THEN GiveBackOpen(h)
     ELSE /\ Goto(h, IF replica.id # 0 THEN "delete" ELSE "insert")
          /\ UNCHANGED <<unended, conn>>
  /\ UNCHANGED <<db, redis, pend, lost, txn, op, mine, bounds, history>>

\* findByEmail rejects outside the try block: nobody releases.
LookupRejects(h) ==
  /\ pc[h] = "lookup" /\ faults < MaxFaults
  /\ faults' = faults + 1
  /\ lost' = lost \cup {conn[h]}
  /\ conn' = [conn EXCEPT ![h] = NoConn]
  /\ Goto(h, "idle")
  /\ UNCHANGED <<db, redis, unended, pend, txn, op, found, mine, requests,
                 expiries, history>>

FindUser(h) ==
  /\ pc[h] = "findUser"
  /\ found' = [found EXCEPT ![h] = replica]
  /\ Goto(h, IF replica.id # 0 THEN "idle" ELSE "connect")
  /\ UNCHANGED <<db, redis, pool, txn, op, mine, bounds, history>>

Delete(h) ==
  /\ pc[h] = "delete" /\ ~Locked(h, found[h].id)
  /\ del' = [del EXCEPT ![h] = IF row.id = found[h].id THEN row.id ELSE 0]
  /\ Goto(h, "insert")
  /\ UNCHANGED <<db, redis, pool, ins, op, found, mine, bounds, history>>

\* A row that is there and stays makes the INSERT fail; one that another
\* transaction is changing makes it wait.
Insert(h) ==
  /\ pc[h] = "insert" /\ ~Contended(h)
  /\ IF row.id \in {0, del[h]}
     THEN /\ serial' = serial + 1
          /\ ins' = [ins EXCEPT ![h] = serial + 1]
          /\ mine' = [mine EXCEPT ![h] = serial + 1]
          /\ Goto(h, "commit")
          /\ UNCHANGED <<row, replica, wal>>
     ELSE Goto(h, "rollback") /\ UNCHANGED <<db, ins, mine>>
  /\ UNCHANGED <<redis, pool, del, op, found, bounds, history>>

\* Requests that still work with the account or the code this one replaces.
Overtakes(h) ==
  \E t \in Handlers \ {h} : pc[t] \in Coding \cup {"checkCode", "mark"}

Commit(h) ==
  /\ pc[h] = "commit"
  /\ Commits([id |-> ins[h], ok |-> op[h] = "provider"])
  /\ pend' = [pend EXCEPT ![conn[h]] = 0]
  /\ del' = [del EXCEPT ![h] = 0] /\ ins' = [ins EXCEPT ![h] = 0]
  /\ crossed' = IF Overtakes(h) THEN crossed \cup {ins[h]} ELSE crossed
  /\ Goto(h, IF op[h] = "provider" THEN "release" ELSE "getCode")
  /\ UNCHANGED <<redis, unended, lost, conn, op, found, mine, bounds, thanked, misled>>

\* Mutation: the catch block forgets to roll back.
RollbackForgotten(h) ==
  /\ pc[h] = "rollback"
  /\ Goto(h, "release")
  /\ UNCHANGED <<db, redis, pool, txn, op, found, mine, bounds, history>>

Rollback(h) ==
  /\ pc[h] = "rollback"
  /\ pend' = [pend EXCEPT ![conn[h]] = 0]
  /\ del' = [del EXCEPT ![h] = 0] /\ ins' = [ins EXCEPT ![h] = 0]
  /\ Goto(h, "release")
  /\ UNCHANGED <<db, redis, unended, lost, conn, op, found, mine, bounds, history>>

\* A statement of the transaction is rejected.
WriteRejects(h) ==
  /\ pc[h] \in Writing \ {"rollback"} /\ faults < MaxFaults
  /\ faults' = faults + 1
  /\ Goto(h, "rollback")
  /\ UNCHANGED <<db, redis, pool, txn, op, found, mine, requests, expiries, history>>

Release(h) ==
  /\ pc[h] = "release"
  /\ conn' = [conn EXCEPT ![h] = NoConn]
  /\ Goto(h, "idle")
  /\ UNCHANGED <<db, redis, unended, pend, lost, txn, op, found, mine, bounds, history>>

-----------------------------------------------------------------------------
(* AuthenticationNumberCache, called by signUp after its COMMIT            *)

GetCode(h) ==
  /\ pc[h] = "getCode"
  /\ Goto(h, IF code # 0 THEN "delCode" ELSE "setCode")
  /\ UNCHANGED <<db, redis, pool, txn, op, found, mine, bounds, history>>

DelCode(h) ==
  /\ pc[h] = "delCode"
  /\ code' = 0
  /\ Goto(h, "setCode")
  /\ UNCHANGED <<db, mailed, pool, txn, op, found, mine, bounds, history>>

SetCode(h) ==
  /\ pc[h] = "setCode"
  /\ code' = mine[h] /\ mailed' = mailed \cup {mine[h]}
  /\ Goto(h, "release")
  /\ UNCHANGED <<db, pool, txn, op, found, mine, bounds, history>>

\* The rejected GET is caught: the code is set over the one there may be.
GetRejects(h) ==
  /\ pc[h] = "getCode" /\ faults < MaxFaults
  /\ faults' = faults + 1
  /\ Goto(h, "setCode")
  /\ UNCHANGED <<db, redis, pool, txn, op, found, mine, requests, expiries, history>>

\* Redis or the mail queue rejects: the account stays, without a code.
CodeRejects(h) ==
  /\ pc[h] \in Coding \ {"getCode"} /\ faults < MaxFaults
  /\ faults' = faults + 1
  /\ crossed' = crossed \cup {mine[h]}
  /\ Goto(h, "release")
  /\ UNCHANGED <<db, redis, pool, txn, op, found, mine, requests, expiries,
                 thanked, misled>>

-----------------------------------------------------------------------------
(* verifiCationEmail                                                       *)

\* Mutation: any code will do while one is stored.
ReadCodeAny(h) ==
  /\ pc[h] = "readCode"
  /\ crossed' = crossed \cup {mine[t] : t \in {u \in Handlers : pc[u] \in Coding}}
  /\ Goto(h, IF code # 0 THEN "checkCode" ELSE "idle")
  /\ UNCHANGED <<db, redis, pool, txn, op, found, mine, bounds, thanked, misled>>

\* A wrong code is refused after the user is looked up; here at once.
ReadCode(h) ==
  /\ pc[h] = "readCode"
  /\ crossed' = crossed \cup {mine[t] : t \in {u \in Handlers : pc[u] \in Coding}}
  /\ Goto(h, IF code = mine[h] THEN "checkCode" ELSE "idle")
  /\ UNCHANGED <<db, redis, pool, txn, op, found, mine, bounds, thanked, misled>>

CheckCode(h) ==
  /\ pc[h] = "checkCode"
  /\ found' = [found EXCEPT ![h] = replica]
  /\ Goto(h, IF replica.id # 0 THEN "mark" ELSE "idle")
  /\ UNCHANGED <<db, redis, pool, txn, op, mine, bounds, history>>

\* UPDATE ... WHERE id on any free connection; inside an open transaction it
\* is not committed, and keeps the row locked.
Mark(h) ==
  LET a == found[h].id
  IN  /\ pc[h] = "mark"
      /\ \E k \in Free :
           /\ \A t \in Handlers : del[t] # a
           /\ \A j \in Conns \ {k} : pend[j] # a
           /\ IF row.id = a /\ k \notin unended
              THEN Commits([row EXCEPT !.ok = TRUE]) ELSE UNCHANGED db
           /\ pend' = [pend EXCEPT ![k] = IF row.id = a /\ k \in unended THEN a ELSE @]
           /\ misled' = IF a # mine[h] \/ k \in unended
                        THEN misled \cup {mine[h]} ELSE misled
      /\ Goto(h, "spend")
      /\ UNCHANGED <<redis, unended, lost, conn, txn, op, found, mine, bounds,
                     crossed, thanked>>

Spend(h) ==
  /\ pc[h] = "spend"
  /\ code' = 0
  /\ thanked' = thanked \cup {mine[h]}
  /\ Goto(h, "idle")
  /\ UNCHANGED <<db, mailed, pool, txn, op, found, mine, bounds, crossed, misled>>

\* Mutation: the answer and the DEL do not wait for the UPDATE to succeed.
VerifyRejectsLate(h) ==
  /\ pc[h] \in {"readCode", "checkCode", "mark", "spend"} /\ faults < MaxFaults
  /\ faults' = faults + 1
  /\ Goto(h, IF pc[h] = "mark" THEN "spend" ELSE "idle")
  /\ UNCHANGED <<db, redis, pool, txn, op, found, mine, requests, expiries, history>>

VerifyRejects(h) ==
  /\ pc[h] \in {"readCode", "checkCode", "mark", "spend"} /\ faults < MaxFaults
  /\ faults' = faults + 1
  /\ Goto(h, "idle")
  /\ UNCHANGED <<db, redis, pool, txn, op, found, mine, requests, expiries, history>>

-----------------------------------------------------------------------------
\* Three hours.
ExpireCode ==
  /\ code # 0 /\ expiries < MaxExpiries
  /\ code' = 0 /\ expiries' = expiries + 1
  /\ UNCHANGED <<db, mailed, pool, txn, pc, op, found, mine, requests, faults, history>>

Replicate ==
  /\ wal # <<>>
  /\ replica' = Head(wal) /\ wal' = Tail(wal)
  /\ UNCHANGED <<row, serial, redis, pool, txn, pc, op, found, mine, bounds, history>>

Handle(h) ==
  \/ Connect(h) \/ Lookup(h) \/ FindUser(h) \/ Delete(h) \/ Insert(h)
  \/ Commit(h) \/ Rollback(h) \/ Release(h)
  \/ GetCode(h) \/ DelCode(h) \/ SetCode(h)
  \/ ReadCode(h) \/ CheckCode(h) \/ Mark(h) \/ Spend(h)

Next ==
  \/ \E h \in Handlers :
       \/ \E o \in Ops : Request(h, o)
       \/ Handle(h)
       \/ LookupRejects(h) \/ WriteRejects(h) \/ VerifyRejects(h)
       \/ GetRejects(h) \/ CodeRejects(h)
  \/ ExpireCode \/ Replicate

Spec == Init /\ [][Next]_vars

-----------------------------------------------------------------------------
\* Types, and: a handler outside its transaction has no connection, no two
\* handlers share one, and only handlers about to end a transaction have
\* written in it.
TypeOK ==
  /\ row \in Rows /\ replica \in Rows /\ wal \in Seq(Rows) /\ serial \in 0 .. requests
  /\ code \in {0} \cup Accounts /\ mailed \subseteq Accounts
  /\ unended \subseteq Conns /\ lost \subseteq Conns
  /\ pend \in [Conns -> {0} \cup Accounts]
  /\ conn \in [Handlers -> Conns \cup {NoConn}]
  /\ pc \in [Handlers -> Labels] /\ op \in [Handlers -> Ops]
  /\ found \in [Handlers -> Rows] /\ mine \in [Handlers -> {0} \cup Accounts]
  /\ del \in [Handlers -> {0} \cup Accounts] /\ ins \in [Handlers -> {0} \cup Accounts]
  /\ requests \in 0 .. MaxRequests /\ faults \in 0 .. MaxFaults
  /\ expiries \in 0 .. MaxExpiries
  /\ crossed \subseteq Accounts /\ thanked \subseteq Accounts /\ misled \subseteq Accounts
  /\ \A h, t \in Handlers : h # t /\ conn[h] = conn[t] => conn[h] = NoConn
  /\ \A h \in Handlers :
       /\ conn[h] # NoConn <=> pc[h] \in {"lookup", "release"} \cup Writing \cup Coding
       /\ conn[h] \notin lost \cup unended
       /\ del[h] # 0 \/ ins[h] # 0 => pc[h] \in Writing

\* A verified account leaves only at the COMMIT of a sign-up that read it before
\* its verification had reached the slave (the refusal at the head of signUp).
VerifiedIsKept ==
  [][row.ok /\ row' # row =>
       \E h \in Handlers :
         pc[h] = "commit" /\ pc'[h] # "commit" /\
         found[h] = [id |-> row.id, ok |-> FALSE]]_row

\* The code that verifies an account is the one drawn for it, unless the account
\* replaced another while that one's code was being set or entered, or the code
\* was entered before its own was stored, if it ever was.
CodeFitsAccount ==
  [][\A h \in Handlers :
       pc[h] = "mark" /\ pc'[h] = "spend" /\ row' # row =>
         mine[h] = row.id \/ row.id \in crossed]_vars

\* An account whose verification was answered with success is verified as long
\* as it exists, unless the UPDATE hit another row or an open transaction.
ThankedIsVerified ==
  row.id \in thanked \ misled => row.ok
-----------------------------------------------------------------------------
(* Why these hold, in an inductive form.                                   *)

\* Requests that may still draw a number, and those that enter a code.
Numbering == {h \in Handlers :
                pc[h] \in {"findUser", "connect", "lookup", "delete", "insert"}}
Verifying == {"readCode", "checkCode", "mark", "spend"}

SerialBounded == serial + Cardinality(Numbering) <= requests

\* Numbers are drawn once: an account that is not committed yet has no code
\* in the mail and is nobody else's.
NumberFits(h) ==
  /\ mine[h] <= serial
  /\ pc[h] \in Verifying => mine[h] \in mailed
  /\ pc[h] \in Coding => mine[h] # 0
  /\ pc[h] = "commit" => ins[h] # 0
  /\ ins[h] # 0 =>
       /\ ins[h] = mine[h] /\ ins[h] \notin mailed
       /\ \A t \in Handlers \ {h} : pc[t] \in Coding => mine[t] # ins[h]

NumbersFresh ==
  /\ mailed \subseteq 1 .. serial /\ thanked \subseteq mailed
  /\ \A h \in Handlers : NumberFits(h)

\* No row without an id is verified, on the slave either.
NoneVerified(r) == r.id = 0 => ~r.ok
RowsVerified ==
  /\ NoneVerified(row) /\ NoneVerified(replica)
  /\ \A i \in 1 .. Len(wal) : NoneVerified(wal[i])

\* One transaction changes the address at a time; what it deletes is the row
\* there is, which it has read as not verified.
OneChanges ==
  \A h, t \in Handlers : h # t /\ (del[h] # 0 \/ ins[h] # 0) => del[t] = 0 /\ ins[t] = 0

ReplacesUnverified ==
  \A h \in Handlers :
    /\ \/ pc[h] \in {"delete", "insert", "commit"}
       \/ pc[h] = "connect" /\ op[h] = "provider"
       => ~found[h].ok
    /\ del[h] # 0 => del[h] = row.id /\ del[h] = found[h].id
    /\ ins[h] # 0 => row.id \in {0, del[h]}

\* Who is about to be thanked has verified its account, if that is the row.
SpendersVerified ==
  \A h \in Handlers :
    pc[h] = "spend" /\ mine[h] \notin misled /\ row.id = mine[h] => row.ok

\* Until an account is verified or crossed, the code that is being stored or
\* is stored, and the code that is being checked, are its own.
CodesAreOfRow ==
  row.id # 0 /\ ~row.ok /\ row.id \notin crossed =>
    /\ \A h \in Handlers :
         pc[h] \in Coding \cup {"checkCode", "mark"} => mine[h] = row.id
    /\ (\A h \in Handlers : pc[h] \notin Coding) => code \in {0, row.id}

MarksFound == \A h \in Handlers : pc[h] = "mark" => found[h].id # 0

SignUpInv ==
  /\ TypeOK /\ SerialBounded /\ NumbersFresh /\ RowsVerified /\ OneChanges
  /\ ReplacesUnverified /\ ThankedIsVerified /\ SpendersVerified
  /\ CodesAreOfRow /\ MarksFound
=============================================================================
