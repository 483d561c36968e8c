----------------------------- MODULE PushProofs -----------------------------
(***************************************************************************)
(* Theorems about PushClients, for any number of registrations, browsers,  *)
(* accounts and announcements.  The argument (PushInv): all that is ever   *)
(* written under an id stems from the row first inserted there, so nobody  *)
(* removes or takes over a stranger's row; and as long as an endpoint has  *)
(* not clashed, one registration at a time works on it and has removed all *)
(* rows of it but its own before it saves.                                 *)
(***************************************************************************)
EXTENDS PushClients, SequenceTheorems, TLAPS

USE ClientAssumption, ClientBounds

Table == Seq(Row \cup {Gone})

LEMMA GoneIsNoRow == Gone \notin Row
BY DEF Gone, Row

LEMMA PushInitInv == PushInit => PushInv
<1> SUFFICES ASSUME PushInit PROVE PushInv
  OBVIOUS
<1>1. PushTypeOK
  BY DEF PushInit, PushTypeOK, Row, Gone, Ids, Live
<1>2. RowsHaveOrigin
  <2>1. <<>> \in Seq(Row) /\ Len(<<>>) = 0
    OBVIOUS
  <2>2. FitsFirst(<<>>, <<>>)
    BY <2>1 DEF FitsFirst
  <2>3. RowsComeFrom(<<>>)
    BY <2>1, <2>2 DEF PushInit, RowsComeFrom
  <2> QED BY <2>1, <2>3 DEF RowsHaveOrigin
<1>3. CopiesHaveOneRow /\ RegistrationsApart /\ AcceptedStaysRegistered /\ SendsApart
  BY DEF PushInit, CopiesHaveOneRow, OneRow, RegistrationsApart, Clean, Busy,
         AcceptedStaysRegistered, SendsApart
<1> QED BY <1>1, <1>2, <1>3 DEF PushInv

-----------------------------------------------------------------------------
(* The table and its copies.                                               *)

LEMMA StoreTypes ==
  ASSUME PushTypeOK, NEW table \in Table, Store(table)
  PROVE  clients' = table /\ slave' = slave /\ ships' \in Seq(Table)
BY DEF PushTypeOK, Store, Table

\* What the slave has, or has still to apply.
IsCopy(table) == table = slave \/ \E k \in 1 .. Len(ships) : table = ships[k]

\* After a write the copies are those there were, and the new table.
LEMMA StoreCopies ==
  ASSUME PushTypeOK, NEW table \in Table, Store(table)
  PROVE  /\ IsCopy(slave')
         /\ \A k \in 1 .. Len(ships') : IsCopy(ships'[k]) \/ ships'[k] = clients'
<1>1. ships \in Seq(Table) /\ clients' = table /\ slave' = slave
  BY DEF PushTypeOK, Store, Table
<1>2. CASE ships' = ships
  BY <1>1, <1>2 DEF IsCopy
<1>3. CASE ships' # ships
  <2>1. ships' = Append(ships, table)
    BY <1>3 DEF Store
  <2> QED BY <1>1, <2>1 DEF IsCopy
<1> QED BY <1>2, <1>3

LEMMA ShipCopies ==
  ASSUME PushTypeOK, ShipClients
  PROVE  /\ slave' \in Table /\ ships' \in Seq(Table)
         /\ IsCopy(slave')
         /\ \A k \in 1 .. Len(ships') : IsCopy(ships'[k])
<1>1. ships \in Seq(Table) /\ ships # <<>> /\ slave' = Head(ships) /\ ships' = Tail(ships)
  BY DEF PushTypeOK, ShipClients, Table
<1>2. 1 \in 1 .. Len(ships) /\ slave' = ships[1]
  BY <1>1
<1>3. \A k \in 1 .. Len(ships') : k + 1 \in 1 .. Len(ships) /\ ships'[k] = ships[k + 1]
  BY <1>1
<1> QED BY <1>1, <1>2, <1>3 DEF IsCopy

\* The rows that each step writes.
LEMMA PurgeTable ==
  ASSUME PushInv, NEW r \in Handlers, Purge(r)
  PROVE  /\ clients' \in Table /\ Len(clients') = Len(clients)
         /\ Store(clients')
         /\ \A i \in 1 .. Len(clients) :
              clients'[i] = IF Live(i) /\ clients[i].endpoint = reg[r].endpoint
                            THEN Gone ELSE clients[i]
<1>1. clients \in Table
  BY DEF PushInv, PushTypeOK, Table
<1> DEFINE hit == {i \in Ids : Live(i) /\ clients[i].endpoint = reg[r].endpoint}
           table == [i \in Ids |-> IF i \in hit THEN Gone ELSE clients[i]]
<1>2. Store(table) /\ clients' = table
  BY DEF Purge, Store
<1>3. Ids = 1 .. Len(clients) /\ Len(clients) \in Nat
  BY <1>1 DEF Ids, Table
<1>4. \A i \in Ids : clients[i] \in Row \cup {Gone}
  BY <1>1, <1>3 DEF Table
<1>5. table \in [1 .. Len(clients) -> Row \cup {Gone}]
  BY <1>3, <1>4
<1>6. table \in Table /\ Len(table) = Len(clients)
  BY <1>3, <1>5 DEF Table
<1>7. \A i \in 1 .. Len(clients) :
        table[i] = IF Live(i) /\ clients[i].endpoint = reg[r].endpoint
                   THEN Gone ELSE clients[i]
  BY <1>3
<1> QED BY <1>2, <1>6, <1>7

LEMMA PutTable ==
  ASSUME PushTypeOK, NEW i \in 1 .. Len(clients), NEW row \in Row \cup {Gone},
         Store([clients EXCEPT ![i] = row])
  PROVE  /\ clients' \in Table /\ Len(clients') = Len(clients)
         /\ Store(clients')
         /\ clients'[i] = row
         /\ \A j \in 1 .. Len(clients) : j # i => clients'[j] = clients[j]
<1>1. clients \in Table
  BY DEF PushTypeOK, Table
<1> DEFINE table == [clients EXCEPT ![i] = row]
<1>2. table \in Table /\ Len(table) = Len(clients) /\ table[i] = row
      /\ \A j \in 1 .. Len(clients) : j # i => table[j] = clients[j]
  BY <1>1 DEF Table
<1>3. Store(table) /\ clients' = table
  BY DEF Store
<1> QED BY <1>2, <1>3

LEMMA AppendTable ==
  ASSUME PushTypeOK, NEW row \in Row, Store(Append(clients, row))
  PROVE  /\ clients' \in Table /\ Len(clients') = Len(clients) + 1
         /\ Store(clients')
         /\ clients'[Len(clients) + 1] = row
         /\ \A j \in 1 .. Len(clients) : clients'[j] = clients[j]
<1>1. clients \in Table
  BY DEF PushTypeOK, Table
<1>2. clients' = Append(clients, row)
  BY DEF Store
<1> QED BY <1>1, <1>2 DEF Table

LEMMA TableSteps ==
  ASSUME [PushNext]_pushvars
  PROVE  \/ UNCHANGED tables \/ ShipClients
         \/ \E r \in Handlers :
              Purge(r) \/ InsertClient(r) \/ UpdateClient(r) \/ ReinsertClient(r)
         \/ \E a \in Announcers : Cleanup(a)
BY DEF PushNext, RegStep, SendStep, Register, FindClient, ReloadClient, RegisterFails,
       Announce, FindAll, Deliver, DeliverFails, Finish, Unsubscribe, pushvars

-----------------------------------------------------------------------------
(* Every row stems from the first of its id.                               *)

Extends(longer, first) ==
  /\ longer \in Seq(Row) /\ Len(first) <= Len(longer)
  /\ \A i \in 1 .. Len(first) : longer[i] = first[i]

LEMMA FitsLonger ==
  ASSUME NEW first \in Seq(Row), NEW longer, Extends(longer, first),
         NEW table \in Table, FitsFirst(table, first)
  PROVE  FitsFirst(table, longer)
BY DEF Extends, FitsFirst, Table

\* The tables fit the first rows when the new table does.
LEMMA CopiesFit ==
  ASSUME PushTypeOK, NEW first \in Seq(Row), RowsComeFrom(first),
         NEW longer, Extends(longer, first), FitsFirst(clients', longer),
         IsCopy(slave'),
         \A k \in 1 .. Len(ships') : IsCopy(ships'[k]) \/ ships'[k] = clients'
  PROVE  /\ FitsFirst(slave', longer)
         /\ \A k \in 1 .. Len(ships') : FitsFirst(ships'[k], longer)
<1>1. ASSUME NEW table, IsCopy(table) PROVE FitsFirst(table, longer)
  <2>1. table \in Table /\ FitsFirst(table, first)
    BY <1>1 DEF IsCopy, PushTypeOK, Table, RowsComeFrom
  <2> QED BY <2>1, FitsLonger
<1> QED BY <1>1

\* What handlers and announcements hold fits the first rows, too.
HeldFit(first) ==
  /\ \A a \in Announcers : \A b \in batch[a] \cup gone[a] : From(b.row, first[b.id])
  /\ \A r \in Handlers :
       held[r] # 0 => reg[r].user # Guest /\ reg[r].user = first[held[r]].user

LEMMA HeldStep ==
  ASSUME PushInv, [PushNext]_pushvars, NEW first \in Seq(Row), RowsComeFrom(first)
  PROVE  HeldFit(first)'
<1> USE DEF tables, regvars, sendvars, RGoto
<1>0. PushTypeOK /\ HeldFit(first) /\ RegistrationsApart
  BY DEF PushInv, RowsComeFrom, HeldFit
<1>a. /\ batch \in [Announcers -> SUBSET [id : Nat, row : Row]]
      /\ gone \in [Announcers -> SUBSET [id : Nat, row : Row]]
      /\ rpc \in [Handlers -> {"idle", "find", "purge", "save", "update", "reinsert"}]
      /\ reg \in [Handlers -> Row \cup {Gone}]
      /\ held \in [Handlers -> 0 .. Len(clients)]
  BY <1>0 DEF PushTypeOK
<1>b. ASSUME \A a \in Announcers : batch'[a] \cup gone'[a] \subseteq batch[a] \cup gone[a],
             UNCHANGED <<reg, held>>
      PROVE  HeldFit(first)'
  BY <1>0, <1>b DEF HeldFit
<1>1. ASSUME NEW r \in Handlers, NEW u \in Accounts, NEW e \in Endpoints, Register(r, u, e)
      PROVE  HeldFit(first)'
  BY <1>0, <1>a, <1>1 DEF Register, HeldFit
<1>2. ASSUME NEW r \in Handlers, FindClient(r) PROVE HeldFit(first)'
  <2>1. reg[r].user # Guest
    BY <1>0, <1>2 DEF FindClient, RegistrationsApart, Busy
  <2>2. PICK i : /\ held' = [held EXCEPT ![r] = i]
                 /\ i = 0 \/ i \in RowsOf(slave, reg[r].user)
    BY <1>2 DEF FindClient
  <2>3. i # 0 => first[i].user = reg[r].user
    <3>1. SUFFICES ASSUME i \in RowsOf(slave, reg[r].user) PROVE first[i].user = reg[r].user
      BY <2>2
    <3>2. slave[i] # Gone /\ slave[i].user = reg[r].user /\ i \in 1 .. Len(slave)
      BY <1>0, <3>1 DEF RowsOf, PushTypeOK
    <3> QED BY <3>2 DEF RowsComeFrom, FitsFirst, From
  <2>4. UNCHANGED <<reg, batch, gone>>
    BY <1>2 DEF FindClient
  <2> QED BY <1>0, <1>a, <2>1, <2>2, <2>3, <2>4 DEF HeldFit
<1>3. ASSUME NEW r \in Handlers,
             \/ Purge(r) \/ InsertClient(r) \/ ReloadClient(r) \/ UpdateClient(r)
             \/ ReinsertClient(r) \/ RegisterFails(r)
      PROVE  HeldFit(first)'
  BY <1>b, <1>3 DEF Purge, InsertClient, ReloadClient, UpdateClient, ReinsertClient,
                    RegisterFails
<1>4. ASSUME NEW a \in Announcers, FindAll(a) PROVE HeldFit(first)'
  <2>1. \A j \in DOMAIN slave : slave[j] # Gone => From(slave[j], first[j])
    <3>1. slave \in Table /\ DOMAIN slave = 1 .. Len(slave) /\ FitsFirst(slave, first)
      BY <1>0 DEF PushTypeOK, Table, RowsComeFrom
    <3> QED BY <3>1 DEF FitsFirst
  <2>2. \A b \in {[id |-> i, row |-> slave[i]] : i \in {j \in DOMAIN slave : slave[j] # Gone}} :
          From(b.row, first[b.id])
    BY <2>1
  <2> QED BY <1>0, <1>a, <1>4, <2>2 DEF FindAll, HeldFit
<1>5. ASSUME NEW a \in Announcers,
             Announce(a) \/ Deliver(a) \/ DeliverFails(a) \/ Cleanup(a) \/ Finish(a)
      PROVE  HeldFit(first)'
  <2>1. CASE Deliver(a)
    BY <1>a, <1>b, <2>1 DEF Deliver
  <2>2. CASE DeliverFails(a)
    BY <1>a, <1>b, <2>2 DEF DeliverFails
  <2>3. CASE Cleanup(a)
    BY <1>a, <1>b, <2>3 DEF Cleanup
  <2>4. CASE Announce(a) \/ Finish(a)
    BY <1>b, <2>4 DEF Announce, Finish
  <2> QED BY <1>5, <2>1, <2>2, <2>3, <2>4
<1>6. ASSUME ShipClients \/ UNCHANGED pushvars \/ \E e \in Endpoints : Unsubscribe(e)
      PROVE  HeldFit(first)'
  BY <1>b, <1>6 DEF ShipClients, Unsubscribe, pushvars
<1> QED BY <1>1, <1>2, <1>3, <1>4, <1>5, <1>6 DEF PushNext, RegStep, SendStep

LEMMA HeldLonger ==
  ASSUME NEW first \in Seq(Row), NEW longer, Extends(longer, first), HeldFit(first)',
         \A a \in Announcers : \A b \in batch'[a] \cup gone'[a] : b.id \in 1 .. Len(first),
         \A r \in Handlers : held'[r] \in 0 .. Len(first)
  PROVE  HeldFit(longer)'
BY DEF HeldFit, Extends

\* Ids that are held are ids of the table.
LEMMA IdsStep ==
  ASSUME PushInv, [PushNext]_pushvars
  PROVE  /\ batch' \in [Announcers -> SUBSET [id : Nat, row : Row]]
         /\ gone' \in [Announcers -> SUBSET [id : Nat, row : Row]]
         /\ held' \in [Handlers -> 0 .. Len(clients)]
         /\ \A a \in Announcers : \A b \in batch'[a] \cup gone'[a] : b.id \in 1 .. Len(clients)
<1> DEFINE Goal == /\ batch' \in [Announcers -> SUBSET [id : Nat, row : Row]]
                   /\ gone' \in [Announcers -> SUBSET [id : Nat, row : Row]]
                   /\ held' \in [Handlers -> 0 .. Len(clients)]
                   /\ \A a \in Announcers : \A b \in batch'[a] \cup gone'[a] :
                        b.id \in 1 .. Len(clients)
<1> USE DEF tables, regvars, sendvars
<1>0. PushTypeOK /\ RowsHaveOrigin
  BY DEF PushInv
<1>a. /\ batch \in [Announcers -> SUBSET [id : Nat, row : Row]]
      /\ gone \in [Announcers -> SUBSET [id : Nat, row : Row]]
      /\ held \in [Handlers -> 0 .. Len(clients)]
      /\ \A a \in Announcers : \A b \in batch[a] \cup gone[a] : b.id \in 1 .. Len(clients)
      /\ slave \in Table /\ Len(slave) <= Len(clients)
      /\ clients \in Table
  BY <1>0 DEF PushTypeOK, Ids, Table, RowsHaveOrigin, RowsComeFrom, FitsFirst
<1>1. ASSUME NEW r \in Handlers, NEW u \in Accounts, NEW e \in Endpoints, Register(r, u, e)
      PROVE  Goal
  BY <1>a, <1>1 DEF Register, Table
<1>2. ASSUME NEW r \in Handlers, FindClient(r) PROVE Goal
  <2>1. PICK i : /\ held' = [held EXCEPT ![r] = i]
                 /\ i = 0 \/ i \in RowsOf(slave, reg[r].user)
    BY <1>2 DEF FindClient
  <2>2. i \in 0 .. Len(clients)
    BY <1>a, <2>1 DEF RowsOf, Table
  <2>3. UNCHANGED <<batch, gone>>
    BY <1>2 DEF FindClient
  <2> QED BY <1>a, <2>1, <2>2, <2>3
<1>3. ASSUME NEW r \in Handlers,
             \/ Purge(r) \/ InsertClient(r) \/ ReloadClient(r) \/ UpdateClient(r)
             \/ ReinsertClient(r) \/ RegisterFails(r)
      PROVE  Goal
  <2>1. UNCHANGED <<batch, gone, held>>
    BY <1>3 DEF Purge, InsertClient, ReloadClient, UpdateClient, ReinsertClient,
                RegisterFails
  <2> QED BY <1>a, <2>1
<1>4. ASSUME NEW a \in Announcers, FindAll(a) PROVE Goal
  <2> DEFINE rows == {[id |-> i, row |-> slave[i]] : i \in {j \in DOMAIN slave : slave[j] # Gone}}
  <2>1. \A i \in DOMAIN slave : i \in 1 .. Len(clients) /\ i \in Nat /\ slave[i] \in Row \cup {Gone}
    BY <1>a DEF Table
  <2>2. rows \in SUBSET [id : Nat, row : Row] /\ \A b \in rows : b.id \in 1 .. Len(clients)
    BY <2>1
  <2>3. batch' = [batch EXCEPT ![a] = rows] /\ UNCHANGED <<gone, held>>
    BY <1>4 DEF FindAll
  <2> HIDE DEF rows
  <2> QED BY <1>a, <2>2, <2>3
<1>5. ASSUME NEW a \in Announcers, Deliver(a) PROVE Goal
  BY <1>a, <1>5 DEF Deliver
<1>6. ASSUME NEW a \in Announcers, DeliverFails(a) PROVE Goal
  BY <1>a, <1>6 DEF DeliverFails
<1>7. ASSUME NEW a \in Announcers, Cleanup(a) PROVE Goal
  BY <1>a, <1>7 DEF Cleanup
<1>8. ASSUME \/ \E a \in Announcers : Announce(a) \/ Finish(a)
             \/ ShipClients \/ UNCHANGED pushvars \/ \E e \in Endpoints : Unsubscribe(e)
      PROVE  Goal
  <2>1. UNCHANGED <<batch, gone, held>>
    BY <1>8 DEF Announce, Finish, ShipClients, Unsubscribe, pushvars
  <2> QED BY <1>a, <2>1
<1>9. Goal
  <2> HIDE DEF Goal
  <2> QED BY <1>1, <1>2, <1>3, <1>4, <1>5, <1>6, <1>7, <1>8
          DEF PushNext, RegStep, SendStep
<1> QED BY <1>9

LEMMA HeldOfRegistrations ==
  ASSUME PushInv, NEW first \in Seq(Row), RowsComeFrom(first), NEW r \in Handlers,
         held[r] # 0
  PROVE  /\ held[r] \in 1 .. Len(clients)
         /\ reg[r].user # Guest /\ reg[r].user = first[held[r]].user
         /\ From(reg[r], first[held[r]])
<1>1. held[r] \in 0 .. Len(clients) /\ Len(clients) \in Nat
  BY DEF PushInv, PushTypeOK
<1>2. reg[r].user # Guest /\ reg[r].user = first[held[r]].user
  BY DEF RowsComeFrom
<1> QED BY <1>1, <1>2 DEF From

\* An update writes to the row that was found or to none.
LEMMA UpdateTable ==
  ASSUME PushInv, NEW r \in Handlers, UpdateClient(r) \/ ReinsertClient(r)
  PROVE  \/ /\ UNCHANGED <<clients, slave, ships>>
            /\ UNCHANGED registered \/ (Accept(r) /\ rpc[r] = "update" /\ ~ Live(held[r]))
         \/ /\ held[r] \in 1 .. Len(clients) /\ reg[r] \in Row /\ Accept(r)
            /\ clients' \in Table /\ Len(clients') = Len(clients)
            /\ Store(clients')
            /\ clients'[held[r]] = reg[r]
            /\ \A j \in 1 .. Len(clients) : j # held[r] => clients'[j] = clients[j]
<1>1. /\ rpc[r] \in {"update", "reinsert"} /\ r \in Busy
      /\ PushTypeOK /\ RegistrationsApart
  BY DEF UpdateClient, ReinsertClient, Busy, PushInv
<1>2. held[r] \in 1 .. Len(clients) /\ reg[r] \in Row
  BY <1>1 DEF PushTypeOK, RegistrationsApart
<1>3. \/ /\ UNCHANGED <<clients, slave, ships>>
         /\ UNCHANGED registered \/ (Accept(r) /\ rpc[r] = "update" /\ ~ Live(held[r]))
      \/ Store([clients EXCEPT ![held[r]] = reg[r]]) /\ Accept(r)
  BY DEF UpdateClient, ReinsertClient, tables, Store
<1> QED BY <1>1, <1>2, <1>3, PutTable

\* A clean-up empties a visitor's row or none.
LEMMA CleanupTable ==
  ASSUME PushInv, NEW a \in Announcers, Cleanup(a)
  PROVE  \/ UNCHANGED <<clients, slave, ships>>
         \/ \E b \in gone[a] :
              /\ b.row.user = Guest /\ b.id \in 1 .. Len(clients)
              /\ clients' \in Table /\ Len(clients') = Len(clients)
              /\ Store(clients')
              /\ clients'[b.id] = Gone
              /\ \A j \in 1 .. Len(clients) : j # b.id => clients'[j] = clients[j]
<1>1. PICK b \in gone[a] :
        Store(IF b.row.user = Guest THEN [clients EXCEPT ![b.id] = Gone] ELSE clients)
  BY DEF Cleanup
<1>2. PushTypeOK
  BY DEF PushInv
<1>3. b.id \in 1 .. Len(clients)
  BY <1>2 DEF PushTypeOK, Ids
<1>4. CASE b.row.user = Guest
  <2>1. Store([clients EXCEPT ![b.id] = Gone])
    BY <1>1, <1>4
  <2> QED BY <1>2, <1>3, <1>4, <2>1, PutTable
<1>5. CASE b.row.user # Guest
  BY <1>1, <1>5 DEF Store
<1> QED BY <1>4, <1>5

\* One step of the table, as seen by the rows' origins.
TableFits(first) ==
  /\ Len(first) = Len(clients') /\ FitsFirst(clients', first)
  /\ FitsFirst(slave', first)
  /\ \A k \in 1 .. Len(ships') : FitsFirst(ships'[k], first)

LEMMA TableFitsStep ==
  ASSUME PushInv, [PushNext]_pushvars, NEW first \in Seq(Row), RowsComeFrom(first)
  PROVE  /\ clients' \in Table /\ slave' \in Table /\ ships' \in Seq(Table)
         /\ \E longer : Extends(longer, first) /\ TableFits(longer)
<1> DEFINE Goal == /\ clients' \in Table /\ slave' \in Table /\ ships' \in Seq(Table)
                   /\ \E longer : Extends(longer, first) /\ TableFits(longer)
<1>0. PushTypeOK /\ Extends(first, first)
  BY DEF PushInv, Extends
<1>a. clients \in Table /\ slave \in Table /\ ships \in Seq(Table)
  BY <1>0 DEF PushTypeOK, Table
<1>b. Len(first) = Len(clients) /\ FitsFirst(clients, first) /\ FitsFirst(slave, first)
      /\ \A k \in 1 .. Len(ships) : FitsFirst(ships[k], first)
  BY DEF RowsComeFrom
<1>c. ASSUME clients' \in Table, Store(clients'),
             NEW longer, Extends(longer, first), Len(longer) = Len(clients'),
             FitsFirst(clients', longer)
      PROVE  Goal
  <2>1. slave' = slave /\ ships' \in Seq(Table)
    BY <1>0, <1>c, StoreTypes
  <2>2. /\ IsCopy(slave')
        /\ \A k \in 1 .. Len(ships') : IsCopy(ships'[k]) \/ ships'[k] = clients'
    BY <1>0, <1>c, StoreCopies
  <2>3. TableFits(longer)
    BY <1>0, <1>c, <2>2, CopiesFit DEF TableFits
  <2> QED BY <1>a, <1>c, <2>1, <2>3
<1>1. ASSUME UNCHANGED <<clients, slave, ships>> PROVE Goal
  <2>1. TableFits(first)
    BY <1>b, <1>1 DEF TableFits
  <2> QED BY <1>0, <1>a, <1>1, <2>1
<1>2. ASSUME ShipClients PROVE Goal
  <2>1. /\ slave' \in Table /\ ships' \in Seq(Table)
        /\ IsCopy(slave') /\ \A k \in 1 .. Len(ships') : IsCopy(ships'[k])
    BY <1>0, <1>2, ShipCopies
  <2>2. clients' = clients
    BY <1>2 DEF ShipClients
  <2>3. FitsFirst(clients', first)
    BY <1>b, <2>2
  <2>4. TableFits(first)
    BY <1>0, <1>b, <2>1, <2>2, <2>3, CopiesFit DEF TableFits
  <2> QED BY <1>0, <1>a, <2>1, <2>2, <2>4
<1>3. ASSUME NEW r \in Handlers, Purge(r) PROVE Goal
  <2>1. /\ clients' \in Table /\ Len(clients') = Len(clients) /\ Store(clients')
        /\ \A i \in 1 .. Len(clients) : clients'[i] = clients[i] \/ clients'[i] = Gone
    BY <1>3, PurgeTable
  <2>2. FitsFirst(clients', first)
    BY <1>b, <2>1 DEF FitsFirst, From
  <2> QED BY <1>0, <1>b, <1>c, <2>1, <2>2
<1>4. ASSUME NEW r \in Handlers, InsertClient(r) PROVE Goal
  <2>1. reg[r] \in Row
    BY <1>4 DEF InsertClient, PushInv, RegistrationsApart, Busy
  <2>2. /\ clients' \in Table /\ Len(clients') = Len(clients) + 1
        /\ Store(clients')
        /\ clients'[Len(clients) + 1] = reg[r]
        /\ \A j \in 1 .. Len(clients) : clients'[j] = clients[j]
    BY <1>0, <1>4, <2>1, AppendTable DEF InsertClient
  <2> DEFINE longer == Append(first, reg[r])
  <2>3. /\ longer \in Seq(Row) /\ Len(longer) = Len(first) + 1
        /\ longer[Len(first) + 1] = reg[r]
        /\ \A i \in 1 .. Len(first) : longer[i] = first[i]
    BY <2>1
  <2> HIDE DEF longer
  <2>4. Extends(longer, first)
    BY <2>3 DEF Extends
  <2>5. FitsFirst(clients', longer)
    <3>1. \A i \in 1 .. Len(clients) : From(clients'[i], longer[i])
      BY <1>b, <2>2, <2>3 DEF FitsFirst
    <3>2. From(clients'[Len(clients) + 1], longer[Len(clients) + 1])
      BY <1>b, <2>2, <2>3 DEF From
    <3>3. Len(clients) \in Nat
      BY <1>a DEF Table
    <3>4. \A i \in 1 .. Len(clients') : i \in 1 .. Len(clients) \/ i = Len(clients) + 1
      BY <2>2, <3>3
    <3> QED BY <1>b, <2>2, <2>3, <3>1, <3>2, <3>3, <3>4 DEF FitsFirst
  <2> QED BY <1>b, <1>c, <2>2, <2>3, <2>4, <2>5
<1>5. ASSUME NEW r \in Handlers, UpdateClient(r) \/ ReinsertClient(r) PROVE Goal
  <2>1. CASE UNCHANGED <<clients, slave, ships>>
    BY <1>1, <2>1
  <2>2. CASE ~ UNCHANGED <<clients, slave, ships>>
    <3>1. /\ held[r] \in 1 .. Len(clients)
          /\ clients' \in Table /\ Len(clients') = Len(clients)
          /\ Store(clients')
          /\ clients'[held[r]] = reg[r]
          /\ \A j \in 1 .. Len(clients) : j # held[r] => clients'[j] = clients[j]
      BY <1>5, <2>2, UpdateTable
    <3>2. From(reg[r], first[held[r]])
      <4>1. held[r] # 0
        BY <3>1
      <4> QED BY <4>1, HeldOfRegistrations
    <3>3. FitsFirst(clients', first)
      BY <1>b, <3>1, <3>2 DEF FitsFirst
    <3> QED BY <1>0, <1>b, <1>c, <3>1, <3>3
  <2> QED BY <2>1, <2>2
<1>6. ASSUME NEW a \in Announcers, Cleanup(a) PROVE Goal
  <2>1. CASE UNCHANGED <<clients, slave, ships>>
    BY <1>1, <2>1
  <2>2. CASE ~ UNCHANGED <<clients, slave, ships>>
    <3>1. PICK b \in gone[a] :
              /\ b.row.user = Guest /\ b.id \in 1 .. Len(clients)
              /\ clients' \in Table /\ Len(clients') = Len(clients)
              /\ Store(clients')
              /\ clients'[b.id] = Gone
              /\ \A j \in 1 .. Len(clients) : j # b.id => clients'[j] = clients[j]
      BY <1>6, <2>2, CleanupTable
    <3>2. FitsFirst(clients', first)
      BY <1>b, <3>1 DEF FitsFirst, From
    <3> QED BY <1>0, <1>b, <1>c, <3>1, <3>2
  <2> QED BY <2>1, <2>2
<1>7. Goal
  <2> HIDE DEF Goal
  <2> QED BY <1>1, <1>2, <1>3, <1>4, <1>5, <1>6, TableSteps DEF tables
<1> QED BY <1>7

LEMMA OriginStep ==
  ASSUME PushInv, [PushNext]_pushvars
  PROVE  RowsHaveOrigin'
<1>1. PICK first \in Seq(Row) : RowsComeFrom(first)
  BY DEF PushInv, RowsHaveOrigin
<1>2. PICK longer : Extends(longer, first) /\ TableFits(longer)
  BY <1>1, TableFitsStep
<1>3. HeldFit(first)' /\ Len(first) = Len(clients)
  BY <1>1, HeldStep DEF RowsComeFrom
<1>4. HeldFit(longer)'
  <2>1. /\ \A a \in Announcers : \A b \in batch'[a] \cup gone'[a] : b.id \in 1 .. Len(first)
        /\ held' \in [Handlers -> 0 .. Len(first)]
    BY <1>3, IdsStep
  <2>2. \A r \in Handlers : held'[r] \in 0 .. Len(first)
    BY <2>1
  <2> QED BY <1>2, <1>3, <2>1, <2>2, HeldLonger
<1>5. longer \in Seq(Row)
  BY <1>2 DEF Extends
<1>6. RowsComeFrom(longer)'
  BY <1>2, <1>4 DEF TableFits, HeldFit, RowsComeFrom
<1> QED BY <1>5, <1>6 DEF RowsHaveOrigin

-----------------------------------------------------------------------------
(* Types.                                                                  *)

\* The part of the types that the tables do not enter.
LEMMA ControlTypes ==
  ASSUME PushInv, [PushNext]_pushvars
  PROVE  /\ dead' \subseteq Endpoints
         /\ rpc' \in [Handlers -> {"idle", "find", "purge", "save", "update", "reinsert"}]
         /\ reg' \in [Handlers -> Row \cup {Gone}]
         /\ \A r \in Handlers : rpc'[r] \in {"update", "reinsert"} => held'[r] # 0
         /\ spc' \in [Announcers -> {"idle", "find", "send"}]
         /\ told' \in [Announcers -> [Endpoints -> Nat]]
         /\ registered' \in [Endpoints -> Accounts \cup {Nobody}]
         /\ clashed' \subseteq Accounts \cup Endpoints
         /\ regs' \in 0 .. MaxRegs /\ rounds' \in 0 .. MaxRounds /\ faults' \in 0 .. MaxFaults
<1> DEFINE Goal ==
         /\ dead' \subseteq Endpoints
         /\ rpc' \in [Handlers -> {"idle", "find", "purge", "save", "update", "reinsert"}]
         /\ reg' \in [Handlers -> Row \cup {Gone}]
         /\ \A r \in Handlers : rpc'[r] \in {"update", "reinsert"} => held'[r] # 0
         /\ spc' \in [Announcers -> {"idle", "find", "send"}]
         /\ told' \in [Announcers -> [Endpoints -> Nat]]
         /\ registered' \in [Endpoints -> Accounts \cup {Nobody}]
         /\ clashed' \subseteq Accounts \cup Endpoints
         /\ regs' \in 0 .. MaxRegs /\ rounds' \in 0 .. MaxRounds /\ faults' \in 0 .. MaxFaults
<1> USE DEF tables, regvars, sendvars, RGoto
<1>a. /\ dead \subseteq Endpoints
      /\ rpc \in [Handlers -> {"idle", "find", "purge", "save", "update", "reinsert"}]
      /\ reg \in [Handlers -> Row \cup {Gone}]
      /\ held \in [Handlers -> 0 .. Len(clients)]
      /\ \A r \in Handlers : rpc[r] \in {"update", "reinsert"} => held[r] # 0
      /\ spc \in [Announcers -> {"idle", "find", "send"}]
      /\ batch \in [Announcers -> SUBSET [id : Nat, row : Row]]
      /\ told \in [Announcers -> [Endpoints -> Nat]]
      /\ registered \in [Endpoints -> Accounts \cup {Nobody}]
      /\ clashed \subseteq Accounts \cup Endpoints
      /\ regs \in 0 .. MaxRegs /\ rounds \in 0 .. MaxRounds /\ faults \in 0 .. MaxFaults
  BY DEF PushInv, PushTypeOK
<1>b. \A r \in Busy : reg[r] \in Row /\ reg[r].user \in Accounts /\ reg[r].endpoint \in Endpoints
  BY DEF PushInv, RegistrationsApart, Row
<1>c. ASSUME NEW r \in Busy, Accept(r)
      PROVE  registered' \in [Endpoints -> Accounts \cup {Nobody}]
  BY <1>a, <1>b, <1>c DEF Accept
<1>1. ASSUME NEW r \in Handlers, NEW u \in Accounts, NEW e \in Endpoints, Register(r, u, e)
      PROVE  Goal
  <2>1. [user |-> u, endpoint |-> e] \in Row
    BY DEF Row
  <2>2. \A t \in Rivals(u, e) : reg[t].endpoint \in Endpoints
    BY <1>b DEF Rivals
  <2>3. clashed' \subseteq Accounts \cup Endpoints
    BY <1>a, <1>1, <2>2 DEF Register
  <2>4. /\ UNCHANGED <<dead, spc, told, rounds, faults>>
        /\ regs' = regs + 1 /\ regs < MaxRegs
        /\ reg' = [reg EXCEPT ![r] = [user |-> u, endpoint |-> e]]
        /\ held' = [held EXCEPT ![r] = 0]
        /\ registered' = [registered EXCEPT ![e] = Nobody]
        /\ \E l \in {"purge", "find"} : rpc' = [rpc EXCEPT ![r] = l]
    BY <1>1 DEF Register
  <2>5. \A t \in Handlers : rpc'[t] \in {"update", "reinsert"} => held'[t] # 0
    BY <1>a, <2>4
  <2>6. /\ rpc' \in [Handlers -> {"idle", "find", "purge", "save", "update", "reinsert"}]
        /\ reg' \in [Handlers -> Row \cup {Gone}]
    BY <1>a, <2>1, <2>4
  <2>7. registered' \in [Endpoints -> Accounts \cup {Nobody}]
    BY <1>a, <2>4
  <2>8. regs' \in 0 .. MaxRegs
    BY <1>a, <2>4
  <2> QED BY <1>a, <2>3, <2>4, <2>5, <2>6, <2>7, <2>8
<1>2. ASSUME NEW r \in Handlers, FindClient(r) PROVE Goal
  <2>1. PICK i : /\ held' = [held EXCEPT ![r] = i]
                 /\ rpc' = [rpc EXCEPT ![r] = AfterFind(r, i)]
                 /\ clashed' \subseteq clashed \cup {reg[r].user, reg[r].endpoint}
    BY <1>2 DEF FindClient
  <2>2. r \in Busy
    BY <1>2 DEF FindClient, Busy
  <2>3. AfterFind(r, i) \in {"save", "purge"}
    BY DEF AfterFind
  <2> QED BY <1>a, <1>b, <1>2, <2>1, <2>2, <2>3 DEF FindClient
<1>3. ASSUME NEW r \in Handlers, Purge(r) PROVE Goal
  <2>1. clashed' \subseteq Accounts \cup Endpoints
    BY <1>a, <1>b, <1>3 DEF Purge
  <2> QED BY <1>a, <1>3, <2>1 DEF Purge
<1>4. ASSUME NEW r \in Handlers, InsertClient(r) \/ UpdateClient(r) \/ ReinsertClient(r)
      PROVE  Goal
  <2>1. r \in Busy /\ rpc' = [rpc EXCEPT ![r] = "idle"]
    BY <1>4 DEF InsertClient, UpdateClient, ReinsertClient, Busy, Accept
  <2>2. Accept(r) \/ UNCHANGED registered
    BY <1>4 DEF InsertClient, UpdateClient, ReinsertClient
  <2>3. registered' \in [Endpoints -> Accounts \cup {Nobody}]
    BY <1>a, <1>c, <2>1, <2>2
  <2>4. UNCHANGED <<dead, reg, held, sendvars, clashed, regs, rounds, faults>>
    BY <1>4 DEF InsertClient, UpdateClient, ReinsertClient
  <2>5. \A t \in Handlers : rpc'[t] \in {"update", "reinsert"} => held'[t] # 0
    BY <1>a, <2>1, <2>4
  <2>6. rpc' \in [Handlers -> {"idle", "find", "purge", "save", "update", "reinsert"}]
    BY <1>a, <2>1
  <2>7. UNCHANGED <<dead, reg, spc, told, clashed, regs, rounds, faults>>
    BY <2>4
  <2> QED BY <1>a, <2>3, <2>5, <2>6, <2>7
<1>5. ASSUME NEW r \in Handlers, ReloadClient(r) \/ RegisterFails(r) PROVE Goal
  <2>1. \E l \in {"idle", "update", "reinsert"} :
           rpc' = [rpc EXCEPT ![r] = l] /\ (l # "idle" => held[r] # 0)
    BY <1>5 DEF ReloadClient, RegisterFails
  <2>2. \A t \in Handlers : rpc'[t] \in {"update", "reinsert"} => held'[t] # 0
    BY <1>a, <1>5, <2>1 DEF ReloadClient, RegisterFails
  <2>3. rpc' \in [Handlers -> {"idle", "find", "purge", "save", "update", "reinsert"}]
    BY <1>a, <2>1
  <2>4. UNCHANGED <<dead, reg, spc, told, registered, clashed, regs, rounds>>
    BY <1>5 DEF ReloadClient, RegisterFails
  <2>5. faults' \in 0 .. MaxFaults
    BY <1>a, <1>5 DEF ReloadClient, RegisterFails
  <2> QED BY <1>a, <2>2, <2>3, <2>4, <2>5
<1>6. ASSUME NEW a \in Announcers, Deliver(a) PROVE Goal
  <2>1. UNCHANGED <<tables, dead, regvars, spc, registered, clashed, regs, rounds, faults>>
    BY <1>6 DEF Deliver
  <2>2. PICK b \in batch[a] :
          UNCHANGED told \/ told' = [told EXCEPT ![a][b.row.endpoint] = @ + 1]
    BY <1>6 DEF Deliver
  <2>3. b.row.endpoint \in Endpoints
    BY <1>a DEF Row
  <2>4. told' \in [Announcers -> [Endpoints -> Nat]]
    <3>1. CASE UNCHANGED told
      BY <1>a, <3>1
    <3>2. CASE told' = [told EXCEPT ![a][b.row.endpoint] = @ + 1]
      <4> DEFINE old == told[a]
                 new == [old EXCEPT ![b.row.endpoint] = old[b.row.endpoint] + 1]
      <4>1. old \in [Endpoints -> Nat]
        BY <1>a
      <4> HIDE DEF old
      <4>2. new \in [Endpoints -> Nat]
        BY <2>3, <4>1
      <4>3. told' = [told EXCEPT ![a] = new]
        BY <3>2 DEF old
      <4> HIDE DEF new
      <4> QED BY <1>a, <4>2, <4>3
    <3> QED BY <2>2, <3>1, <3>2
  <2> QED BY <1>a, <2>1, <2>4
<1>7. ASSUME NEW a \in Announcers,
             Announce(a) \/ FindAll(a) \/ DeliverFails(a) \/ Cleanup(a) \/ Finish(a)
      PROVE  Goal
  <2>1. UNCHANGED <<dead, regvars, registered, clashed, regs>>
    BY <1>7 DEF Announce, FindAll, DeliverFails, Cleanup, Finish
  <2>2. spc' \in [Announcers -> {"idle", "find", "send"}]
    BY <1>a, <1>7 DEF Announce, FindAll, DeliverFails, Cleanup, Finish
  <2>3. told' \in [Announcers -> [Endpoints -> Nat]]
    <3>1. UNCHANGED told \/ told' = [told EXCEPT ![a] = [e \in Endpoints |-> 0]]
      BY <1>7 DEF Announce, FindAll, DeliverFails, Cleanup, Finish
    <3>2. [e \in Endpoints |-> 0] \in [Endpoints -> Nat]
      OBVIOUS
    <3> QED BY <1>a, <3>1, <3>2
  <2>4. rounds' \in 0 .. MaxRounds /\ faults' \in 0 .. MaxFaults
    BY <1>a, <1>7 DEF Announce, FindAll, DeliverFails, Cleanup, Finish
  <2> QED BY <1>a, <2>1, <2>2, <2>3, <2>4
<1>8. ASSUME ShipClients \/ UNCHANGED pushvars \/ \E e \in Endpoints : Unsubscribe(e)
      PROVE  Goal
  BY <1>a, <1>8 DEF ShipClients, Unsubscribe, pushvars
<1>9. Goal
  <2> HIDE DEF Goal
  <2> QED BY <1>1, <1>2, <1>3, <1>4, <1>5, <1>6, <1>7, <1>8 DEF PushNext, RegStep, SendStep
<1> QED BY <1>9

LEMMA TypeStep ==
  ASSUME PushInv, [PushNext]_pushvars
  PROVE  PushTypeOK'
<1>1. PICK first \in Seq(Row) : RowsComeFrom(first)
  BY DEF PushInv, RowsHaveOrigin
<1>2. /\ clients' \in Table /\ slave' \in Table /\ ships' \in Seq(Table)
      /\ \E longer : Extends(longer, first) /\ TableFits(longer)
  BY <1>1, TableFitsStep
<1>3. Len(clients) \in Nat /\ Len(clients) <= Len(clients')
  BY <1>1, <1>2 DEF RowsComeFrom, Extends, TableFits
<1>4. held' \in [Handlers -> 0 .. Len(clients')]
  <2>1. held' \in [Handlers -> 0 .. Len(clients)]
    BY IdsStep
  <2>2. Len(clients') \in Nat
    BY <1>2 DEF Table
  <2> QED BY <1>3, <2>1, <2>2
<1>5. \A a \in Announcers : \A b \in batch'[a] \cup gone'[a] :
        /\ b.id \in Ids'
        /\ b.row.user = Guest /\ Live(b.id)' => clients'[b.id] = b.row
  <2> SUFFICES ASSUME NEW a \in Announcers, NEW b \in batch'[a] \cup gone'[a]
               PROVE  /\ b.id \in Ids'
                      /\ b.row.user = Guest /\ Live(b.id)' => clients'[b.id] = b.row
    OBVIOUS
  <2>1. PICK now \in Seq(Row) : RowsComeFrom(now)'
    BY OriginStep DEF RowsHaveOrigin
  <2>2. b.id \in 1 .. Len(clients') /\ b \in [id : Nat, row : Row]
    BY <1>2, <1>3, IdsStep DEF Table
  <2>3. Ids' = 1 .. Len(clients')
    BY <1>2 DEF Ids, Table
  <2>4. From(b.row, now[b.id]) /\ From(clients'[b.id], now[b.id])
    BY <2>1, <2>2 DEF RowsComeFrom, FitsFirst
  <2>5. b.row \in Row /\ b.row # Gone
    BY <2>2, GoneIsNoRow
  <2> QED BY <2>2, <2>3, <2>4, <2>5 DEF From, Live
<1> QED BY <1>2, <1>4, <1>5, IdsStep, ControlTypes DEF PushTypeOK, Table

-----------------------------------------------------------------------------
(* One row for an endpoint.                                                *)

LEMMA ClashedGrows ==
  ASSUME [PushNext]_pushvars
  PROVE  clashed \subseteq clashed'
BY DEF PushNext, RegStep, SendStep, Register, FindClient, Purge, InsertClient, ReloadClient,
       UpdateClient, ReinsertClient, RegisterFails, Announce, FindAll, Deliver, DeliverFails,
       Cleanup, Finish, Unsubscribe, ShipClients, pushvars

\* A table with fewer rows, or one more row for an endpoint that had none or
\* only the row that is replaced.
LEMMA OneRowWrite ==
  ASSUME PushTypeOK, OneRow(clients), clashed \subseteq clashed', clients' \in Table,
         NEW h \in Nat, NEW row \in Row,
         \A i \in 1 .. Len(clients') :
           \/ i \in 1 .. Len(clients) /\ clients'[i] \in {clients[i], Gone}
           \/ i = h /\ clients'[i] = row,
         \/ row.endpoint \in clashed
         \/ \A i \in Ids : Live(i) /\ clients[i].endpoint = row.endpoint => i = h
  PROVE  OneRow(clients)'
<1>1. DOMAIN clients' = 1 .. Len(clients') /\ Ids = 1 .. Len(clients)
      /\ DOMAIN clients = 1 .. Len(clients)
  BY DEF PushTypeOK, Table, Ids
<1>2. SUFFICES ASSUME NEW i \in 1 .. Len(clients'), NEW j \in 1 .. Len(clients'),
                      clients'[i] # Gone, clients'[j] # Gone, i # j,
                      clients'[i].endpoint = clients'[j].endpoint
               PROVE  clients'[i].endpoint \in clashed'
  BY <1>1 DEF OneRow
<1>3. CASE i \in Ids /\ clients'[i] = clients[i] /\ j \in Ids /\ clients'[j] = clients[j]
  BY <1>1, <1>2, <1>3 DEF OneRow
<1>4. CASE clients'[i] = row /\ i = h
  BY <1>1, <1>2, <1>4 DEF Live
<1>5. CASE clients'[j] = row /\ j = h
  BY <1>1, <1>2, <1>5 DEF Live
<1> QED BY <1>1, <1>2, <1>3, <1>4, <1>5

LEMMA OneRowShrinks ==
  ASSUME PushTypeOK, OneRow(clients), clashed \subseteq clashed', clients' \in Table,
         Len(clients') = Len(clients),
         \A i \in 1 .. Len(clients) : clients'[i] \in {clients[i], Gone}
  PROVE  OneRow(clients)'
<1>1. DOMAIN clients' = 1 .. Len(clients') /\ DOMAIN clients = 1 .. Len(clients)
  BY DEF PushTypeOK, Table
<1> QED BY <1>1 DEF OneRow

LEMMA CopiesOneRow ==
  ASSUME CopiesHaveOneRow, clashed \subseteq clashed', OneRow(clients)',
         IsCopy(slave'),
         \A k \in 1 .. Len(ships') : IsCopy(ships'[k]) \/ ships'[k] = clients'
  PROVE  CopiesHaveOneRow'
<1>1. ASSUME NEW table, OneRow(table)
      PROVE  \A i, j \in DOMAIN table :
               table[i] # Gone /\ table[j] # Gone /\ i # j /\ table[i].endpoint = table[j].endpoint
               => table[i].endpoint \in clashed'
  BY <1>1 DEF OneRow
<1>2. ASSUME NEW table, IsCopy(table) PROVE OneRow(table)
  BY <1>2 DEF IsCopy, CopiesHaveOneRow
<1>3. OneRow(slave)'
  BY <1>1, <1>2 DEF OneRow
<1>4. ASSUME NEW k \in 1 .. Len(ships') PROVE OneRow(ships[k])'
  BY <1>1, <1>2, <1>4 DEF OneRow
<1> QED BY <1>3, <1>4 DEF CopiesHaveOneRow

\* What a registration that saves may rely on.
LEMMA SaverAlone ==
  ASSUME PushInv, NEW r \in Handlers, rpc[r] \in {"save", "update", "reinsert"}
  PROVE  \/ reg[r].endpoint \in clashed
         \/ \A i \in Ids : Live(i) /\ clients[i].endpoint = reg[r].endpoint => i = held[r]
BY DEF PushInv, RegistrationsApart, Clean, Busy

LEMMA OneRowStep ==
  ASSUME PushInv, [PushNext]_pushvars
  PROVE  CopiesHaveOneRow'
<1>0. PushTypeOK /\ CopiesHaveOneRow /\ OneRow(clients) /\ clashed \subseteq clashed'
  BY ClashedGrows DEF PushInv, CopiesHaveOneRow
<1>a. ASSUME clients' \in Table, Store(clients'), OneRow(clients)' PROVE CopiesHaveOneRow'
  BY <1>0, <1>a, StoreCopies, CopiesOneRow
<1>1. ASSUME UNCHANGED <<clients, slave, ships>> PROVE CopiesHaveOneRow'
  BY <1>0, <1>1 DEF CopiesHaveOneRow, OneRow
<1>2. ASSUME ShipClients PROVE CopiesHaveOneRow'
  <2>1. OneRow(clients)'
    <3>1. clients' = clients /\ clashed' = clashed
      BY <1>2 DEF ShipClients
    <3> QED BY <1>0, <3>1 DEF OneRow
  <2> QED BY <1>0, <1>2, <2>1, ShipCopies, CopiesOneRow
<1>3. ASSUME NEW r \in Handlers, Purge(r) PROVE CopiesHaveOneRow'
  <2>1. OneRow(clients)'
    BY <1>0, <1>3, PurgeTable, OneRowShrinks
  <2> QED BY <1>a, <1>3, <2>1, PurgeTable
<1>4. ASSUME NEW r \in Handlers, InsertClient(r) PROVE CopiesHaveOneRow'
  <2>1. reg[r] \in Row /\ rpc[r] = "save" /\ held[r] = 0 /\ Store(Append(clients, reg[r]))
    BY <1>4 DEF InsertClient, PushInv, RegistrationsApart, Busy
  <2>2. /\ clients' \in Table /\ Len(clients') = Len(clients) + 1
        /\ Store(clients')
        /\ clients'[Len(clients) + 1] = reg[r]
        /\ \A j \in 1 .. Len(clients) : clients'[j] = clients[j]
    BY <1>0, <2>1, AppendTable
  <2>3. Len(clients) \in Nat /\ Ids = 1 .. Len(clients)
    BY <1>0 DEF PushTypeOK, Ids
  <2> DEFINE h == Len(clients) + 1
  <2>4. \A i \in 1 .. Len(clients') :
          \/ i \in 1 .. Len(clients) /\ clients'[i] \in {clients[i], Gone}
          \/ i = h /\ clients'[i] = reg[r]
    BY <2>2, <2>3
  <2>5. \/ reg[r].endpoint \in clashed
        \/ \A i \in Ids : Live(i) /\ clients[i].endpoint = reg[r].endpoint => i = h
    BY <2>1, <2>3, SaverAlone
  <2>7. h \in Nat
    BY <2>3
  <2> HIDE DEF h
  <2>6. OneRow(clients)'
    BY <1>0, <2>1, <2>2, <2>4, <2>5, <2>7, OneRowWrite
  <2> QED BY <1>a, <2>2, <2>6
<1>5. ASSUME NEW r \in Handlers, UpdateClient(r) \/ ReinsertClient(r) PROVE CopiesHaveOneRow'
  <2>1. CASE UNCHANGED <<clients, slave, ships>>
    BY <1>1, <2>1
  <2>2. CASE ~ UNCHANGED <<clients, slave, ships>>
    <3>1. /\ held[r] \in 1 .. Len(clients) /\ reg[r] \in Row
          /\ clients' \in Table /\ Len(clients') = Len(clients)
          /\ Store(clients')
          /\ clients'[held[r]] = reg[r]
          /\ \A j \in 1 .. Len(clients) : j # held[r] => clients'[j] = clients[j]
      BY <1>5, <2>2, UpdateTable
    <3>2. rpc[r] \in {"save", "update", "reinsert"}
      BY <1>5 DEF UpdateClient, ReinsertClient
    <3>3. \/ reg[r].endpoint \in clashed
          \/ \A i \in Ids : Live(i) /\ clients[i].endpoint = reg[r].endpoint => i = held[r]
      BY <3>2, SaverAlone
    <3>4. \A i \in 1 .. Len(clients') :
            \/ i \in 1 .. Len(clients) /\ clients'[i] \in {clients[i], Gone}
            \/ i = held[r] /\ clients'[i] = reg[r]
      BY <3>1
    <3>5. held[r] \in Nat
      BY <3>1
    <3>6. OneRow(clients)'
      BY <1>0, <3>1, <3>3, <3>4, <3>5, OneRowWrite
    <3> QED BY <1>a, <3>1, <3>6
  <2> QED BY <2>1, <2>2
<1>6. ASSUME NEW a \in Announcers, Cleanup(a) PROVE CopiesHaveOneRow'
  <2>1. CASE UNCHANGED <<clients, slave, ships>>
    BY <1>1, <2>1
  <2>2. CASE ~ UNCHANGED <<clients, slave, ships>>
    <3>1. /\ clients' \in Table /\ Len(clients') = Len(clients) /\ Store(clients')
          /\ \A i \in 1 .. Len(clients) : clients'[i] \in {clients[i], Gone}
      BY <1>6, <2>2, CleanupTable
    <3>2. OneRow(clients)'
      BY <1>0, <3>1, OneRowShrinks
    <3> QED BY <1>a, <3>1, <3>2
  <2> QED BY <2>1, <2>2
<1> QED BY <1>1, <1>2, <1>3, <1>4, <1>5, <1>6, TableSteps DEF tables

-----------------------------------------------------------------------------
(* Registrations that have not clashed.                                    *)

\* The part of RegistrationsApart that needs neither tables nor history.
Rows ==
  /\ \A r \in Busy : reg[r] \in Row /\ (rpc[r] = "find" => reg[r].user # Guest)
  /\ \A r, t \in Handlers : Clean(r) /\ Clean(t) /\ r # t => reg[r].endpoint # reg[t].endpoint

\* The part about one registration.
Apart(r) ==
  /\ registered[reg[r].endpoint] = Nobody
  /\ rpc[r] \in {"save", "update", "reinsert"} =>
       \A i \in Ids : Live(i) /\ clients[i].endpoint = reg[r].endpoint => i = held[r]
  /\ rpc[r] = "update" => Live(held[r])

LEMMA ApartParts ==
  RegistrationsApart <=> Rows /\ \A r \in Handlers : Clean(r) => Apart(r)
BY DEF RegistrationsApart, Rows, Apart

\* A step of r leaves it what it asked for.
LEMMA SameRequest ==
  ASSUME PushInv, clashed \subseteq clashed', UNCHANGED reg, NEW r \in Handlers, rpc[r] # "idle",
         NEW l \in {"idle", "purge", "save", "update", "reinsert"},
         rpc' = [rpc EXCEPT ![r] = l]
  PROVE  /\ Rows'
         /\ \A t \in Handlers : Clean(t)' => Clean(t)
         /\ \A t \in Handlers : t # r => rpc'[t] = rpc[t]
         /\ rpc'[r] = l
<1>1. rpc \in [Handlers -> {"idle", "find", "purge", "save", "update", "reinsert"}]
  BY DEF PushInv, PushTypeOK
<1>2. \A t \in Handlers : t # r => rpc'[t] = rpc[t]
  BY <1>1
<1>3. rpc'[r] = l
  BY <1>1
<1>4. \A t \in Handlers : t \in Busy' => t \in Busy
  BY <1>2 DEF Busy
<1>5. \A t \in Handlers : Clean(t)' => Clean(t)
  BY <1>4 DEF Clean
<1>6. \A t \in Busy' : rpc'[t] = "find" => rpc[t] = "find"
  BY <1>2, <1>3 DEF Busy
<1>7. Rows
  BY ApartParts DEF PushInv
<1>8. \A t \in Busy' : reg'[t] \in Row /\ (rpc'[t] = "find" => reg'[t].user # Guest)
  BY <1>4, <1>6, <1>7 DEF Rows, Busy
<1>9. \A q, t \in Handlers : Clean(q)' /\ Clean(t)' /\ q # t => reg'[q].endpoint # reg'[t].endpoint
  BY <1>5, <1>7 DEF Rows
<1> QED BY <1>2, <1>3, <1>5, <1>8, <1>9 DEF Rows

\* A clean registration is not disturbed by a step of another or of an
\* announcement that leaves it no new row of its endpoint and its own row alone.
LEMMA Undisturbed ==
  ASSUME PushInv, NEW t \in Handlers, Clean(t), rpc'[t] = rpc[t], reg'[t] = reg[t],
         held'[t] = held[t],
         registered'[reg[t].endpoint] = Nobody,
         \A i \in Ids' : Live(i)' /\ clients'[i].endpoint = reg[t].endpoint =>
            i \in Ids /\ Live(i) /\ clients[i].endpoint = reg[t].endpoint,
         rpc[t] = "update" /\ Live(held[t]) => Live(held[t])'
  PROVE  Apart(t)'
<1>1. Apart(t)
  BY ApartParts DEF PushInv
<1> QED BY <1>1 DEF Apart, Live

\* Who accepts a registration makes nobody registered at another's endpoint.
LEMMA AcceptApart ==
  ASSUME PushInv, NEW r \in Handlers, r \in Busy, Accept(r),
         NEW t \in Handlers, Clean(t), t # r
  PROVE  registered'[reg[t].endpoint] = Nobody /\ reg[t].endpoint # reg[r].endpoint
<1>1. Rows /\ Apart(t) /\ t \in Busy
  BY ApartParts DEF PushInv, Clean
<1>2. reg[t].endpoint \in Endpoints
  BY <1>1 DEF Rows, Row
<1>3. reg[t].endpoint # reg[r].endpoint
  BY <1>1 DEF Rows, Clean
<1> QED BY <1>1, <1>2, <1>3 DEF Accept, Apart

\* No registration holds the row of a visitor that is cleaned up.
LEMMA CleanedIsNotHeld ==
  ASSUME PushInv, NEW a \in Announcers, NEW b \in gone[a], b.row.user = Guest,
         NEW t \in Handlers, held[t] # 0
  PROVE  held[t] # b.id
<1>1. PICK first \in Seq(Row) : RowsComeFrom(first)
  BY DEF PushInv, RowsHaveOrigin
<1>2. b.row \in Row /\ From(b.row, first[b.id])
  BY <1>1 DEF PushInv, PushTypeOK, RowsComeFrom
<1>3. first[b.id].user = Guest
  BY <1>2, GoneIsNoRow DEF From
<1>4. reg[t].user # Guest /\ reg[t].user = first[held[t]].user
  BY <1>1 DEF RowsComeFrom
<1> QED BY <1>3, <1>4

LEMMA RegistrationsStep ==
  ASSUME PushInv, [PushNext]_pushvars
  PROVE  RegistrationsApart'
<1> DEFINE Goal == Rows' /\ \A r \in Handlers : Clean(r)' => Apart(r)'
<1> USE DEF regvars
<1>0. /\ PushTypeOK /\ Rows /\ clashed \subseteq clashed'
      /\ \A r \in Handlers : Clean(r) => Apart(r)
      /\ rpc \in [Handlers -> {"idle", "find", "purge", "save", "update", "reinsert"}]
      /\ reg \in [Handlers -> Row \cup {Gone}]
      /\ held \in [Handlers -> 0 .. Len(clients)]
      /\ registered \in [Endpoints -> Accounts \cup {Nobody}]
      /\ clients \in Table /\ Ids = 1 .. Len(clients)
  BY ApartParts, ClashedGrows DEF PushInv, PushTypeOK, Table, Ids
<1>a. \A t \in Handlers : rpc[t] = "update" => held[t] # 0 /\ held[t] \in Ids
  BY <1>0 DEF PushTypeOK
<1>1. ASSUME NEW r \in Handlers, NEW u \in Accounts, NEW e \in Endpoints, Register(r, u, e)
      PROVE  Goal
  <2>1. /\ reg' = [reg EXCEPT ![r] = [user |-> u, endpoint |-> e]]
        /\ held' = [held EXCEPT ![r] = 0]
        /\ registered' = [registered EXCEPT ![e] = Nobody]
        /\ clients' = clients
        /\ rpc' = [rpc EXCEPT ![r] = IF u = Guest THEN "purge" ELSE "find"]
        /\ Rivals(u, e) # {} => e \in clashed'
    BY <1>1 DEF Register, tables, RGoto
  <2>2. \A t \in Handlers : t # r =>
          rpc'[t] = rpc[t] /\ reg'[t] = reg[t] /\ held'[t] = held[t] /\ (Clean(t)' => Clean(t))
    BY <1>0, <2>1 DEF Clean, Busy
  <2>3. /\ rpc'[r] = IF u = Guest THEN "purge" ELSE "find"
        /\ reg'[r] = [user |-> u, endpoint |-> e]
    BY <1>0, <2>1
  <2>4. \A t \in Handlers : t # r /\ Clean(t)' /\ Clean(r)' => reg[t].endpoint # e
    <3> SUFFICES ASSUME NEW t \in Handlers, t # r, Clean(t)', Clean(r)', reg[t].endpoint = e
                 PROVE  FALSE
      OBVIOUS
    <3>1. t \in Busy
      BY <2>2 DEF Clean
    <3>2. t \in Rivals(u, e)
      BY <3>1 DEF Rivals
    <3> QED BY <2>1, <2>3, <3>2 DEF Clean
  <2>5. Rows'
    <3>1. \A t \in Busy' : reg'[t] \in Row /\ (rpc'[t] = "find" => reg'[t].user # Guest)
      BY <1>0, <2>2, <2>3 DEF Rows, Busy, Row
    <3>2. \A q, t \in Handlers :
            Clean(q)' /\ Clean(t)' /\ q # t => reg'[q].endpoint # reg'[t].endpoint
      <4> SUFFICES ASSUME NEW q \in Handlers, NEW t \in Handlers, Clean(q)', Clean(t)', q # t
                   PROVE  reg'[q].endpoint # reg'[t].endpoint
        OBVIOUS
      <4>1. CASE q = r
        BY <2>2, <2>3, <2>4, <4>1
      <4>2. CASE t = r
        BY <2>2, <2>3, <2>4, <4>2
      <4>3. CASE q # r /\ t # r
        BY <1>0, <2>2, <4>3 DEF Rows
      <4> QED BY <4>1, <4>2, <4>3
    <3> QED BY <3>1, <3>2 DEF Rows
  <2>6. ASSUME Clean(r)' PROVE Apart(r)'
    BY <1>0, <2>1, <2>3 DEF Apart
  <2>7. ASSUME NEW t \in Handlers, t # r, Clean(t)' PROVE Apart(t)'
    <3>1. Clean(t) /\ rpc'[t] = rpc[t] /\ reg'[t] = reg[t] /\ held'[t] = held[t]
      BY <2>2, <2>7
    <3>2. registered'[reg[t].endpoint] = Nobody
      BY <1>0, <2>1, <3>1 DEF Apart
    <3>3. \A i \in Ids' : i \in Ids /\ (Live(i)' <=> Live(i)) /\ clients'[i] = clients[i]
      BY <2>1 DEF Ids, Live
    <3>4. Live(held[t]) => Live(held[t])'
      BY <2>1, <3>1 DEF Live
    <3> QED BY <3>1, <3>2, <3>3, <3>4, Undisturbed
  <2> QED BY <2>5, <2>6, <2>7
<1>2. ASSUME NEW r \in Handlers, FindClient(r) PROVE Goal
  <2>1. PICK i : /\ held' = [held EXCEPT ![r] = i]
                 /\ rpc' = [rpc EXCEPT ![r] = AfterFind(r, i)]
                 /\ i # 0 => i \in DOMAIN slave
                 /\ i # 0 /\ clients[i] # slave[i] => reg[r].endpoint \in clashed'
                 /\ i # 0 => slave[i] # Gone
    BY <1>2 DEF FindClient, RGoto, RowsOf
  <2>2. rpc[r] = "find" /\ UNCHANGED <<clients, reg, registered>>
    BY <1>2 DEF FindClient, tables
  <2>3. AfterFind(r, i) \in {"idle", "purge", "save", "update", "reinsert"}
        /\ AfterFind(r, i) \in {"save", "purge"}
        /\ (AfterFind(r, i) = "save" => i # 0 /\ slave[i].endpoint = reg[r].endpoint)
    BY DEF AfterFind
  <2>4. /\ Rows'
        /\ \A t \in Handlers : Clean(t)' => Clean(t)
        /\ \A t \in Handlers : t # r => rpc'[t] = rpc[t]
        /\ rpc'[r] = AfterFind(r, i)
    BY <1>0, <2>1, <2>2, <2>3, SameRequest
  <2>5. ASSUME NEW t \in Handlers, t # r, Clean(t)' PROVE Apart(t)'
    <3>1. Clean(t) /\ rpc'[t] = rpc[t] /\ held'[t] = held[t]
      BY <1>0, <2>1, <2>4, <2>5
    <3>2. registered'[reg[t].endpoint] = Nobody
      BY <1>0, <2>2, <3>1 DEF Apart
    <3>3. \A j \in Ids' : j \in Ids /\ (Live(j)' <=> Live(j)) /\ clients'[j] = clients[j]
      BY <2>2 DEF Ids, Live
    <3>4. Live(held[t]) => Live(held[t])'
      BY <2>2, <3>1 DEF Live
    <3> QED BY <2>2, <3>1, <3>2, <3>3, <3>4, Undisturbed
  <2>6. ASSUME Clean(r)' PROVE Apart(r)'
    <3>1. Clean(r) /\ Apart(r) /\ reg[r].endpoint \notin clashed'
      BY <1>0, <2>2, <2>4, <2>6 DEF Clean
    <3>2. registered'[reg'[r].endpoint] = Nobody /\ rpc'[r] \in {"save", "purge"}
          /\ held'[r] = i
      BY <1>0, <2>1, <2>2, <2>3, <2>4, <3>1 DEF Apart
    <3>3. ASSUME rpc'[r] = "save", NEW j \in Ids, Live(j), clients[j].endpoint = reg[r].endpoint
          PROVE  j = i
      <4>1. i # 0 /\ slave[i].endpoint = reg[r].endpoint /\ slave[i] # Gone
        BY <2>1, <2>3, <2>4, <3>3
      <4>2. clients[i] = slave[i]
        BY <2>1, <3>1, <4>1
      <4>3. i \in Ids
        <5>1. PICK first \in Seq(Row) : RowsComeFrom(first)
          BY DEF PushInv, RowsHaveOrigin
        <5>2. Len(slave) <= Len(clients) /\ slave \in Table /\ Len(clients) \in Nat
          BY <1>0, <5>1 DEF RowsComeFrom, FitsFirst, PushTypeOK, Table
        <5> QED BY <1>0, <2>1, <4>1, <5>2 DEF Table
      <4>4. OneRow(clients)
        BY DEF PushInv, CopiesHaveOneRow
      <4>5. reg[r].endpoint \notin clashed
        BY <1>0, <3>1
      <4> QED BY <3>3, <4>1, <4>2, <4>3, <4>4, <4>5 DEF OneRow, Live, Ids
    <3>4. \A j \in Ids' : j \in Ids /\ (Live(j)' <=> Live(j)) /\ clients'[j] = clients[j]
      BY <2>2 DEF Ids, Live
    <3> QED BY <2>2, <3>2, <3>3, <3>4 DEF Apart
  <2> QED BY <2>4, <2>5, <2>6
<1>3. ASSUME NEW r \in Handlers, Purge(r) PROVE Goal
  <2> DEFINE hit == {i \in Ids : Live(i) /\ clients[i].endpoint = reg[r].endpoint}
  <2>1. /\ rpc[r] = "purge" /\ UNCHANGED <<reg, held, registered>>
        /\ clashed' = clashed \cup {reg[t].endpoint : t \in {q \in Busy \ {r} : held[q] \in hit}}
        /\ rpc' = [rpc EXCEPT ![r] = "save"]
    BY <1>3 DEF Purge, RGoto
  <2>2. /\ Rows'
        /\ \A t \in Handlers : Clean(t)' => Clean(t)
        /\ \A t \in Handlers : t # r => rpc'[t] = rpc[t]
        /\ rpc'[r] = "save"
    BY <1>0, <2>1, SameRequest
  <2>3. /\ Ids' = Ids
        /\ \A i \in Ids : clients'[i] = IF i \in hit THEN Gone ELSE clients[i]
    BY <1>0, <1>3, PurgeTable DEF Ids, Table
  <2>4. ASSUME Clean(r)' PROVE Apart(r)'
    <3>1. registered'[reg'[r].endpoint] = Nobody
      BY <1>0, <2>1, <2>2, <2>4 DEF Apart
    <3>2. \A i \in Ids' : ~ (Live(i)' /\ clients'[i].endpoint = reg[r].endpoint)
      BY <2>3 DEF Live
    <3> QED BY <2>1, <2>2, <3>1, <3>2 DEF Apart
  <2>5. ASSUME NEW t \in Handlers, t # r, Clean(t)' PROVE Apart(t)'
    <3>1. Clean(t) /\ rpc'[t] = rpc[t] /\ t \in Busy \ {r} /\ reg[t].endpoint \notin clashed'
      BY <2>1, <2>2, <2>5 DEF Clean
    <3>2. registered'[reg[t].endpoint] = Nobody
      BY <1>0, <2>1, <3>1 DEF Apart
    <3>3. \A i \in Ids' : Live(i)' => i \in Ids /\ Live(i) /\ clients'[i] = clients[i]
      BY <2>3 DEF Live
    <3>4. rpc[t] = "update" /\ Live(held[t]) => Live(held[t])'
      <4>1. held[t] \notin hit
        BY <2>1, <3>1
      <4>2. rpc[t] = "update" => held[t] \in Ids
        BY <1>a
      <4> HIDE DEF hit
      <4>3. held'[t] = held[t]
        BY <2>1
      <4> QED BY <2>3, <4>1, <4>2, <4>3 DEF Live
    <3> QED BY <2>1, <3>1, <3>2, <3>3, <3>4, Undisturbed
  <2> QED BY <2>2, <2>4, <2>5
<1>b. ASSUME NEW r \in Handlers, r \in Busy, rpc' = [rpc EXCEPT ![r] = "idle"],
             UNCHANGED <<reg, held>>,
             \A t \in Handlers : Clean(t) /\ Clean(t)' /\ t # r =>
               /\ registered'[reg[t].endpoint] = Nobody
               /\ \A i \in Ids' : Live(i)' /\ clients'[i].endpoint = reg[t].endpoint =>
                    i \in Ids /\ Live(i) /\ clients[i].endpoint = reg[t].endpoint
               /\ rpc[t] = "update" /\ Live(held[t]) => Live(held[t])'
      PROVE  Goal
  <2>1. rpc[r] # "idle"
    BY <1>b DEF Busy
  <2>2. /\ Rows'
        /\ \A t \in Handlers : Clean(t)' => Clean(t)
        /\ \A t \in Handlers : t # r => rpc'[t] = rpc[t]
        /\ rpc'[r] = "idle"
    BY <1>0, <1>b, <2>1, SameRequest
  <2>3. ~ Clean(r)'
    BY <2>2 DEF Clean, Busy
  <2>4. ASSUME NEW t \in Handlers, t # r, Clean(t)' PROVE Apart(t)'
    <3>1. Clean(t) /\ rpc'[t] = rpc[t]
      BY <2>2, <2>4
    <3> QED BY <1>b, <2>4, <3>1, Undisturbed
  <2> QED BY <2>2, <2>3, <2>4
<1>4. ASSUME NEW r \in Handlers, InsertClient(r) PROVE Goal
  <2>1. /\ r \in Busy /\ Accept(r) /\ Store(Append(clients, reg[r])) /\ reg[r] \in Row
        /\ rpc' = [rpc EXCEPT ![r] = "idle"] /\ UNCHANGED <<reg, held>>
    BY <1>0, <1>4 DEF InsertClient, Busy, Rows, Accept, RGoto
  <2>2. /\ clients' \in Table /\ Len(clients') = Len(clients) + 1
        /\ clients'[Len(clients) + 1] = reg[r]
        /\ \A j \in 1 .. Len(clients) : clients'[j] = clients[j]
    BY <1>0, <2>1, AppendTable
  <2>3. Ids' = 1 .. Len(clients') /\ Len(clients) \in Nat
    BY <1>0, <2>2 DEF Ids, Table
  <2>4. ASSUME NEW t \in Handlers, Clean(t), t # r
        PROVE  /\ registered'[reg[t].endpoint] = Nobody
               /\ \A i \in Ids' : Live(i)' /\ clients'[i].endpoint = reg[t].endpoint =>
                    i \in Ids /\ Live(i) /\ clients[i].endpoint = reg[t].endpoint
               /\ rpc[t] = "update" /\ Live(held[t]) => Live(held[t])'
    <3>1. registered'[reg[t].endpoint] = Nobody /\ reg[t].endpoint # reg[r].endpoint
      BY <2>1, <2>4, AcceptApart
    <3>2. \A i \in Ids' : i \in Ids \/ clients'[i] = reg[r]
      BY <1>0, <2>2, <2>3
    <3>3. rpc[t] = "update" /\ Live(held[t]) => Live(held[t])'
      BY <1>0, <1>a, <2>1, <2>2 DEF Live
    <3>4. \A i \in Ids : clients'[i] = clients[i]
      BY <1>0, <2>2
    <3> QED BY <3>1, <3>2, <3>3, <3>4 DEF Live
  <2> QED BY <1>b, <2>1, <2>4
<1>5. ASSUME NEW r \in Handlers, UpdateClient(r) \/ ReinsertClient(r) PROVE Goal
  <2>1. /\ r \in Busy /\ rpc' = [rpc EXCEPT ![r] = "idle"] /\ UNCHANGED <<reg, held>>
    BY <1>5 DEF UpdateClient, ReinsertClient, Busy, Accept, RGoto
  <2>2. ASSUME NEW t \in Handlers, Clean(t), t # r
        PROVE  /\ registered'[reg[t].endpoint] = Nobody
               /\ \A i \in Ids' : Live(i)' /\ clients'[i].endpoint = reg[t].endpoint =>
                    i \in Ids /\ Live(i) /\ clients[i].endpoint = reg[t].endpoint
               /\ rpc[t] = "update" /\ Live(held[t]) => Live(held[t])'
    <3>1. CASE UNCHANGED <<clients, slave, ships>>
      <4>1. Accept(r) \/ UNCHANGED registered
        BY <1>5 DEF UpdateClient, ReinsertClient
      <4>2. registered'[reg[t].endpoint] = Nobody
        BY <1>0, <2>1, <2>2, <4>1, AcceptApart DEF Apart
      <4> QED BY <2>1, <3>1, <4>2 DEF Live, Ids
    <3>2. CASE ~ UNCHANGED <<clients, slave, ships>>
      <4>1. /\ held[r] \in 1 .. Len(clients) /\ reg[r] \in Row /\ Accept(r)
            /\ clients' \in Table /\ Len(clients') = Len(clients)
            /\ clients'[held[r]] = reg[r]
            /\ \A j \in 1 .. Len(clients) : j # held[r] => clients'[j] = clients[j]
        BY <1>5, <3>2, UpdateTable
      <4>2. registered'[reg[t].endpoint] = Nobody /\ reg[t].endpoint # reg[r].endpoint
        BY <2>1, <2>2, <4>1, AcceptApart
      <4>3. Ids' = Ids
        BY <1>0, <4>1 DEF Ids, Table
      <4>4. rpc[t] = "update" /\ Live(held[t]) => Live(held[t])'
        BY <1>0, <1>a, <2>1, <4>1, GoneIsNoRow DEF Live
      <4> QED BY <1>0, <4>1, <4>2, <4>3, <4>4 DEF Live
    <3> QED BY <3>1, <3>2
  <2> QED BY <1>b, <2>1, <2>2
<1>6. ASSUME NEW r \in Handlers, ReloadClient(r) PROVE Goal
  <2>1. /\ rpc[r] = "save" /\ UNCHANGED <<clients, reg, held, registered>>
    BY <1>6 DEF ReloadClient, tables
  <2> DEFINE l == IF Live(held[r]) THEN "update" ELSE "reinsert"
  <2>2. rpc' = [rpc EXCEPT ![r] = l] /\ l \in {"update", "reinsert"}
    BY <1>6 DEF ReloadClient, RGoto
  <2>3. l = "update" => Live(held[r])
    OBVIOUS
  <2> HIDE DEF l
  <2>4. /\ Rows'
        /\ \A t \in Handlers : Clean(t)' => Clean(t)
        /\ \A t \in Handlers : t # r => rpc'[t] = rpc[t]
        /\ rpc'[r] = l
    BY <1>0, <2>1, <2>2, SameRequest
  <2>5. ASSUME NEW t \in Handlers, Clean(t)' PROVE Apart(t)'
    <3>1. Clean(t) /\ Apart(t)
      BY <1>0, <2>4, <2>5
    <3>2. rpc'[t] = rpc[t] \/ (t = r /\ rpc[t] = "save" /\ rpc'[t] = l)
      BY <2>1, <2>4
    <3> QED BY <2>1, <2>2, <2>3, <3>1, <3>2 DEF Apart, Live, Ids
  <2> QED BY <2>4, <2>5
<1>7. ASSUME NEW r \in Handlers, RegisterFails(r) PROVE Goal
  <2>1. /\ r \in Busy /\ rpc' = [rpc EXCEPT ![r] = "idle"]
        /\ UNCHANGED <<clients, reg, held, registered>>
    BY <1>7 DEF RegisterFails, RGoto, Busy, tables
  <2>2. ASSUME NEW t \in Handlers, Clean(t)
        PROVE  /\ registered'[reg[t].endpoint] = Nobody
               /\ \A i \in Ids' : Live(i)' /\ clients'[i].endpoint = reg[t].endpoint =>
                    i \in Ids /\ Live(i) /\ clients[i].endpoint = reg[t].endpoint
               /\ rpc[t] = "update" /\ Live(held[t]) => Live(held[t])'
    BY <1>0, <2>1, <2>2 DEF Apart, Live, Ids
  <2> QED BY <1>b, <2>1, <2>2
<1>c. ASSUME UNCHANGED <<rpc, reg, held, registered, clashed>>, Ids' = Ids,
             \A i \in Ids : clients'[i] \in {clients[i], Gone},
             \A t \in Handlers : rpc[t] = "update" => clients'[held[t]] = clients[held[t]]
      PROVE  Goal
  <2>1. \A t \in Handlers : Clean(t)' <=> Clean(t)
    BY <1>c DEF Clean, Busy
  <2>2. Rows'
    BY <1>0, <1>c, <2>1 DEF Rows, Busy
  <2>3. ASSUME NEW t \in Handlers, Clean(t)' PROVE Apart(t)'
    BY <1>0, <1>c, <2>1, <2>3 DEF Apart, Live
  <2> QED BY <2>2, <2>3
<1>8. ASSUME NEW a \in Announcers, Cleanup(a) PROVE Goal
  <2>1. UNCHANGED <<rpc, reg, held, registered, clashed>>
    BY <1>8 DEF Cleanup
  <2>2. CASE UNCHANGED <<clients, slave, ships>>
    BY <1>c, <2>1, <2>2 DEF Ids
  <2>3. CASE ~ UNCHANGED <<clients, slave, ships>>
    <3>1. PICK b \in gone[a] :
              /\ b.row.user = Guest /\ b.id \in 1 .. Len(clients)
              /\ clients' \in Table /\ Len(clients') = Len(clients)
              /\ clients'[b.id] = Gone
              /\ \A j \in 1 .. Len(clients) : j # b.id => clients'[j] = clients[j]
      BY <1>8, <2>3, CleanupTable
    <3>2. Ids' = Ids /\ \A i \in Ids : clients'[i] \in {clients[i], Gone}
      BY <1>0, <3>1 DEF Ids, Table
    <3>3. \A t \in Handlers : rpc[t] = "update" => clients'[held[t]] = clients[held[t]]
      BY <1>0, <1>a, <3>1, CleanedIsNotHeld
    <3> QED BY <1>c, <2>1, <3>2, <3>3
  <2> QED BY <2>2, <2>3
<1>9. ASSUME \/ \E a \in Announcers :
                  Announce(a) \/ FindAll(a) \/ Deliver(a) \/ DeliverFails(a) \/ Finish(a)
             \/ ShipClients \/ UNCHANGED pushvars \/ \E e \in Endpoints : Unsubscribe(e)
      PROVE  Goal
  <2>1. UNCHANGED <<clients, rpc, reg, held, registered, clashed>>
    BY <1>9 DEF Announce, FindAll, Deliver, DeliverFails, Finish, ShipClients, Unsubscribe,
                pushvars, tables
  <2> QED BY <1>c, <2>1 DEF Ids
<1>10. Goal
  <2> HIDE DEF Goal
  <2> QED BY <1>1, <1>2, <1>3, <1>4, <1>5, <1>6, <1>7, <1>8, <1>9
          DEF PushNext, RegStep, SendStep
<1> QED BY <1>10, ApartParts DEF RegistrationsApart, Rows, Apart

-----------------------------------------------------------------------------
(* Accepted registrations.                                                 *)

\* The row that shows it.
Shows(i, e) == i \in Ids /\ clients[i] = [user |-> registered[e], endpoint |-> e]

LEMMA AcceptedStep ==
  ASSUME PushInv, [PushNext]_pushvars
  PROVE  AcceptedStaysRegistered'
<1> SUFFICES ASSUME NEW e \in Endpoints, registered'[e] # Nobody, e \notin dead' \cup clashed'
             PROVE  \E i : Shows(i, e)'
  BY DEF AcceptedStaysRegistered, Shows
<1> DEFINE Goal == \E i : Shows(i, e)'
<1>0. /\ PushTypeOK /\ RegistrationsApart /\ SendsApart
      /\ clashed \subseteq clashed' /\ e \notin clashed
      /\ rpc \in [Handlers -> {"idle", "find", "purge", "save", "update", "reinsert"}]
      /\ registered \in [Endpoints -> Accounts \cup {Nobody}]
      /\ clients \in Table /\ Ids = 1 .. Len(clients) /\ Len(clients) \in Nat
  BY ClashedGrows DEF PushInv, PushTypeOK, Table, Ids
<1>a. ASSUME registered[e] # Nobody, e \notin dead
      PROVE  \E i : Shows(i, e)
  BY <1>0, <1>a DEF PushInv, AcceptedStaysRegistered, Shows
<1>b. ASSUME registered'[e] = registered[e], dead \subseteq dead', UNCHANGED clients PROVE Goal
  BY <1>a, <1>b DEF Shows, Ids
<1>c. ASSUME NEW r \in Busy, reg[r].endpoint = e
      PROVE  registered[e] = Nobody /\ Clean(r)
  BY <1>0, <1>c DEF RegistrationsApart, Clean, Busy
<1>d. ASSUME NEW r \in Handlers, r \in Busy, Accept(r), reg[r].endpoint # e
      PROVE  /\ registered'[e] = registered[e]
             /\ reg[r].user # Guest => registered[e] # reg[r].user
  BY <1>d DEF Accept
<1>1. ASSUME NEW r \in Handlers, NEW u \in Accounts, NEW f \in Endpoints, Register(r, u, f)
      PROVE  Goal
  <2>1. registered' = [registered EXCEPT ![f] = Nobody] /\ UNCHANGED <<clients, dead>>
    BY <1>1 DEF Register, tables
  <2> QED BY <1>0, <1>b, <2>1
<1>2. ASSUME NEW r \in Handlers, FindClient(r) \/ ReloadClient(r) \/ RegisterFails(r) PROVE Goal
  <2>1. UNCHANGED <<clients, dead, registered>>
    BY <1>2 DEF FindClient, ReloadClient, RegisterFails, tables
  <2> QED BY <1>b, <2>1
<1>3. ASSUME NEW r \in Handlers, Purge(r) PROVE Goal
  <2>1. r \in Busy /\ UNCHANGED <<registered, dead>>
    BY <1>3 DEF Purge, Busy
  <2>2. reg[r].endpoint # e
    BY <1>c, <2>1
  <2>3. PICK i : Shows(i, e)
    BY <1>a, <2>1
  <2>4. Ids' = Ids /\ clients'[i] = clients[i]
    BY <1>0, <1>3, <2>2, <2>3, PurgeTable DEF Ids, Table, Shows
  <2> QED BY <2>1, <2>3, <2>4 DEF Shows
<1>4. ASSUME NEW r \in Handlers, InsertClient(r) PROVE Goal
  <2>1. /\ r \in Busy /\ Accept(r) /\ Store(Append(clients, reg[r])) /\ reg[r] \in Row
        /\ UNCHANGED dead
    BY <1>0, <1>4 DEF InsertClient, Busy, RegistrationsApart
  <2>2. /\ clients' \in Table /\ Len(clients') = Len(clients) + 1
        /\ clients'[Len(clients) + 1] = reg[r]
        /\ \A j \in 1 .. Len(clients) : clients'[j] = clients[j]
    BY <1>0, <2>1, AppendTable
  <2>3. Ids' = 1 .. Len(clients')
    BY <2>2 DEF Ids, Table
  <2>4. CASE reg[r].endpoint = e
    <3>1. registered'[e] = reg[r].user
      BY <2>1, <2>4 DEF Accept
    <3>2. reg[r] = [user |-> reg[r].user, endpoint |-> e]
      BY <2>1, <2>4 DEF Row
    <3>3. Len(clients) + 1 \in Ids'
      BY <1>0, <2>2, <2>3
    <3>4. clients'[Len(clients) + 1] = [user |-> registered'[e], endpoint |-> e]
      BY <2>2, <3>1, <3>2
    <3> DEFINE new == Len(clients) + 1
    <3>5. new \in Ids' /\ clients'[new] = [user |-> registered'[e], endpoint |-> e]
      BY <3>3, <3>4
    <3> HIDE DEF new
    <3> QED BY <3>5 DEF Shows
  <2>5. CASE reg[r].endpoint # e
    <3>1. registered'[e] = registered[e]
      BY <1>d, <2>1, <2>5
    <3>2. PICK i : Shows(i, e)
      BY <1>a, <2>1, <3>1
    <3>3. i \in Ids' /\ clients'[i] = clients[i]
      BY <1>0, <2>2, <2>3, <3>2 DEF Shows
    <3> QED BY <3>1, <3>2, <3>3 DEF Shows
  <2> QED BY <2>4, <2>5
<1>5. ASSUME NEW r \in Handlers, UpdateClient(r) \/ ReinsertClient(r) PROVE Goal
  <2>1. r \in Busy /\ UNCHANGED dead
    BY <1>5 DEF UpdateClient, ReinsertClient, Busy
  <2>2. CASE /\ UNCHANGED <<clients, slave, ships>>
             /\ UNCHANGED registered \/ (Accept(r) /\ rpc[r] = "update" /\ ~ Live(held[r]))
    <3>1. registered'[e] = registered[e]
      <4>1. CASE UNCHANGED registered
        BY <4>1
      <4>2. CASE Accept(r) /\ rpc[r] = "update" /\ ~ Live(held[r])
        <5>1. reg[r].endpoint # e
          BY <1>0, <1>c, <2>1, <4>2 DEF RegistrationsApart
        <5> QED BY <1>d, <2>1, <4>2, <5>1
      <4> QED BY <2>2, <4>1, <4>2
    <3> QED BY <1>b, <2>1, <2>2, <3>1
  <2>3. CASE /\ held[r] \in 1 .. Len(clients) /\ reg[r] \in Row /\ Accept(r)
             /\ clients' \in Table /\ Len(clients') = Len(clients)
             /\ clients'[held[r]] = reg[r]
             /\ \A j \in 1 .. Len(clients) : j # held[r] => clients'[j] = clients[j]
    <3>1. Ids' = Ids
      BY <1>0, <2>3 DEF Ids, Table
    <3>2. CASE reg[r].endpoint = e
      <4>1. registered'[e] = reg[r].user
        BY <2>3, <3>2 DEF Accept
      <4>2. reg[r] = [user |-> reg[r].user, endpoint |-> e]
        BY <2>3, <3>2 DEF Row
      <4> DEFINE own == held[r]
      <4>3. own \in Ids' /\ clients'[own] = [user |-> registered'[e], endpoint |-> e]
        BY <1>0, <2>3, <3>1, <4>1, <4>2
      <4> HIDE DEF own
      <4> QED BY <4>3 DEF Shows
    <3>3. CASE reg[r].endpoint # e
      <4>1. PICK first \in Seq(Row) : RowsComeFrom(first)
        BY DEF PushInv, RowsHaveOrigin
      <4>2. held[r] # 0 /\ reg[r].user # Guest /\ reg[r].user = first[held[r]].user
        BY <2>3, <4>1, HeldOfRegistrations
      <4>3. registered'[e] = registered[e] /\ registered[e] # reg[r].user
        BY <1>d, <2>1, <2>3, <3>3, <4>2
      <4>4. PICK i : Shows(i, e)
        BY <1>a, <2>1, <4>3
      <4>5. clients[i].user = registered[e] /\ clients[i] # Gone /\ i \in 1 .. Len(clients)
        BY <1>0, <4>4 DEF Shows, Gone
      <4>6. clients[i].user = first[i].user
        BY <4>1, <4>5 DEF RowsComeFrom, FitsFirst, From
      <4>7. clients'[i] = clients[i]
        BY <2>3, <4>2, <4>3, <4>5, <4>6
      <4> QED BY <3>1, <4>3, <4>4, <4>7 DEF Shows
    <3> QED BY <3>2, <3>3
  <2> QED BY <1>5, <2>2, <2>3, UpdateTable
<1>6. ASSUME NEW a \in Announcers, Cleanup(a) PROVE Goal
  <2>1. UNCHANGED <<registered, dead>>
    BY <1>6 DEF Cleanup
  <2>2. CASE UNCHANGED <<clients, slave, ships>>
    BY <1>b, <2>1, <2>2
  <2>3. CASE ~ UNCHANGED <<clients, slave, ships>>
    <3>1. PICK b \in gone[a] :
              /\ b.row.user = Guest /\ b.id \in 1 .. Len(clients)
              /\ clients' \in Table /\ Len(clients') = Len(clients)
              /\ \A j \in 1 .. Len(clients) : j # b.id => clients'[j] = clients[j]
      BY <1>6, <2>3, CleanupTable
    <3>2. PICK i : Shows(i, e)
      BY <1>a, <2>1
    <3>3. clients[i] # Gone /\ clients[i].endpoint = e
      BY <3>2 DEF Shows, Gone
    <3>4. b.row.endpoint \in dead /\ (Live(b.id) => clients[b.id] = b.row)
      BY <1>0, <3>1 DEF SendsApart, PushTypeOK
    <3>5. i # b.id
      BY <2>1, <3>3, <3>4 DEF Live
    <3>6. Ids' = Ids
      BY <1>0, <3>1 DEF Ids, Table
    <3>7. clients'[i] = clients[i]
      BY <1>0, <3>1, <3>2, <3>5 DEF Shows
    <3> QED BY <2>1, <3>2, <3>6, <3>7 DEF Shows
  <2> QED BY <2>2, <2>3
<1>7. ASSUME \/ \E a \in Announcers :
                  Announce(a) \/ FindAll(a) \/ Deliver(a) \/ DeliverFails(a) \/ Finish(a)
             \/ ShipClients \/ UNCHANGED pushvars \/ \E f \in Endpoints : Unsubscribe(f)
      PROVE  Goal
  <2>1. UNCHANGED <<clients, registered>> /\ dead \subseteq dead'
    BY <1>7 DEF Announce, FindAll, Deliver, DeliverFails, Finish, ShipClients, Unsubscribe,
                pushvars, tables
  <2> QED BY <1>b, <2>1
<1>8. Goal
  <2> HIDE DEF Goal
  <2> QED BY <1>1, <1>2, <1>3, <1>4, <1>5, <1>6, <1>7 DEF PushNext, RegStep, SendStep
<1> QED BY <1>8

-----------------------------------------------------------------------------
(* Announcements.                                                          *)

\* What one announcement has still to send and to clean up.
SendApart(a) ==
  /\ \A e \in Endpoints \ clashed :
       /\ \A b, c \in batch[a] : b.row.endpoint = e /\ c.row.endpoint = e => b = c
       /\ told[a][e] <= 1
       /\ told[a][e] = 1 => \A b \in batch[a] : b.row.endpoint # e
  /\ \A b \in gone[a] : b.row.endpoint \in dead

LEMMA SendsParts == SendsApart <=> \A a \in Announcers : SendApart(a)
BY DEF SendsApart, SendApart

LEMMA SendsStep ==
  ASSUME PushInv, [PushNext]_pushvars
  PROVE  SendsApart'
<1> DEFINE Goal == \A a \in Announcers : SendApart(a)'
<1> USE DEF sendvars, tables
<1>0. /\ clashed \subseteq clashed' /\ dead \subseteq dead'
      /\ \A a \in Announcers : SendApart(a)
      /\ batch \in [Announcers -> SUBSET [id : Nat, row : Row]]
      /\ gone \in [Announcers -> SUBSET [id : Nat, row : Row]]
      /\ told \in [Announcers -> [Endpoints -> Nat]]
  <2>1. dead \subseteq dead'
    BY DEF PushNext, RegStep, SendStep, Register, FindClient, Purge, InsertClient, ReloadClient,
       UpdateClient, ReinsertClient, RegisterFails, Announce, FindAll, Deliver, DeliverFails,
       Cleanup, Finish, Unsubscribe, ShipClients, pushvars
  <2> QED BY <2>1, ClashedGrows, SendsParts DEF PushInv, PushTypeOK
<1>a. ASSUME \A a \in Announcers : batch'[a] \subseteq batch[a] /\ gone'[a] \subseteq gone[a],
             UNCHANGED told
      PROVE  Goal
  BY <1>0, <1>a DEF SendApart
<1>1. ASSUME NEW a \in Announcers, FindAll(a) PROVE Goal
  <2> DEFINE rows == {[id |-> i, row |-> slave[i]] : i \in {j \in DOMAIN slave : slave[j] # Gone}}
             none == [e \in Endpoints |-> 0]
  <2>1. OneRow(slave)
    BY DEF PushInv, CopiesHaveOneRow
  <2>2. \A b, c \in rows :
          b.row.endpoint = c.row.endpoint /\ b.row.endpoint \notin clashed => b = c
    BY <2>1 DEF OneRow
  <2>3. \A e \in Endpoints : none[e] = 0
    OBVIOUS
  <2>4. /\ batch' = [batch EXCEPT ![a] = rows]
        /\ told' = [told EXCEPT ![a] = none]
        /\ UNCHANGED gone
    BY <1>1 DEF FindAll
  <2> HIDE DEF rows, none
  <2>5. batch'[a] = rows /\ told'[a] = none
    BY <1>0, <2>4
  <2>6. SendApart(a)'
    <3>1. \A e \in Endpoints \ clashed' :
            /\ \A b, c \in rows : b.row.endpoint = e /\ c.row.endpoint = e => b = c
            /\ none[e] <= 1 /\ none[e] # 1
      BY <1>0, <2>2, <2>3
    <3>2. \A b \in gone'[a] : b.row.endpoint \in dead'
      BY <1>0, <2>4 DEF SendApart
    <3> QED BY <2>5, <3>1, <3>2 DEF SendApart
  <2>7. ASSUME NEW b \in Announcers, b # a PROVE SendApart(b)'
    <3>1. batch'[b] = batch[b] /\ told'[b] = told[b] /\ gone'[b] = gone[b]
      BY <1>0, <2>4, <2>7
    <3> QED BY <1>0, <3>1 DEF SendApart
  <2> QED BY <2>6, <2>7
<1>2. ASSUME NEW a \in Announcers, Deliver(a) PROVE Goal
  <2>1. PICK b \in batch[a] :
          /\ batch' = [batch EXCEPT ![a] = batch[a] \ {b}]
          /\ IF b.row.endpoint \in dead
             THEN gone' = [gone EXCEPT ![a] = gone[a] \cup {b}] /\ UNCHANGED told
             ELSE told' = [told EXCEPT ![a][b.row.endpoint] = @ + 1] /\ UNCHANGED gone
    BY <1>2 DEF Deliver
  <2>2. batch'[a] = batch[a] \ {b} /\ SendApart(a)
    BY <1>0, <2>1
  <2>3. ASSUME NEW c \in Announcers, c # a PROVE SendApart(c)'
    <3>1. batch'[c] = batch[c] /\ told'[c] = told[c] /\ gone'[c] = gone[c]
      BY <1>0, <2>1, <2>3
    <3> QED BY <1>0, <3>1 DEF SendApart
  <2>4. CASE b.row.endpoint \in dead
    <3>1. gone'[a] = gone[a] \cup {b} /\ told' = told
      BY <1>0, <2>1, <2>4
    <3>2. SendApart(a)'
      BY <1>0, <2>2, <2>4, <3>1 DEF SendApart
    <3> QED BY <2>3, <3>2
  <2>5. CASE b.row.endpoint \notin dead
    <3> DEFINE f == b.row.endpoint
    <3>1. told' = [told EXCEPT ![a][f] = @ + 1] /\ gone' = gone /\ f \in Endpoints
      BY <1>0, <2>1, <2>5 DEF Row
    <3>2. told'[a][f] = told[a][f] + 1 /\ told[a][f] \in Nat
      BY <1>0, <3>1
    <3>3. \A e \in Endpoints : e # f => told'[a][e] = told[a][e]
      BY <1>0, <3>1
    <3>4. f \notin clashed => told[a][f] = 0 /\ \A c \in batch'[a] : c.row.endpoint # f
      BY <2>2, <3>1, <3>2 DEF SendApart
    <3> HIDE DEF f
    <3>5. SendApart(a)'
      <4>1. ASSUME NEW e \in Endpoints \ clashed', e # f
            PROVE  /\ \A q, c \in batch'[a] : q.row.endpoint = e /\ c.row.endpoint = e => q = c
                   /\ told'[a][e] <= 1
                   /\ told'[a][e] = 1 => \A q \in batch'[a] : q.row.endpoint # e
        BY <1>0, <2>2, <3>3, <4>1 DEF SendApart
      <4>2. ASSUME f \in Endpoints \ clashed'
            PROVE  /\ \A q, c \in batch'[a] : q.row.endpoint = f /\ c.row.endpoint = f => q = c
                   /\ told'[a][f] <= 1
                   /\ told'[a][f] = 1 => \A q \in batch'[a] : q.row.endpoint # f
        BY <1>0, <3>2, <3>4, <4>2
      <4>3. \A q \in gone'[a] : q.row.endpoint \in dead'
        BY <1>0, <2>2, <3>1 DEF SendApart
      <4> QED BY <4>1, <4>2, <4>3 DEF SendApart
    <3> QED BY <2>3, <3>5
  <2> QED BY <2>4, <2>5
<1>3. ASSUME NEW a \in Announcers, DeliverFails(a) \/ Cleanup(a) PROVE Goal
  <2>1. CASE DeliverFails(a)
    BY <1>0, <1>a, <2>1 DEF DeliverFails
  <2>2. CASE Cleanup(a)
    BY <1>0, <1>a, <2>2 DEF Cleanup
  <2> QED BY <1>3, <2>1, <2>2
<1>4. ASSUME \/ \E r \in Handlers : RegStep(r) \/ \E u \in Accounts, e \in Endpoints : Register(r, u, e)
             \/ \E a \in Announcers : Announce(a) \/ Finish(a)
             \/ ShipClients \/ UNCHANGED pushvars \/ \E e \in Endpoints : Unsubscribe(e)
      PROVE  Goal
  <2>1. UNCHANGED <<batch, gone, told>>
    BY <1>4 DEF RegStep, Register, FindClient, Purge, InsertClient, ReloadClient, UpdateClient,
                ReinsertClient, RegisterFails, Announce, Finish, ShipClients, Unsubscribe, pushvars
  <2> QED BY <1>a, <2>1
<1>5. Goal
  <2> HIDE DEF Goal
  <2> QED BY <1>1, <1>2, <1>3, <1>4 DEF PushNext, SendStep
<1> QED BY <1>5 DEF SendsApart, SendApart

-----------------------------------------------------------------------------
(* The theorems.                                                           *)

LEMMA PushInvStep == PushInv /\ [PushNext]_pushvars => PushInv'
BY TypeStep, OriginStep, OneRowStep, RegistrationsStep, AcceptedStep, SendsStep DEF PushInv

LEMMA PushInvAlways == PushSpec => []PushInv
BY PushInitInv, PushInvStep, PTL DEF PushSpec

\* PushTypeOK holds always: a registration that updates has found a row, and
\* what an announcement has read of a visitor is still the content of its row.
THEOREM PushTypeCorrect == PushSpec => []PushTypeOK
<1>1. PushInv => PushTypeOK
  BY DEF PushInv
<1> QED BY <1>1, PushInvAlways, PTL

\* An endpoint that never clashed has one row at most, whatever the
\* registrations, announcements and replication of updateClientsInfo do.
THEOREM OneRowAlways == PushSpec => []OneRowPerEndpoint
<1>1. PushInv => OneRowPerEndpoint
  BY DEF PushInv, CopiesHaveOneRow, OneRow, OneRowPerEndpoint, Ids, Live
<1> QED BY <1>1, PushInvAlways, PTL

\* An accepted registration keeps its row: the delete by endpoint, the update
\* of a row found and the clean-up after a 410 never take it away.
THEOREM AcceptedAlways == PushSpec => []AcceptedStaysRegistered
<1>1. PushInv => AcceptedStaysRegistered
  BY DEF PushInv
<1> QED BY <1>1, PushInvAlways, PTL

\* sendAllNotifications tells an endpoint that never clashed once at most.
THEOREM ToldOnceAlways == PushSpec => []ToldOnce
<1>1. ASSUME PushInv PROVE ToldOnce
  <2>1. told \in [Announcers -> [Endpoints -> Nat]]
    BY <1>1 DEF PushInv, PushTypeOK
  <2> QED BY <1>1, <2>1, SendsParts DEF PushInv, SendApart, ToldOnce
<1> QED BY <1>1, PushInvAlways, PTL
=============================================================================
