---------------------------- MODULE PushClients -----------------------------
(***************************************************************************)
(* The subscriptions of browsers to web push: updateClientsInfo of         *)
(* src/src/users/users.service.ts registers them, sendAllNotifications of  *)
(* src/src/alarm/alarm.service.ts sends to them and removes those that the *)
(* push service says are gone (410).                                       *)
(*                                                                         *)
(* The clients table has no unique column but its id; an id is a position  *)
(* of clients.  Only the row of a visitor carries a clientId, a fresh uuid *)
(* for every registration, so such a row never changes; the delete by      *)
(* clientId that follows a 410 reaches no signed-in user's row, where the  *)
(* column is NULL.                                                         *)
(***************************************************************************)
EXTENDS Naturals, Sequences, FiniteSets

CONSTANTS
  Handlers,    \* registrations in flight
  Announcers,  \* announcements in flight
  Users,       \* accounts
  Guest,       \* req.id of a visitor (undefined)
  Endpoints,   \* subscriptions the push service has handed out
  MaxRegs, MaxRounds, MaxDeaths, MaxFaults   \* bounds

ASSUME ClientAssumption ==
  /\ Guest \notin Users
  /\ (Users \cup {Guest}) \cap Endpoints = {}
  /\ "none" \notin Endpoints   \* the endpoint of a row that is gone

ASSUME ClientBounds ==
  {MaxRegs, MaxRounds, MaxDeaths, MaxFaults} \subseteq Nat

VARIABLES
  clients,    \* master: the row of each id, Gone once deleted
  slave,      \* the slave's copy
  ships,      \* versions the slave has not applied yet
  dead,       \* endpoints the push service answers 410 for
  rpc, reg, held,   \* registration: label, request, id of the row it found
  spc, batch, gone, told,  \* announcement: label, rows to send to, rows to delete, messages per endpoint
  registered, \* history: the account of each endpoint's last accepted registration
  clashed,    \* history: endpoints and accounts whose registrations overlapped or were misled
  regs, rounds, faults   \* bounded counters

tables == <<clients, slave, ships>>
regvars == <<rpc, reg, held>>
sendvars == <<spc, batch, gone, told>>
pushvars == <<tables, dead, regvars, sendvars, registered, clashed, regs, rounds, faults>>

Accounts == Users \cup {Guest}
Row      == [user : Accounts, endpoint : Endpoints]
Gone     == [user |-> Guest, endpoint |-> "none"]
Nobody   == "nobody"
Ids      == DOMAIN clients
Live(i)  == clients[i] # Gone
Busy     == {r \in Handlers : rpc[r] # "idle"}

PushInit ==
  /\ clients = <<>> /\ slave = <<>> /\ ships = <<>>
  /\ dead = {}
  /\ rpc = [r \in Handlers |-> "idle"]
  /\ reg = [r \in Handlers |-> Gone]
  /\ held = [r \in Handlers |-> 0]
  /\ spc = [a \in Announcers |-> "idle"]
  /\ batch = [a \in Announcers |-> {}] /\ gone = [a \in Announcers |-> {}]
  /\ told = [a \in Announcers |-> [e \in Endpoints |-> 0]]
  /\ registered = [e \in Endpoints |-> Nobody]
  /\ clashed = {}
  /\ regs = 0 /\ rounds = 0 /\ faults = 0

\* A commit reaches the slave later.
Store(table) ==
  /\ clients' = table
  /\ ships' = IF table = clients THEN ships ELSE Append(ships, table)
  /\ UNCHANGED slave

RGoto(r, label) == rpc' = [rpc EXCEPT ![r] = label]

-----------------------------------------------------------------------------
(* updateClientsInfo                                                       *)

\* Requests in flight for the same endpoint or the same account.
Rivals(u, e) ==
  {t \in Busy : \/ reg[t].endpoint = e
                \/ u # Guest /\ reg[t].user = u}

\* Mutation: visitors are looked up as well, and share a row.
RegisterAll(r, u, e) ==
  /\ rpc[r] = "idle" /\ regs < MaxRegs /\ e \notin dead
  /\ regs' = regs + 1
  /\ reg' = [reg EXCEPT ![r] = [user |-> u, endpoint |-> e]]
  /\ held' = [held EXCEPT ![r] = 0]
  /\ registered' = [registered EXCEPT ![e] = Nobody]
  /\ RGoto(r, "find")
  /\ UNCHANGED <<tables, dead, sendvars, clashed, rounds, faults>>

Register(r, u, e) ==
  /\ rpc[r] = "idle" /\ regs < MaxRegs /\ e \notin dead
  /\ regs' = regs + 1
  /\ reg' = [reg EXCEPT ![r] = [user |-> u, endpoint |-> e]]
  /\ held' = [held EXCEPT ![r] = 0]
  /\ clashed' = clashed \cup (IF Rivals(u, e) = {} THEN {}
                              ELSE {u, e} \cup {reg[t].endpoint : t \in Rivals(u, e)})
  /\ registered' = [registered EXCEPT ![e] = Nobody]
  /\ RGoto(r, IF u = Guest THEN "purge" ELSE "find")
  /\ UNCHANGED <<tables, dead, sendvars, rounds, faults>>

RowsOf(table, u) == {i \in DOMAIN table : table[i] # Gone /\ table[i].user = u}

\* Mutation: a row the user has already is kept without a look at who else
\* has the endpoint.
AfterFindKeeps(r, i) == IF i # 0 THEN "save" ELSE "purge"

\* The delete is passed over when the row found has the endpoint already.
AfterFind(r, i) ==
  IF i # 0 /\ slave[i].endpoint = reg[r].endpoint THEN "save" ELSE "purge"

\* findOne({ userId }) on the slave.
FindClient(r) ==
  /\ rpc[r] = "find"
  /\ \E i \in IF RowsOf(slave, reg[r].user) = {} THEN {0} ELSE RowsOf(slave, reg[r].user) :
       /\ held' = [held EXCEPT ![r] = i]
       /\ RGoto(r, AfterFind(r, i))
       /\ clashed' = IF IF i = 0 THEN RowsOf(clients, reg[r].user) # {}
                                 ELSE clients[i] # slave[i]
                     THEN clashed \cup {reg[r].user, reg[r].endpoint} ELSE clashed
  /\ UNCHANGED <<tables, dead, reg, sendvars, registered, regs, rounds, faults>>

\* Mutation: only a visitor's registration clears the endpoint.
PurgeGuests(r) ==
  LET hit == {i \in Ids : Live(i) /\ clients[i].endpoint = reg[r].endpoint
                          /\ reg[r].user = Guest}
  IN  /\ rpc[r] = "purge"
      /\ Store([i \in Ids |-> IF i \in hit THEN Gone ELSE clients[i]])
      /\ clashed' = clashed \cup {reg[t].endpoint : t \in {q \in Busy \ {r} : held[q] \in hit}}
      /\ RGoto(r, "save")
      /\ UNCHANGED <<dead, reg, held, sendvars, registered, regs, rounds, faults>>

\* DELETE WHERE endpoint, whoever's row it is.
Purge(r) ==
  LET hit == {i \in Ids : Live(i) /\ clients[i].endpoint = reg[r].endpoint}
  IN  /\ rpc[r] = "purge"
      /\ Store([i \in Ids |-> IF i \in hit THEN Gone ELSE clients[i]])
      /\ clashed' = clashed \cup {reg[t].endpoint : t \in {q \in Busy \ {r} : held[q] \in hit}}
      /\ RGoto(r, "save")
      /\ UNCHANGED <<dead, reg, held, sendvars, registered, regs, rounds, faults>>

\* The request is answered.  A user's other browsers are no longer meant.
Accept(r) ==
  /\ registered' = [e \in Endpoints |->
       IF e = reg[r].endpoint THEN reg[r].user
       ELSE IF reg[r].user # Guest /\ registered[e] = reg[r].user THEN Nobody
       ELSE registered[e]]
  /\ RGoto(r, "idle")

\* save() of a new client.
InsertClient(r) ==
  /\ rpc[r] = "save" /\ held[r] = 0
  /\ Store(Append(clients, reg[r]))
  /\ Accept(r)
  /\ UNCHANGED <<dead, reg, held, sendvars, clashed, regs, rounds, faults>>

\* save() of the row found: it is selected by id from the master first.
ReloadClient(r) ==
  /\ rpc[r] = "save" /\ held[r] # 0
  /\ RGoto(r, IF Live(held[r]) THEN "update" ELSE "reinsert")
  /\ UNCHANGED <<tables, dead, reg, held, sendvars, registered, clashed, regs,
                 rounds, faults>>

UpdateClient(r) ==
  /\ rpc[r] = "update"
  /\ Store(IF Live(held[r]) THEN [clients EXCEPT ![held[r]] = reg[r]] ELSE clients)
  /\ Accept(r)
  /\ UNCHANGED <<dead, reg, held, sendvars, clashed, regs, rounds, faults>>

\* INSERT under the id that was loaded: rejected when it is there again.
ReinsertClient(r) ==
  /\ rpc[r] = "reinsert"
  /\ IF Live(held[r])
     THEN RGoto(r, "idle") /\ UNCHANGED <<tables, registered>>
     ELSE Store([clients EXCEPT ![held[r]] = reg[r]]) /\ Accept(r)
  /\ UNCHANGED <<dead, reg, held, sendvars, clashed, regs, rounds, faults>>

\* A statement is rejected: a purge is not undone.
RegisterFails(r) ==
  /\ rpc[r] # "idle" /\ faults < MaxFaults
  /\ faults' = faults + 1
  /\ RGoto(r, "idle")
  /\ UNCHANGED <<tables, dead, reg, held, sendvars, registered, clashed, regs, rounds>>

-----------------------------------------------------------------------------
(* sendAllNotifications                                                    *)

Announce(a) ==
  /\ spc[a] = "idle" /\ rounds < MaxRounds
  /\ rounds' = rounds + 1
  /\ spc' = [spc EXCEPT ![a] = "find"]
  /\ UNCHANGED <<tables, dead, regvars, batch, gone, told, registered, clashed, regs, faults>>

\* find() on the slave, and a send to every row at once.
FindAll(a) ==
  /\ spc[a] = "find"
  /\ spc' = [spc EXCEPT ![a] = "send"]
  /\ batch' = [batch EXCEPT ![a] =
       {[id |-> i, row |-> slave[i]] : i \in {j \in DOMAIN slave : slave[j] # Gone}}]
  /\ told' = [told EXCEPT ![a] = [e \in Endpoints |-> 0]]
  /\ UNCHANGED <<tables, dead, regvars, gone, registered, clashed, regs, rounds, faults>>

Deliver(a) ==
  /\ \E b \in batch[a] :
       /\ batch' = [batch EXCEPT ![a] = @ \ {b}]
       /\ IF b.row.endpoint \in dead
          THEN gone' = [gone EXCEPT ![a] = @ \cup {b}] /\ UNCHANGED told
          ELSE told' = [told EXCEPT ![a][b.row.endpoint] = @ + 1] /\ UNCHANGED gone
  /\ UNCHANGED <<tables, dead, regvars, spc, registered, clashed, regs, rounds, faults>>

\* Any answer but 410 is logged and nothing else.
DeliverFails(a) ==
  /\ faults < MaxFaults
  /\ faults' = faults + 1
  /\ \E b \in batch[a] : batch' = [batch EXCEPT ![a] = @ \ {b}]
  /\ UNCHANGED <<tables, dead, regvars, spc, gone, told, registered, clashed, regs, rounds>>

\* Mutation: the row is removed by its id, whoever's it is.
CleanupById(a) ==
  /\ \E b \in gone[a] :
       /\ gone' = [gone EXCEPT ![a] = @ \ {b}]
       /\ Store([clients EXCEPT ![b.id] = Gone])
  /\ UNCHANGED <<dead, regvars, spc, batch, told, registered, clashed, regs, rounds, faults>>

\* DELETE WHERE clientId: no row but a visitor's has one.
Cleanup(a) ==
  /\ \E b \in gone[a] :
       /\ gone' = [gone EXCEPT ![a] = @ \ {b}]
       /\ Store(IF b.row.user = Guest THEN [clients EXCEPT ![b.id] = Gone] ELSE clients)
  /\ UNCHANGED <<dead, regvars, spc, batch, told, registered, clashed, regs, rounds, faults>>

\* Promise.all settles when the last send and the last delete have.
Finish(a) ==
  /\ spc[a] = "send" /\ batch[a] = {} /\ gone[a] = {}
  /\ spc' = [spc EXCEPT ![a] = "idle"]
  /\ UNCHANGED <<tables, dead, regvars, batch, gone, told, registered, clashed, regs, rounds, faults>>

-----------------------------------------------------------------------------
\* A browser drops its subscription; the endpoint never comes back.
Unsubscribe(e) ==
  /\ e \notin dead /\ Cardinality(dead) < MaxDeaths
  /\ dead' = dead \cup {e}
  /\ UNCHANGED <<tables, regvars, sendvars, registered, clashed, regs, rounds, faults>>

ShipClients ==
  /\ ships # <<>>
  /\ slave' = Head(ships) /\ ships' = Tail(ships)
  /\ UNCHANGED <<clients, dead, regvars, sendvars, registered, clashed, regs, rounds, faults>>

RegStep(r) ==
  \/ FindClient(r) \/ Purge(r) \/ InsertClient(r) \/ ReloadClient(r)
  \/ UpdateClient(r) \/ ReinsertClient(r) \/ RegisterFails(r)

SendStep(a) ==
  FindAll(a) \/ Deliver(a) \/ DeliverFails(a) \/ Cleanup(a) \/ Finish(a)

PushNext ==
  \/ \E r \in Handlers :
       (\E u \in Accounts, e \in Endpoints : Register(r, u, e)) \/ RegStep(r)
  \/ \E a \in Announcers : Announce(a) \/ SendStep(a)
  \/ \E e \in Endpoints : Unsubscribe(e)
  \/ ShipClients

PushSpec == PushInit /\ [][PushNext]_pushvars

-----------------------------------------------------------------------------
\* Types, and: a request that updates has found a row, what an announcement
\* has read was the content of its row, and a visitor's row never changes.
PushTypeOK ==
  /\ clients \in Seq(Row \cup {Gone}) /\ slave \in Seq(Row \cup {Gone})
  /\ ships \in Seq(Seq(Row \cup {Gone}))
  /\ dead \subseteq Endpoints
  /\ rpc \in [Handlers -> {"idle", "find", "purge", "save", "update", "reinsert"}]
  /\ reg \in [Handlers -> Row \cup {Gone}]
  /\ held \in [Handlers -> 0 .. Len(clients)]
  /\ \A r \in Handlers : rpc[r] \in {"update", "reinsert"} => held[r] # 0
  /\ spc \in [Announcers -> {"idle", "find", "send"}]
  /\ batch \in [Announcers -> SUBSET [id : Nat, row : Row]]
  /\ gone \in [Announcers -> SUBSET [id : Nat, row : Row]]
  /\ \A a \in Announcers :
       \A b \in batch[a] \cup gone[a] :
         /\ b.id \in Ids
         /\ b.row.user = Guest /\ Live(b.id) => clients[b.id] = b.row
  /\ told \in [Announcers -> [Endpoints -> Nat]]
  /\ registered \in [Endpoints -> Accounts \cup {Nobody}]
  /\ clashed \subseteq Accounts \cup Endpoints
  /\ regs \in 0 .. MaxRegs /\ rounds \in 0 .. MaxRounds /\ faults \in 0 .. MaxFaults

\* An endpoint has one row at most, unless registrations for it or for its
\* account overlapped or looked the account up on a slave that lagged: nothing
\* but the order of find, delete and save in updateClientsInfo keeps it so.
OneRowPerEndpoint ==
  \A i, j \in Ids :
    Live(i) /\ Live(j) /\ i # j /\ clients[i].endpoint = clients[j].endpoint =>
      clients[i].endpoint \in clashed

\* A browser whose registration was accepted has a row for as long as neither
\* it nor its account registers anew and its subscription lives, unless it
\* clashed: no clean-up after a 410 and no other account's registration takes
\* it away.
AcceptedStaysRegistered ==
  \A e \in Endpoints :
    registered[e] # Nobody /\ e \notin dead \cup clashed =>
      \E i \in Ids : clients[i] = [user |-> registered[e], endpoint |-> e]

\* One announcement reaches a subscription once, unless it clashed.
ToldOnce ==
  \A a \in Announcers, e \in Endpoints : told[a][e] > 1 => e \in clashed

-----------------------------------------------------------------------------
(* Why these hold, in an inductive form.                                   *)

\* What may stand under an id, given the row that was inserted under it first:
\* a row of the same account, and for a visitor that very row.
From(row, first) ==
  row = Gone \/ (row.user = first.user /\ (row.user = Guest => row = first))

FitsFirst(table, first) ==
  /\ Len(table) <= Len(first)
  /\ \A i \in 1 .. Len(table) : From(table[i], first[i])

\* Every copy of the table, every row an announcement has read and every row a
\* registration has found comes from the first row of its id.
RowsComeFrom(first) ==
  /\ Len(first) = Len(clients)
  /\ FitsFirst(clients, first) /\ FitsFirst(slave, first)
  /\ \A k \in 1 .. Len(ships) : FitsFirst(ships[k], first)
  /\ \A a \in Announcers : \A b \in batch[a] \cup gone[a] : From(b.row, first[b.id])
  /\ \A r \in Handlers :
       held[r] # 0 => reg[r].user # Guest /\ reg[r].user = first[held[r]].user

RowsHaveOrigin == \E first \in Seq(Row) : RowsComeFrom(first)

OneRow(table) ==
  \A i, j \in DOMAIN table :
    table[i] # Gone /\ table[j] # Gone /\ i # j /\ table[i].endpoint = table[j].endpoint
    => table[i].endpoint \in clashed

CopiesHaveOneRow ==
  OneRow(clients) /\ OneRow(slave) /\ \A k \in 1 .. Len(ships) : OneRow(ships[k])

\* A registration for an endpoint that has not clashed is the only one in
\* flight for it, nobody counts as registered there, and once it saves, its own
\* row is the only one.
Clean(r) == r \in Busy /\ reg[r].endpoint \notin clashed

RegistrationsApart ==
  /\ \A r \in Busy : reg[r] \in Row /\ (rpc[r] = "find" => reg[r].user # Guest)
  /\ \A r, t \in Handlers : Clean(r) /\ Clean(t) /\ r # t => reg[r].endpoint # reg[t].endpoint
  /\ \A r \in Handlers : Clean(r) =>
       /\ registered[reg[r].endpoint] = Nobody
       /\ rpc[r] \in {"save", "update", "reinsert"} =>
            \A i \in Ids : Live(i) /\ clients[i].endpoint = reg[r].endpoint => i = held[r]
       /\ rpc[r] = "update" => Live(held[r])

\* What an announcement still has to send, and what it has to clean up.
SendsApart ==
  \A a \in Announcers :
    /\ \A e \in Endpoints \ clashed :
         LET waiting == {b \in batch[a] : b.row.endpoint = e}
         IN  /\ \A b, c \in waiting : b = c
             /\ told[a][e] <= 1
             /\ told[a][e] = 1 => waiting = {}
    /\ \A b \in gone[a] : b.row.endpoint \in dead

PushInv ==
  /\ PushTypeOK /\ RowsHaveOrigin /\ CopiesHaveOneRow /\ RegistrationsApart
  /\ AcceptedStaysRegistered /\ SendsApart
=============================================================================
