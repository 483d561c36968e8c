------------------------------ MODULE ChatLog -------------------------------
(***************************************************************************)
(* The chats of one room (src/src/chats/chats.service.ts, driven by the    *)
(* 'createChat', 'join' and 'requestChannel' events of                     *)
(* src/src/events/events.gateway.ts).                                      *)
(*                                                                         *)
(* A chat is pushed on a Redis list.  A sweep, started every minute and    *)
(* once more at start-up, copies all but the newest Retain chats of each   *)
(* list to MongoDB and then trims the list.  A reader takes page 0 from    *)
(* the list and the further pages from MongoDB.  Each await is a step, so  *)
(* chats arrive between any two steps of a sweep or of a reader.           *)
(*                                                                         *)
(* A chat is its number in the order of the pushes, which is also the      *)
(* order of the timestamps: both are taken without an await in between.    *)
(***************************************************************************)
EXTENDS Naturals, Sequences, FiniteSets, Functions

CONSTANTS
  Channels,     \* the channel types clients write to
  SweepOrder,   \* the channel types a sweep visits, in order
  ReadChannel,  \* the one channel type requestChannel serves chats for
  Authors,      \* createChat handlers in flight
  Sweepers,     \* runs of handleScheduledTasks in flight
  Readers,      \* browsers that open the room and page through it
  Retain,       \* chats a trim leaves on the list
  Limit,        \* chats on a page
  MaxChats, MaxExpiries, MaxCrashes, MaxFaults   \* bounds

ASSUME ChannelAssumption ==
  SweepOrder \in Seq(Channels) /\ SweepOrder # <<>> /\ ReadChannel \in Channels

\* chats.service.ts uses 50 for both.  Pages are complete only if a trim leaves
\* a page's worth of chats on the list.
ASSUME SizeAssumption ==
  /\ Retain \in Nat \ {0} /\ Limit \in 1 .. Retain
  /\ MaxChats \in Nat /\ MaxExpiries \in Nat /\ MaxCrashes \in Nat
  /\ MaxFaults \in Nat

VARIABLES
  chan,      \* the channel of each chat pushed so far
  list,      \* Redis: the list of each channel, oldest first
  archive,   \* MongoDB: the documents, in the order of their insertion
  apc, topic, mine,        \* author: label, channel, number of its chat
  spc, spos, batch,        \* sweep: label, position in SweepOrder, chats read
  rpc, page, count, seen,  \* reader: label, page, llen, chats shown
  joined, heard,           \* sockets in the room, chats it has broadcast to them
  refused,   \* history: chats whose author was told that the chat failed
  debt,      \* history: chats that arrived during a flush, were not inserted, or expired
  expiries, crashes, faults   \* how often each has happened (bounded)

authors == <<apc, topic, mine>>
sweeps  == <<spc, spos, batch>>
readers == <<rpc, page, count, seen, joined, heard>>
store   == <<chan, list, archive>>
bounds  == <<expiries, crashes, faults>>
vars    == <<store, authors, sweeps, readers, refused, debt, bounds>>

Chats        == 1 .. Len(chan)
ChatsOf(c)   == {m \in Chats : chan[m] = c}
Lost(c)      == ChatsOf(c) \ (Range(list[c]) \cup Range(archive))
Prefix(q, n) == SubSeq(q, 1, n)

Init ==
  /\ chan = <<>> /\ list = [c \in Channels |-> <<>>] /\ archive = <<>>
  /\ apc = [a \in Authors |-> "idle"]
  /\ topic = [a \in Authors |-> ReadChannel]
  /\ mine = [a \in Authors |-> 0]
  /\ spc = [s \in Sweepers |-> "idle"]
  /\ spos = [s \in Sweepers |-> 1]
  /\ batch = [s \in Sweepers |-> <<>>]
  /\ rpc = [r \in Readers |-> "idle"]
  /\ page = [r \in Readers |-> 0] /\ count = [r \in Readers |-> 0]
  /\ seen = [r \in Readers |-> {}]
  /\ joined = {} /\ heard = [r \in Readers |-> {}]
  /\ refused = {} /\ debt = [c \in Channels |-> 0]
  /\ expiries = 0 /\ crashes = 0 /\ faults = 0

Fault == faults < MaxFaults /\ faults' = faults + 1 /\ UNCHANGED <<expiries, crashes>>

-----------------------------------------------------------------------------
(* createChat: nickname, RPUSH, EXPIRE, PUBLISH, broadcast.                *)

AGoto(a, label) == apc' = [apc EXCEPT ![a] = label]

Say(a, c) ==
  /\ apc[a] = "idle"
  /\ Len(chan) + Cardinality({b \in Authors : apc[b] = "push"}) < MaxChats
  /\ AGoto(a, "push")
  /\ topic' = [topic EXCEPT ![a] = c]
  /\ UNCHANGED <<store, mine, sweeps, readers, refused, debt, bounds>>

\* A sweep has read the list of c and not yet trimmed it.
Flushing(c) == \E s \in Sweepers : spc[s] \in {"save", "trim"} /\ SweepOrder[spos[s]] = c

Push(a) ==
  LET c == topic[a] m == Len(chan) + 1
  IN  /\ apc[a] = "push"
      /\ chan' = Append(chan, c)
      /\ list' = [list EXCEPT ![c] = Append(@, m)]
      /\ mine' = [mine EXCEPT ![a] = m]
      /\ debt' = [debt EXCEPT ![c] = IF Flushing(c) THEN @ + 1 ELSE @]
      /\ AGoto(a, "tell")
      /\ UNCHANGED <<archive, topic, sweeps, readers, refused, bounds>>

Tell(a) ==
  /\ apc[a] = "tell"
  /\ heard' = [r \in Readers |->
                 IF r \in joined /\ topic[a] = ReadChannel
                 THEN heard[r] \cup {mine[a]} ELSE heard[r]]
  /\ AGoto(a, "idle")
  /\ UNCHANGED <<store, topic, mine, sweeps, rpc, page, count, seen, joined,
                 refused, debt, bounds>>

\* The nickname or the RPUSH is rejected, or the EXPIRE or PUBLISH after it;
\* the socket gets an error either way.
SayFails(a) ==
  /\ apc[a] \in {"push", "tell"} /\ Fault
  /\ refused' = IF apc[a] = "tell" THEN refused \cup {mine[a]} ELSE refused
  /\ AGoto(a, "idle")
  /\ UNCHANGED <<store, topic, mine, sweeps, readers, debt>>

-----------------------------------------------------------------------------
(* handleScheduledTasks: for each channel type LRANGE, insertMany, LTRIM.  *)

Start(s) ==
  /\ spc[s] = "idle"
  /\ spc' = [spc EXCEPT ![s] = "read"]
  /\ spos' = [spos EXCEPT ![s] = 1]
  /\ batch' = [batch EXCEPT ![s] = <<>>]
  /\ UNCHANGED <<store, authors, readers, refused, debt, bounds>>

\* Mutation: the last channel type is not recognised as the last.
AdvancePast(s) ==
  /\ spc' = [spc EXCEPT ![s] = IF spos[s] = Len(SweepOrder) + 1 THEN "idle" ELSE "read"]
  /\ spos' = [spos EXCEPT ![s] = @ + 1]

Advance(s) ==
  IF spos[s] = Len(SweepOrder)
  THEN spc' = [spc EXCEPT ![s] = "idle"] /\ UNCHANGED spos
  ELSE spc' = [spc EXCEPT ![s] = "read"] /\ spos' = [spos EXCEPT ![s] = @ + 1]

\* Mutation: LRANGE 0 -Retain-2, and a list one chat too long is left alone.
ReadShort(s) ==
  LET c == SweepOrder[spos[s]] n == Len(list[c]) - Retain
  IN  /\ spc[s] = "read"
      /\ IF n > 1
         THEN /\ batch' = [batch EXCEPT ![s] = Prefix(list[c], n - 1)]
              /\ spc' = [spc EXCEPT ![s] = "save"]
              /\ UNCHANGED spos
         ELSE Advance(s) /\ UNCHANGED batch
      /\ UNCHANGED <<store, authors, readers, refused, debt, bounds>>

\* Mutation: what is read is taken off the list at once.
ReadPops(s) ==
  LET c == SweepOrder[spos[s]] n == Len(list[c]) - Retain
  IN  /\ spc[s] = "read"
      /\ IF n > 0
         THEN /\ batch' = [batch EXCEPT ![s] = Prefix(list[c], n)]
              /\ list' = [list EXCEPT ![c] = SubSeq(@, n + 1, Len(@))]
              /\ spc' = [spc EXCEPT ![s] = "save"]
              /\ UNCHANGED spos
         ELSE Advance(s) /\ UNCHANGED <<batch, list>>
      /\ UNCHANGED <<chan, archive, authors, readers, refused, debt, bounds>>

\* SCAN and LRANGE: a key that has expired in between reads as empty.
Read(s) ==
  LET q == list[SweepOrder[spos[s]]]
  IN  /\ spc[s] = "read"
      /\ IF Len(q) > Retain
         THEN /\ batch' = [batch EXCEPT ![s] = Prefix(q, Len(q) - Retain)]
              /\ spc' = [spc EXCEPT ![s] = "save"]
              /\ UNCHANGED spos
         ELSE Advance(s) /\ UNCHANGED batch
      /\ UNCHANGED <<store, authors, readers, refused, debt, bounds>>

Save(s) ==
  /\ spc[s] = "save"
  /\ archive' = archive \o batch[s]
  /\ spc' = [spc EXCEPT ![s] = "trim"]
  /\ UNCHANGED <<chan, list, spos, batch, authors, readers, refused, debt, bounds>>

\* insertMany stops at a document it cannot insert; the error is logged and
\* the list is trimmed all the same.
SaveFails(s) ==
  /\ spc[s] = "save" /\ Fault
  /\ \E n \in 0 .. Len(batch[s]) - 1 :
       /\ archive' = archive \o Prefix(batch[s], n)
       /\ debt' = [debt EXCEPT ![SweepOrder[spos[s]]] = @ + (Len(batch[s]) - n)]
  /\ spc' = [spc EXCEPT ![s] = "trim"]
  /\ UNCHANGED <<chan, list, spos, batch, authors, readers, refused>>

\* LTRIM keeps the newest Retain of the list as it is now.
Trim(s) ==
  /\ spc[s] = "trim"
  /\ list' = [list EXCEPT ![SweepOrder[spos[s]]] =
                IF Len(@) > Retain THEN SubSeq(@, Len(@) - Retain + 1, Len(@)) ELSE @]
  /\ batch' = [batch EXCEPT ![s] = <<>>]
  /\ Advance(s)
  /\ UNCHANGED <<chan, archive, authors, readers, refused, debt, bounds>>

\* A rejected command or user lookup ends the sweep where it stands.
SweepFails(s) ==
  /\ spc[s] # "idle" /\ Fault
  /\ spc' = [spc EXCEPT ![s] = "idle"]
  /\ batch' = [batch EXCEPT ![s] = <<>>]
  /\ UNCHANGED <<store, spos, authors, readers, refused, debt>>

-----------------------------------------------------------------------------
(* join and requestChannel: LLEN, LRANGE for page 0, then find().          *)

RGoto(r, label) == rpc' = [rpc EXCEPT ![r] = label]

Join(r) ==
  /\ rpc[r] = "idle"
  /\ joined' = joined \cup {r}
  /\ RGoto(r, "count")
  /\ UNCHANGED <<store, authors, sweeps, page, count, seen, heard, refused, debt, bounds>>

Count(r) ==
  /\ rpc[r] = "count"
  /\ count' = [count EXCEPT ![r] = Len(list[ReadChannel])]
  /\ RGoto(r, IF page[r] = 0 THEN "take" ELSE "query")
  /\ UNCHANGED <<store, authors, sweeps, page, seen, joined, heard, refused, debt, bounds>>

Take(r) ==
  /\ rpc[r] = "take"
  /\ seen' = [seen EXCEPT ![r] = @ \cup Range(list[ReadChannel])]
  /\ RGoto(r, IF count[r] < Limit THEN "query" ELSE "more")
  /\ UNCHANGED <<store, authors, sweeps, page, count, joined, heard, refused, debt, bounds>>

AtMost(n, k) == IF n < k THEN n ELSE k

\* Mutation: the chats page 0 took from the list are not discounted.
SkipPlain(r) == page[r] * Limit

Skip(r) == IF page[r] = 0 THEN 0 ELSE page[r] * Limit - AtMost(count[r], Limit)

\* Where a document stands in the sort by timestamp: how many come no later
\* than chat m, and how many before it.
UpTo(m)   == Cardinality({i \in DOMAIN archive : archive[i] <= m})
Before(m) == Cardinality({i \in DOMAIN archive : archive[i] < m})

\* find({ RoomId }).sort({ timestamp }).skip().limit(): every channel's
\* documents for this room number, oldest first; a chat is on the page when one
\* of its documents comes after the first Skip and among the next Limit.
Found(r) == {m \in Range(archive) : Skip(r) < UpTo(m) /\ Before(m) < Skip(r) + Limit}

Query(r) ==
  /\ rpc[r] = "query"
  /\ seen' = [seen EXCEPT ![r] = @ \cup Found(r)]
  /\ RGoto(r, IF page[r] > 0 /\ Found(r) = {} THEN "done" ELSE "more")
  /\ UNCHANGED <<store, authors, sweeps, page, count, joined, heard, refused, debt, bounds>>

\* "Load more", once the page is there.
More(r) ==
  /\ rpc[r] = "more"
  /\ page' = [page EXCEPT ![r] = @ + 1]
  /\ RGoto(r, "count")
  /\ UNCHANGED <<store, authors, sweeps, count, seen, joined, heard, refused, debt, bounds>>

\* The socket gets an error instead of the page.
ReadFails(r) ==
  /\ rpc[r] \in {"count", "take", "query"} /\ Fault
  /\ RGoto(r, "failed")
  /\ UNCHANGED <<store, authors, sweeps, page, count, seen, joined, heard, refused, debt>>

-----------------------------------------------------------------------------
\* Two days without a push: what is left of the list is gone.
Expire(c) ==
  /\ list[c] # <<>> /\ expiries < MaxExpiries
  /\ list' = [list EXCEPT ![c] = <<>>]
  /\ debt' = [debt EXCEPT ![c] = @ + Len(list[c])]
  /\ expiries' = expiries + 1
  /\ UNCHANGED <<chan, archive, authors, sweeps, readers, refused, crashes, faults>>

\* The process dies and starts again; Redis and MongoDB stay.
Crash ==
  /\ crashes < MaxCrashes
  /\ crashes' = crashes + 1
  /\ apc' = [a \in Authors |-> "idle"]
  /\ spc' = [s \in Sweepers |-> "idle"]
  /\ batch' = [s \in Sweepers |-> <<>>]
  /\ rpc' = [r \in Readers |-> IF rpc[r] = "done" THEN "done" ELSE "failed"]
  /\ joined' = {}
  /\ UNCHANGED <<store, topic, mine, spos, page, count, seen, heard, refused,
                 debt, expiries, faults>>

SweepStep(s) == Start(s) \/ Read(s) \/ Save(s) \/ SaveFails(s) \/ Trim(s) \/ SweepFails(s)

Next ==
  \/ \E a \in Authors :
       \/ \E c \in Channels : Say(a, c)
       \/ Push(a) \/ Tell(a) \/ SayFails(a)
  \/ \E s \in Sweepers : SweepStep(s)
  \/ \E r \in Readers :
       Join(r) \/ Count(r) \/ Take(r) \/ Query(r) \/ More(r) \/ ReadFails(r)
  \/ \E c \in Channels : Expire(c)
  \/ Crash

Spec == Init /\ [][Next]_vars

\* @Interval starts a sweep again, and its commands are answered.
FairSpec == Spec /\ \A s \in Sweepers : WF_vars(SweepStep(s))

-----------------------------------------------------------------------------
\* Types, and: what a sweep holds, the archive and the lists hold are chats
\* that were pushed, and a list is in the order of the pushes.
TypeOK ==
  /\ chan \in Seq(Channels)
  /\ list \in [Channels -> Seq(Chats)]
  /\ \A c \in Channels : \A i, j \in DOMAIN list[c] : i < j => list[c][i] < list[c][j]
  /\ archive \in Seq(Chats)
  /\ apc \in [Authors -> {"idle", "push", "tell"}]
  /\ topic \in [Authors -> Channels] /\ mine \in [Authors -> 0 .. Len(chan)]
  /\ spc \in [Sweepers -> {"idle", "read", "save", "trim"}]
  /\ spos \in [Sweepers -> 1 .. Len(SweepOrder)]
  /\ batch \in [Sweepers -> Seq(Chats)]
  /\ rpc \in [Readers -> {"idle", "count", "take", "query", "more", "done", "failed"}]
  /\ page \in [Readers -> Nat] /\ count \in [Readers -> Nat]
  /\ seen \in [Readers -> SUBSET Chats] /\ heard \in [Readers -> SUBSET Chats]
  /\ joined \subseteq Readers /\ refused \subseteq Chats
  /\ debt \in [Channels -> Nat]
  /\ expiries \in Nat /\ crashes \in Nat /\ faults \in Nat

\* However sweeps overlap, fail or die, no more chats are missing from both
\* Redis and MongoDB than arrived between a sweep's LRANGE and its LTRIM, were
\* turned down by insertMany, or expired.
LossBounded == \A c \in Channels : Cardinality(Lost(c)) <= debt[c]

\* Chats on the list whose author has not told the room yet.
BeingTold == {mine[a] : a \in {b \in Authors : apc[b] = "tell"}}

\* A reader who reaches the last page has been shown every chat of the channel
\* that the stores still have, on a page or by the room's broadcast, although
\* sweeps move chats from the list to the archive while it reads.  (A chat
\* still to be told, or whose author was told it failed, may be missing; with
\* two sweeps at once a chat can be in neither store for a while, and missed.)
PagesShowEverything ==
  [][\A r \in Readers :
       rpc[r] = "query" /\ rpc'[r] = "done" /\ expiries = 0 =>
         ChatsOf(ReadChannel) \ (Lost(ReadChannel) \cup refused \cup BeingTold)
           \subseteq seen'[r] \cup heard[r]]_vars

\* A list that has grown past Retain is cut back by the next sweeps.
ListsAreCutBack ==
  \A c \in Range(SweepOrder) : Len(list[c]) > Retain ~> Len(list[c]) <= Retain

-----------------------------------------------------------------------------
(* Why no more is lost than LossBounded says, in an inductive form.        *)

\* An author that tells has pushed.
TellersPushed == \A a \in Authors : apc[a] = "tell" => mine[a] \in Chats

\* What a trim would take off the list as it is now.
Surplus(c) == {list[c][i] : i \in {j \in DOMAIN list[c] : j + Retain <= Len(list[c])}}

\* What a sweep has read and has still to insert.
Unsaved(s) == IF spc[s] = "save" THEN Range(batch[s]) ELSE {}

\* What of c is lost, or would be if the sweep trimmed right after its insert.
Due(c, s) == Lost(c) \cup (Surplus(c) \ (Range(archive) \cup Unsaved(s)))

FlushesAccounted ==
  \A s \in Sweepers :
    spc[s] \in {"save", "trim"} =>
      Cardinality(Due(SweepOrder[spos[s]], s)) <= debt[SweepOrder[spos[s]]]

LossInv == TypeOK /\ TellersPushed /\ LossBounded /\ FlushesAccounted

-----------------------------------------------------------------------------
(* Why the pages show everything, in an inductive form, for one sweep at a *)
(* time.                                                                   *)

OneSweeper == \A s, t \in Sweepers : s = t

\* A reader that has taken page 0 from the list.
Paging(r) == rpc[r] \in {"query", "more"} \/ (rpc[r] = "count" /\ page[r] > 0)

\* The documents that the pages so far are sure to have passed: a list shorter
\* than a page only grows, so the next skip is no larger.
Passed(r) ==
  IF rpc[r] = "more" THEN (page[r] + 1) * Limit - AtMost(count[r], Limit) ELSE Skip(r)

Ahead(r) == {m \in Range(archive) : Passed(r) < UpTo(m)}

\* What a reader of the channel has been shown, cannot be, or is still to find.
Covered(r) ==
  seen[r] \cup heard[r] \cup refused \cup BeingTold \cup Lost(ReadChannel) \cup Ahead(r)

TellersTold == \A a \in Authors : apc[a] = "tell" => mine[a] \in Chats /\ chan[mine[a]] = topic[a]

ReadersListen ==
  \A r \in Readers :
    /\ rpc[r] \in {"count", "take", "query", "more"} => r \in joined
    /\ rpc[r] \in {"idle", "take"} => page[r] = 0

ListsByChannel == \A c \in Channels : Range(list[c]) \subseteq ChatsOf(c)

\* What a sweep is about to insert is still on the list.
BatchOnList ==
  \A s \in Sweepers : spc[s] = "save" => Range(batch[s]) \subseteq Range(list[SweepOrder[spos[s]]])

CountsLow == \A r \in Readers : AtMost(count[r], Limit) <= Len(list[ReadChannel])

PagesInv ==
  /\ TypeOK /\ TellersTold /\ ReadersListen /\ ListsByChannel
  /\ expiries = 0 =>
       /\ BatchOnList /\ CountsLow
       /\ \A r \in Readers : Paging(r) => ChatsOf(ReadChannel) \subseteq Covered(r)
=============================================================================
