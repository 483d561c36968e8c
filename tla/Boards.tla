------------------------------- MODULE Boards -------------------------------
(***************************************************************************)
(* One post of the humor, political or free ("online") board, the comment  *)
(* below it and its view counter.                                          *)
(*                                                                         *)
(* A handler is the list of its awaited steps: the gate of its route       *)
(* (token, owner guard, pipe) followed by the statements of the service.   *)
(* The code between two awaits runs with the step before it.  Lookups read *)
(* the slave, writes go to the master.  save() of an entity that was       *)
(* loaded writes every column that differs from the master's row, its like *)
(* and deletedAt included, and inserts the row again when it is gone;      *)
(* save() of {id, title, content} writes the text only.                    *)
(*                                                                         *)
(* Abstracted: a text is the tab that wrote it; one post and one comment   *)
(* per behaviour; the names on a list page are looked up as in Accounts.   *)
(***************************************************************************)
EXTENDS Naturals, Sequences, FiniteSets

CONSTANTS
  Tabs,         \* browser tabs
  Guest,        \* the user of a tab without a token
  TabUser,      \* the account each tab is logged in to, or Guest
  PoolSize,     \* connections of the pool
  MaxRequests,  \* bound: requests made in a behaviour
  MaxLikes      \* bound: likes that arrive from elsewhere

ASSUME BoardsAssumption ==
  /\ IsFiniteSet(Tabs) /\ "nobody" \notin Tabs
  /\ PoolSize \in Nat /\ MaxRequests \in Nat /\ MaxLikes \in Nat

VARIABLES
  kind,      \* which of the three boards this is
  post,      \* master: the post
  poll,      \* master: the poll saved with it
  comment,   \* master: the comment
  slave,     \* the slave's copy of the three
  shipped,   \* versions the slave has not applied yet
  hits,      \* Redis: the view counter of the post
  free,      \* connections left in the pool
  todo,      \* the steps each tab's handler still has to make
  kept,      \* the post its last lookup of it returned
  keptNote,  \* the comment its last lookup of it returned
  visits,    \* history: pages of the post that were served
  requests   \* requests made so far (bounded by MaxRequests)

boardStore == <<post, poll, comment, slave, shipped>>
boardsVars == <<kind, post, poll, comment, slave, shipped, hits, free, todo,
                kept, keptNote, visits, requests>>

Kinds   == {"humor", "political", "online"}
Users   == {TabUser[t] : t \in Tabs}
NoTab   == "nobody"
Post    == [is : {"none", "live", "hidden"}, owner : Users \cup {NoTab},
            text : Tabs \cup {NoTab}, like : Nat, view : Nat]
Comment == [is : {"none", "live", "hidden", "erased"},
            owner : Users \cup {NoTab}, text : Tabs \cup {NoTab}]
NoPost    == [is |-> "none", owner |-> NoTab, text |-> NoTab, like |-> 0,
              view |-> 0]
NoComment == [is |-> "none", owner |-> NoTab, text |-> NoTab]

\* A version of the store, and the one the master has.
Version == [post : Post, poll : BOOLEAN, comment : Comment]
Master  == [post |-> post, poll |-> poll, comment |-> comment]

-----------------------------------------------------------------------------
(* The routes: what each asks before its service is called.                *)

HumorRoutes ==
  [create |-> "token", list |-> "open", open |-> "open",
   editPage |-> "token", edit |-> "token", delete |-> "token"]

PoliticalRoutes ==
  [create |-> "token", list |-> "open", open |-> "open",
   editPage |-> "token", edit |-> "token", delete |-> "token"]

OnlineRoutes ==
  [create |-> "token", list |-> "open", open |-> "open",
   editPage |-> "owner", edit |-> "owner", delete |-> "owner"]

HumorCommentRoutes ==
  [comments |-> "open", write |-> "token", rewrite |-> "token",
   erase |-> "token"]

PoliticalCommentRoutes ==
  [comments |-> "open", write |-> "token", rewrite |-> "token",
   erase |-> "token"]

\* The whole controller asks for a token; its pipe looks the board up.
OnlineCommentRoutes ==
  [comments |-> "pipe", write |-> "pipe", rewrite |-> "writer",
   erase |-> "writer"]

BoardRoutes == [humor |-> HumorRoutes, political |-> PoliticalRoutes,
                online |-> OnlineRoutes]
CommentRoutes == [humor |-> HumorCommentRoutes,
                  political |-> PoliticalCommentRoutes,
                  online |-> OnlineCommentRoutes]

(* The services: the statements of each handler, in order.                 *)

HumorCreation == <<"begin", "upload", "post", "poll", "commit">>

HumorReading ==
  [list |-> <<"count", "page">>, open |-> <<"find", "visit">>,
   editPage |-> <<"find">>]

HumorWriting ==
  [edit |-> <<"findMine", "saveRow">>, delete |-> <<"findMine", "hide">>]

PoliticalCreation == <<"begin", "post", "poll", "commit">>

\* The edit page is served by the lookup that counts a visit.
PoliticalReading ==
  [list |-> <<"count", "page">>, open |-> <<"find", "visit">>,
   editPage |-> <<"find", "visit">>]

PoliticalWriting ==
  [edit |-> <<"findMine", "saveRow">>, delete |-> <<"findMine", "hide">>]

OnlineCreation == <<"upload", "save">>

OnlineReading ==
  [list |-> <<"count", "page">>, open |-> <<"find", "visit">>,
   editPage |-> <<"find">>]

OnlineWriting ==
  [edit |-> <<"find", "saveText">>, delete |-> <<"find", "hide">>]

HumorComments ==
  [comments |-> <<"find", "page">>, write |-> <<"find", "insert">>,
   rewrite |-> <<"find", "noteMine", "saveNote">>,
   erase |-> <<"find", "noteMine", "eraseNote">>]

PoliticalComments ==
  [comments |-> <<"page">>, write |-> <<"find", "insert">>,
   rewrite |-> <<"noteMine", "saveNote">>,
   erase |-> <<"noteMine", "eraseNote">>]

OnlineComments ==
  [comments |-> <<"page">>, write |-> <<"find", "insert">>,
   rewrite |-> <<"note", "updateNote">>, erase |-> <<"note", "hideNote">>]

Creation == [humor |-> HumorCreation, political |-> PoliticalCreation,
             online |-> OnlineCreation]
Reading  == [humor |-> HumorReading, political |-> PoliticalReading,
             online |-> OnlineReading]
Writing  == [humor |-> HumorWriting, political |-> PoliticalWriting,
             online |-> OnlineWriting]
Comments == [humor |-> HumorComments, political |-> PoliticalComments,
             online |-> OnlineComments]

BoardReads   == {"list", "open", "editPage"}
BoardWrites  == {"edit", "delete"}
CommentCalls == {"comments", "write", "rewrite", "erase"}
Calls        == {"create"} \cup BoardReads \cup BoardWrites \cup CommentCalls

Gate(k, call) ==
  IF call \in CommentCalls THEN CommentRoutes[k][call] ELSE BoardRoutes[k][call]

\* The lookups a gate makes, each a step of its own.
GateSteps(gate) ==
  CASE gate = "owner"  -> <<"owned">>
    [] gate = "writer" -> <<"noteOwned">>
    [] gate = "pipe"   -> <<"find">>
    [] OTHER           -> <<>>

Service(k, call) ==
  CASE call = "create"         -> Creation[k]
    [] call \in BoardReads     -> Reading[k][call]
    [] call \in BoardWrites    -> Writing[k][call]
    [] call \in CommentCalls   -> Comments[k][call]

Handler(k, call) == GateSteps(Gate(k, call)) \o Service(k, call)

-----------------------------------------------------------------------------
BoardsInit ==
  /\ kind \in Kinds
  /\ post = NoPost /\ poll = FALSE /\ comment = NoComment
  /\ slave = [post |-> NoPost, poll |-> FALSE, comment |-> NoComment]
  /\ shipped = <<>> /\ hits = 0 /\ free = PoolSize
  /\ todo = [t \in Tabs |-> <<>>]
  /\ kept = [t \in Tabs |-> NoPost]
  /\ keptNote = [t \in Tabs |-> NoComment]
  /\ visits = 0 /\ requests = 0

At(t, step) == todo[t] # <<>> /\ Head(todo[t]) = step

\* The handler goes on to its next step; what it has looked up it keeps.
Proceed(t) ==
  /\ todo' = [todo EXCEPT ![t] = Tail(@)]
  /\ UNCHANGED <<kept, keptNote>>

\* The reply is sent, or the handler throws.
Leave(t) ==
  /\ todo' = [todo EXCEPT ![t] = <<>>]
  /\ kept' = [kept EXCEPT ![t] = NoPost]
  /\ keptNote' = [keptNote EXCEPT ![t] = NoComment]

ProceedIf(t, ok) == (ok /\ Proceed(t)) \/ (~ok /\ Leave(t))

\* A commit reaches the slave later.
ShipBoards ==
  /\ shipped' = Append(shipped, Master')
  /\ UNCHANGED slave

\* One post and one comment are written per behaviour.
Fresh(call) ==
  /\ call = "create" => post = NoPost /\ \A t \in Tabs : todo[t] = <<>>
  /\ call = "write" =>
       /\ comment = NoComment
       /\ \A t \in Tabs : \A i \in 1..Len(todo[t]) : todo[t][i] # "insert"

Request(t, call) ==
  /\ todo[t] = <<>> /\ requests < MaxRequests
  /\ Fresh(call)
  /\ Gate(kind, call) # "open" => TabUser[t] # Guest
  /\ todo' = [todo EXCEPT ![t] = Handler(kind, call)]
  /\ requests' = requests + 1
  /\ UNCHANGED <<kind, boardStore, hits, free, kept, keptNote, visits>>

-----------------------------------------------------------------------------
(* Creating a post: on the humor and political boards the post and its     *)
(* poll are saved in one transaction; the images of a humor post are       *)
(* uploaded inside it, before its try block.                               *)

\* connect() waits for a free connection.
Begin(t) ==
  /\ At(t, "begin") /\ free > 0
  /\ free' = free - 1
  /\ Proceed(t)
  /\ UNCHANGED <<kind, boardStore, hits, visits, requests>>

\* What column view starts with: no creation sets it, the entities' defaults
\* differ.
FirstView(k) == IF k = "online" THEN 1 ELSE 0

\* Mutation: the post is saved by the repository, outside the transaction.
QuietSaving(t) ==
  /\ \E step \in {"upload", "post", "poll", "count"} : At(t, step)
  /\ Proceed(t)
  /\ IF At(t, "post")
     THEN /\ post' = [NoPost EXCEPT !.is = "live", !.owner = TabUser[t],
                                   !.text = t, !.view = FirstView(kind)]
          /\ UNCHANGED <<poll, comment>> /\ ShipBoards
     ELSE UNCHANGED boardStore
  /\ UNCHANGED <<kind, hits, free, visits, requests>>

\* Steps that leave the store as it is: uploads, statements that are not
\* committed yet, and the count of a list page.
Quiet(t) ==
  /\ \E step \in {"upload", "post", "poll", "count"} : At(t, step)
  /\ Proceed(t)
  /\ UNCHANGED <<kind, boardStore, hits, free, visits, requests>>

NewPost(t) == [is |-> "live", owner |-> TabUser[t], text |-> t, like |-> 0,
               view |-> FirstView(kind)]

\* Mutation: the connection is released by the try block and by finally.
CommitReleasing(t) ==
  /\ At(t, "commit")
  /\ post' = NewPost(t) /\ poll' = TRUE
  /\ UNCHANGED comment /\ ShipBoards
  /\ free' = free + 2
  /\ Leave(t)
  /\ UNCHANGED <<kind, hits, visits, requests>>

Commit(t) ==
  /\ At(t, "commit")
  /\ post' = NewPost(t) /\ poll' = TRUE
  /\ UNCHANGED comment /\ ShipBoards
  /\ free' = free + 1
  /\ Leave(t)
  /\ UNCHANGED <<kind, hits, visits, requests>>

Save(t) ==
  /\ At(t, "save")
  /\ post' = NewPost(t)
  /\ UNCHANGED <<poll, comment>> /\ ShipBoards
  /\ Leave(t)
  /\ UNCHANGED <<kind, hits, free, visits, requests>>

-----------------------------------------------------------------------------
(* Reading.  A lookup does not see a soft-deleted row.                     *)

Seen(p) == p.is = "live"

Find(t) ==
  /\ At(t, "find")
  /\ IF Seen(slave.post)
     THEN /\ todo' = [todo EXCEPT ![t] = Tail(@)]
          /\ kept' = [kept EXCEPT ![t] = slave.post]
          /\ UNCHANGED keptNote
     ELSE Leave(t)
  /\ UNCHANGED <<kind, boardStore, hits, free, visits, requests>>

\* The lookup and, before the next await, the check of the owner.
FindMine(t) ==
  /\ At(t, "findMine")
  /\ IF Seen(slave.post) /\ slave.post.owner = TabUser[t]
     THEN /\ todo' = [todo EXCEPT ![t] = Tail(@)]
          /\ kept' = [kept EXCEPT ![t] = slave.post]
          /\ UNCHANGED keptNote
     ELSE Leave(t)
  /\ UNCHANGED <<kind, boardStore, hits, free, visits, requests>>

BoardOwnerGuard(t) ==
  /\ At(t, "owned")
  /\ ProceedIf(t, Seen(slave.post) /\ slave.post.owner = TabUser[t])
  /\ UNCHANGED <<kind, boardStore, hits, free, visits, requests>>

\* The page shows post.view + hits'.
Visit(t) ==
  /\ At(t, "visit")
  /\ hits' = hits + 1 /\ visits' = visits + 1
  /\ Leave(t)
  /\ UNCHANGED <<kind, boardStore, free, requests>>

ShowPage(t) ==
  /\ At(t, "page")
  /\ Leave(t)
  /\ UNCHANGED <<kind, boardStore, hits, free, visits, requests>>

-----------------------------------------------------------------------------
(* Editing and deleting the post.                                          *)

\* save() reads the master's row by its key, hidden or not, and updates the
\* columns in which the loaded entity differs from it.
SaveRow(t) ==
  /\ At(t, "saveRow")
  /\ post' = [kept[t] EXCEPT !.text = t]
  /\ UNCHANGED <<poll, comment>> /\ ShipBoards
  /\ Leave(t)
  /\ UNCHANGED <<kind, hits, free, visits, requests>>

\* Mutation: the entity itself is saved.
SaveTextAsRow(t) ==
  /\ At(t, "saveText")
  /\ post' = [kept[t] EXCEPT !.text = t]
  /\ UNCHANGED <<poll, comment>> /\ ShipBoards
  /\ Leave(t)
  /\ UNCHANGED <<kind, hits, free, visits, requests>>

SaveText(t) ==
  /\ At(t, "saveText")
  /\ post' = [post EXCEPT !.text = t]
  /\ UNCHANGED <<poll, comment>> /\ ShipBoards
  /\ Leave(t)
  /\ UNCHANGED <<kind, hits, free, visits, requests>>

Hide(t) ==
  /\ At(t, "hide")
  /\ post' = [post EXCEPT !.is = "hidden"]
  /\ UNCHANGED <<poll, comment>> /\ ShipBoards
  /\ Leave(t)
  /\ UNCHANGED <<kind, hits, free, visits, requests>>

-----------------------------------------------------------------------------
(* Comments.  Humor and political comments are deleted for good, comments  *)
(* of the free board are hidden.                                           *)

Insert(t) ==
  /\ At(t, "insert")
  /\ comment' = [is |-> "live", owner |-> TabUser[t], text |-> t]
  /\ UNCHANGED <<post, poll>> /\ ShipBoards
  /\ Leave(t)
  /\ UNCHANGED <<kind, hits, free, visits, requests>>

FindNote(t) ==
  /\ At(t, "note") \/ At(t, "noteMine")
  /\ IF /\ Seen(slave.comment)
        /\ At(t, "noteMine") => slave.comment.owner = TabUser[t]
     THEN /\ todo' = [todo EXCEPT ![t] = Tail(@)]
          /\ keptNote' = [keptNote EXCEPT ![t] = slave.comment]
          /\ UNCHANGED kept
     ELSE Leave(t)
  /\ UNCHANGED <<kind, boardStore, hits, free, visits, requests>>

CommentOwnerGuard(t) ==
  /\ At(t, "noteOwned")
  /\ ProceedIf(t, Seen(slave.comment) /\ slave.comment.owner = TabUser[t])
  /\ UNCHANGED <<kind, boardStore, hits, free, visits, requests>>

\* save() of the loaded comment: inserts it again when its row is gone.
SaveNote(t) ==
  /\ At(t, "saveNote")
  /\ comment' = [keptNote[t] EXCEPT !.text = t]
  /\ UNCHANGED <<post, poll>> /\ ShipBoards
  /\ Leave(t)
  /\ UNCHANGED <<kind, hits, free, visits, requests>>

\* Mutation: the loaded comment is saved.
UpdateNoteBySave(t) ==
  /\ At(t, "updateNote")
  /\ comment' = [keptNote[t] EXCEPT !.text = t]
  /\ UNCHANGED <<post, poll>> /\ ShipBoards
  /\ Leave(t)
  /\ UNCHANGED <<kind, hits, free, visits, requests>>

\* UPDATE ... SET content WHERE id: it touches a hidden comment as well.
UpdateNote(t) ==
  /\ At(t, "updateNote")
  /\ comment' = [comment EXCEPT !.text = t]
  /\ UNCHANGED <<post, poll>> /\ ShipBoards
  /\ Leave(t)
  /\ UNCHANGED <<kind, hits, free, visits, requests>>

\* The free board hides a comment after it has replied.
DropNote(t) ==
  /\ At(t, "eraseNote") \/ At(t, "hideNote")
  /\ comment' = [comment EXCEPT !.is =
                   IF At(t, "hideNote") THEN "hidden" ELSE "erased"]
  /\ UNCHANGED <<post, poll>> /\ ShipBoards
  /\ Leave(t)
  /\ UNCHANGED <<kind, hits, free, visits, requests>>

-----------------------------------------------------------------------------
(* Around the handlers.                                                    *)

\* A step is rejected.  A BEGIN that fails and an upload that fails inside the
\* transaction happen outside its try block: the connection is never released.
Reject(t) ==
  /\ todo[t] # <<>>
  /\ Leave(t)
  /\ \/ At(t, "begin") /\ free > 0 /\ free' = free - 1
     \/ /\ \E step \in {"post", "poll", "commit"} : At(t, step)
        /\ free' = free + 1
     \/ /\ \A step \in {"post", "poll", "commit"} : ~At(t, step)
        /\ UNCHANGED free
  /\ UNCHANGED <<kind, boardStore, hits, visits, requests>>

\* A like from elsewhere (Likes): UPDATE ... SET like = like + 1.
LikeArrives ==
  /\ post.is = "live" /\ kind # "political" /\ post.like < MaxLikes
  /\ post' = [post EXCEPT !.like = @ + 1]
  /\ UNCHANGED <<poll, comment>> /\ ShipBoards
  /\ UNCHANGED <<kind, hits, free, todo, kept, keptNote, visits, requests>>

ReplicateBoards ==
  /\ shipped # <<>>
  /\ slave' = Head(shipped) /\ shipped' = Tail(shipped)
  /\ UNCHANGED <<kind, post, poll, comment, hits, free, todo, kept, keptNote,
                 visits, requests>>

(* The view sweep, every minute: SCAN for a pattern, then for every key    *)
(* found UPDATE ... SET view = view + n and DEL.                           *)

CounterKey == [humor |-> "humors:<id>:view", online |-> "online:<id>:view",
               political |-> "poticalDebate:<id>:view"]
SweptKey   == [humor |-> "{humors}:<id>:view", online |-> "{online}:<id>:view"]

\* Counters of this board that match the pattern; none does, the braces of the
\* pattern are literal.
Swept == IF kind \in DOMAIN SweptKey /\ SweptKey[kind] = CounterKey[kind]
         THEN hits ELSE 0

\* Mutation: the pattern matches but the key does not parse, and DEL runs
\* whether it parses or not.
SweepDropping ==
  /\ kind # "political"
  /\ hits' = 0
  /\ UNCHANGED <<kind, boardStore, free, todo, kept, keptNote, visits,
                 requests>>

Sweep ==
  /\ post' = [post EXCEPT !.view = @ + Swept]
  /\ hits' = hits - Swept
  /\ IF Swept = 0 THEN UNCHANGED <<slave, shipped>> ELSE ShipBoards
  /\ UNCHANGED <<kind, poll, comment, free, todo, kept, keptNote, visits,
                 requests>>

-----------------------------------------------------------------------------
BoardSteps(t) ==
  \/ Begin(t) \/ Quiet(t) \/ Commit(t) \/ Save(t)
  \/ Find(t) \/ FindMine(t) \/ BoardOwnerGuard(t) \/ Visit(t) \/ ShowPage(t)
  \/ SaveRow(t) \/ SaveText(t) \/ Hide(t)
  \/ Insert(t) \/ FindNote(t) \/ CommentOwnerGuard(t) \/ SaveNote(t)
  \/ UpdateNote(t) \/ DropNote(t)
  \/ Reject(t)

BoardsNext ==
  \/ \E t \in Tabs : BoardSteps(t) \/ \E call \in Calls : Request(t, call)
  \/ LikeArrives \/ ReplicateBoards \/ Sweep

BoardsSpec == BoardsInit /\ [][BoardsNext]_boardsVars

-----------------------------------------------------------------------------
BoardsTypeOK ==
  /\ kind \in Kinds
  /\ post \in Post /\ poll \in BOOLEAN /\ comment \in Comment
  /\ slave \in Version /\ shipped \in Seq(Version)
  /\ hits \in Nat /\ free \in 0..PoolSize
  /\ kept \in [Tabs -> Post] /\ keptNote \in [Tabs -> Comment]
  /\ visits \in Nat /\ requests \in 0..MaxRequests

\* A humor or political post never exists without its poll, nor the poll
\* without the post, on the master or on the slave: they are saved in one
\* transaction, and deleting the post hides it only.
PostHasPoll ==
  kind # "online" =>
    /\ poll <=> post # NoPost
    /\ slave.poll <=> slave.post # NoPost

\* No visit is lost: column and counter together are what the column started
\* with and one for each page served, on the master and for every copy of the
\* post a page may be made from, whatever visits, edits and sweeps have come
\* between its lookup and the page.  The free board starts with one.
ViewsKept ==
  \A p \in {post, slave.post} \cup {kept[t] : t \in Tabs} :
    p # NoPost => p.view + hits = visits + FirstView(kind)

\* Why these hold, in an inductive form.  What is left of a handler keeps the
\* order of its steps: a transaction ends with its commit, a write follows the
\* lookup of what it writes, and whole rows are saved off the free board only.
Steps == {"begin", "upload", "post", "poll", "commit", "save", "count", "page",
          "find", "findMine", "owned", "visit", "saveRow", "saveText", "hide",
          "insert", "note", "noteMine", "noteOwned", "saveNote", "updateNote",
          "eraseNote", "hideNote"}

PostWrites == {"saveRow", "saveText", "hide"}
NoteWrites == {"saveNote", "updateNote", "eraseNote", "hideNote"}

InOrder(l) ==
  \A i \in 1..Len(l) :
    /\ l[i] = "begin" => i = 1
    /\ l[i] \in {"post", "poll"} => l[Len(l)] = "commit"
    /\ l[i] \in {"commit", "save", "insert"} => i = Len(l)
    /\ l[i] \in PostWrites /\ i > 1 => l[i - 1] \in {"findMine", "find"}
    /\ l[i] \in NoteWrites /\ i > 1 => l[i - 1] \in {"noteMine", "note"}

OfBoard(k, l) ==
  \A i \in 1..Len(l) :
    l[i] \notin (IF k = "online"
                THEN {"begin", "post", "poll", "commit", "saveRow", "saveNote"}
                ELSE {"save", "saveText"})

Ends(t, steps) == todo[t] # <<>> /\ todo[t][Len(todo[t])] \in steps
Creates(t)     == Ends(t, {"commit", "save"})
Inserts(t)     == Ends(t, {"insert"})
Holders        == {t \in Tabs : Ends(t, {"commit"}) /\ ~At(t, "begin")}

StepsInOrder ==
  /\ todo \in [Tabs -> Seq(Steps)]
  /\ \A t \in Tabs : InOrder(todo[t]) /\ OfBoard(kind, todo[t])

ConnectionsCounted == free + Cardinality(Holders) <= PoolSize

\* Nothing ever changes column view of a post.
FirstViewed(k, p) == p # NoPost => p.view = FirstView(k)

\* A version v of the store that fits m, what the master has now.
Fits(k, m, v) ==
  /\ FirstViewed(k, v.post)
  /\ v.post # NoPost => m.post # NoPost
  /\ v.comment # NoComment => m.comment # NoComment
  /\ k # "online" => (v.poll <=> v.post # NoPost)

VersionsFit ==
  /\ Fits(kind, Master, Master) /\ Fits(kind, Master, slave)
  /\ \A i \in 1..Len(shipped) : Fits(kind, Master, shipped[i])

LookupsFit ==
  \A t \in Tabs :
    /\ FirstViewed(kind, kept[t]) /\ (kept[t] # NoPost => post # NoPost)
    /\ keptNote[t] # NoComment => comment # NoComment
    /\ \A step \in PostWrites : At(t, step) => kept[t].is = "live"
    /\ \A step \in NoteWrites : At(t, step) => keptNote[t].is = "live"

OneCreation ==
  \A t \in Tabs : Creates(t) => /\ post = NoPost
                                /\ \A u \in Tabs \ {t} : ~Creates(u)

OneInsertion ==
  \A t \in Tabs : Inserts(t) => /\ comment = NoComment
                                /\ \A u \in Tabs \ {t} : ~Inserts(u)

BoardsInv ==
  /\ BoardsTypeOK /\ StepsInOrder /\ ConnectionsCounted /\ VersionsFit
  /\ LookupsFit /\ OneCreation /\ OneInsertion /\ hits = visits

\* A like is taken back, a deleted post or a deleted comment comes back, only
\* by an edit on the humor or political board whose lookup was stale: the free
\* board writes nothing but text.
Undone ==
  \/ post'.like < post.like
  \/ post.is = "hidden" /\ post'.is = "live"
  \/ comment.is \in {"hidden", "erased"} /\ comment'.is = "live"

StaleEdit(t) ==
  \/ SaveRow(t) /\ (kept[t].like # post.like \/ kept[t].is # post.is)
  \/ SaveNote(t) /\ keptNote[t].is # comment.is

UndoneOnlyByStaleEdit ==
  [][Undone => kind # "online" /\ \E t \in Tabs : StaleEdit(t)]_boardsVars

=============================================================================
