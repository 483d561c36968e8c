----------------------------- MODULE SiteProofs -----------------------------
(***************************************************************************)
(* Theorems about the web site, for every set of tabs, accounts, requests, *)
(* nicknames, servers, polls and days: first each part by itself (Boards,  *)
(* Accounts, HallOfFame), then Site, which implements all three and so has *)
(* the properties of each, then what the operators of Pages compute.       *)
(***************************************************************************)
EXTENDS Site, Pages, FiniteSetTheorems, SequenceTheorems, TLAPS

-----------------------------------------------------------------------------
(***************************************************************************)
(* Boards.  The argument (BoardsInv): what is left of a handler keeps the  *)
(* order of its steps, so a commit is made by a handler that holds a       *)
(* connection, a row is saved by one that has looked it up, and what was   *)
(* looked up is a version of the post that the master has had.             *)
(***************************************************************************)

USE BoardsAssumption

-----------------------------------------------------------------------------
(* The steps a request starts with.                                        *)

Asked(k, call, l) ==
  /\ l \in Seq(Steps) /\ Len(l) >= 1 /\ InOrder(l) /\ OfBoard(k, l)
  /\ l[1] \notin PostWrites \cup NoteWrites
  /\ l[Len(l)] = "commit" => l[1] = "begin"
  /\ l[Len(l)] \in {"commit", "save"} => call = "create"
  /\ l[Len(l)] = "insert" => call = "write"

LEMMA HumorAsked ==
  ASSUME NEW call \in Calls
  PROVE  Asked("humor", call, Service("humor", call))
<1>1. CASE call = "create"
  <2>1. Service("humor", call) = <<"begin", "upload", "post", "poll", "commit">>
    BY <1>1 DEF Service, BoardReads, BoardWrites, CommentCalls,
                  Creation, HumorCreation
  <2>2. Asked("humor", call, <<"begin", "upload", "post", "poll", "commit">>)
    BY <1>1 DEF Asked, InOrder, OfBoard, Steps, PostWrites, NoteWrites
  <2> QED BY <2>1, <2>2
<1>2. CASE call = "list"
  <2>1. Service("humor", call) = <<"count", "page">>
    BY <1>2 DEF Service, BoardReads, BoardWrites, CommentCalls,
                  Reading, HumorReading
  <2>2. Asked("humor", call, <<"count", "page">>)
    BY <1>2 DEF Asked, InOrder, OfBoard, Steps, PostWrites, NoteWrites
  <2> QED BY <2>1, <2>2
<1>3. CASE call = "open"
  <2>1. Service("humor", call) = <<"find", "visit">>
    BY <1>3 DEF Service, BoardReads, BoardWrites, CommentCalls,
                  Reading, HumorReading
  <2>2. Asked("humor", call, <<"find", "visit">>)
    BY <1>3 DEF Asked, InOrder, OfBoard, Steps, PostWrites, NoteWrites
  <2> QED BY <2>1, <2>2
<1>4. CASE call = "editPage"
  <2>1. Service("humor", call) = <<"find">>
    BY <1>4 DEF Service, BoardReads, BoardWrites, CommentCalls,
                  Reading, HumorReading
  <2>2. Asked("humor", call, <<"find">>)
    BY <1>4 DEF Asked, InOrder, OfBoard, Steps, PostWrites, NoteWrites
  <2> QED BY <2>1, <2>2
<1>5. CASE call = "edit"
  <2>1. Service("humor", call) = <<"findMine", "saveRow">>
    BY <1>5 DEF Service, BoardReads, BoardWrites, CommentCalls,
                  Writing, HumorWriting
  <2>2. Asked("humor", call, <<"findMine", "saveRow">>)
    BY <1>5 DEF Asked, InOrder, OfBoard, Steps, PostWrites, NoteWrites
  <2> QED BY <2>1, <2>2
<1>6. CASE call = "delete"
  <2>1. Service("humor", call) = <<"findMine", "hide">>
    BY <1>6 DEF Service, BoardReads, BoardWrites, CommentCalls,
                  Writing, HumorWriting
  <2>2. Asked("humor", call, <<"findMine", "hide">>)
    BY <1>6 DEF Asked, InOrder, OfBoard, Steps, PostWrites, NoteWrites
  <2> QED BY <2>1, <2>2
<1>7. CASE call = "comments"
  <2>1. Service("humor", call) = <<"find", "page">>
    BY <1>7 DEF Service, BoardReads, BoardWrites, CommentCalls,
                  Comments, HumorComments
  <2>2. Asked("humor", call, <<"find", "page">>)
    BY <1>7 DEF Asked, InOrder, OfBoard, Steps, PostWrites, NoteWrites
  <2> QED BY <2>1, <2>2
<1>8. CASE call = "write"
  <2>1. Service("humor", call) = <<"find", "insert">>
    BY <1>8 DEF Service, BoardReads, BoardWrites, CommentCalls,
                  Comments, HumorComments
  <2>2. Asked("humor", call, <<"find", "insert">>)
    BY <1>8 DEF Asked, InOrder, OfBoard, Steps, PostWrites, NoteWrites
  <2> QED BY <2>1, <2>2
<1>9. CASE call = "rewrite"
  <2>1. Service("humor", call) = <<"find", "noteMine", "saveNote">>
    BY <1>9 DEF Service, BoardReads, BoardWrites, CommentCalls,
                  Comments, HumorComments
  <2>2. Asked("humor", call, <<"find", "noteMine", "saveNote">>)
    BY <1>9 DEF Asked, InOrder, OfBoard, Steps, PostWrites, NoteWrites
  <2> QED BY <2>1, <2>2
<1>10. CASE call = "erase"
  <2>1. Service("humor", call) = <<"find", "noteMine", "eraseNote">>
    BY <1>10 DEF Service, BoardReads, BoardWrites, CommentCalls,
                  Comments, HumorComments
  <2>2. Asked("humor", call, <<"find", "noteMine", "eraseNote">>)
    BY <1>10 DEF Asked, InOrder, OfBoard, Steps, PostWrites, NoteWrites
  <2> QED BY <2>1, <2>2
<1> QED BY <1>1, <1>2, <1>3, <1>4, <1>5, <1>6, <1>7, <1>8, <1>9, <1>10
        DEF Calls, BoardReads, BoardWrites, CommentCalls

LEMMA PoliticalAsked ==
  ASSUME NEW call \in Calls
  PROVE  Asked("political", call, Service("political", call))
<1>1. CASE call = "create"
  <2>1. Service("political", call) = <<"begin", "post", "poll", "commit">>
    BY <1>1 DEF Service, BoardReads, BoardWrites, CommentCalls,
                  Creation, PoliticalCreation
  <2>2. Asked("political", call, <<"begin", "post", "poll", "commit">>)
    BY <1>1 DEF Asked, InOrder, OfBoard, Steps, PostWrites, NoteWrites
  <2> QED BY <2>1, <2>2
<1>2. CASE call = "list"
  <2>1. Service("political", call) = <<"count", "page">>
    BY <1>2 DEF Service, BoardReads, BoardWrites, CommentCalls,
                  Reading, PoliticalReading
  <2>2. Asked("political", call, <<"count", "page">>)
    BY <1>2 DEF Asked, InOrder, OfBoard, Steps, PostWrites, NoteWrites
  <2> QED BY <2>1, <2>2
<1>3. CASE call = "open"
  <2>1. Service("political", call) = <<"find", "visit">>
    BY <1>3 DEF Service, BoardReads, BoardWrites, CommentCalls,
                  Reading, PoliticalReading
  <2>2. Asked("political", call, <<"find", "visit">>)
    BY <1>3 DEF Asked, InOrder, OfBoard, Steps, PostWrites, NoteWrites
  <2> QED BY <2>1, <2>2
<1>4. CASE call = "editPage"
  <2>1. Service("political", call) = <<"find", "visit">>
    BY <1>4 DEF Service, BoardReads, BoardWrites, CommentCalls,
                  Reading, PoliticalReading
  <2>2. Asked("political", call, <<"find", "visit">>)
    BY <1>4 DEF Asked, InOrder, OfBoard, Steps, PostWrites, NoteWrites
  <2> QED BY <2>1, <2>2
<1>5. CASE call = "edit"
  <2>1. Service("political", call) = <<"findMine", "saveRow">>
    BY <1>5 DEF Service, BoardReads, BoardWrites, CommentCalls,
                  Writing, PoliticalWriting
  <2>2. Asked("political", call, <<"findMine", "saveRow">>)
    BY <1>5 DEF Asked, InOrder, OfBoard, Steps, PostWrites, NoteWrites
  <2> QED BY <2>1, <2>2
<1>6. CASE call = "delete"
  <2>1. Service("political", call) = <<"findMine", "hide">>
    BY <1>6 DEF Service, BoardReads, BoardWrites, CommentCalls,
                  Writing, PoliticalWriting
  <2>2. Asked("political", call, <<"findMine", "hide">>)
    BY <1>6 DEF Asked, InOrder, OfBoard, Steps, PostWrites, NoteWrites
  <2> QED BY <2>1, <2>2
<1>7. CASE call = "comments"
  <2>1. Service("political", call) = <<"page">>
    BY <1>7 DEF Service, BoardReads, BoardWrites, CommentCalls,
                  Comments, PoliticalComments
  <2>2. Asked("political", call, <<"page">>)
    BY <1>7 DEF Asked, InOrder, OfBoard, Steps, PostWrites, NoteWrites
  <2> QED BY <2>1, <2>2
<1>8. CASE call = "write"
  <2>1. Service("political", call) = <<"find", "insert">>
    BY <1>8 DEF Service, BoardReads, BoardWrites, CommentCalls,
                  Comments, PoliticalComments
  <2>2. Asked("political", call, <<"find", "insert">>)
    BY <1>8 DEF Asked, InOrder, OfBoard, Steps, PostWrites, NoteWrites
  <2> QED BY <2>1, <2>2
<1>9. CASE call = "rewrite"
  <2>1. Service("political", call) = <<"noteMine", "saveNote">>
    BY <1>9 DEF Service, BoardReads, BoardWrites, CommentCalls,
                  Comments, PoliticalComments
  <2>2. Asked("political", call, <<"noteMine", "saveNote">>)
    BY <1>9 DEF Asked, InOrder, OfBoard, Steps, PostWrites, NoteWrites
  <2> QED BY <2>1, <2>2
<1>10. CASE call = "erase"
  <2>1. Service("political", call) = <<"noteMine", "eraseNote">>
    BY <1>10 DEF Service, BoardReads, BoardWrites, CommentCalls,
                  Comments, PoliticalComments
  <2>2. Asked("political", call, <<"noteMine", "eraseNote">>)
    BY <1>10 DEF Asked, InOrder, OfBoard, Steps, PostWrites, NoteWrites
  <2> QED BY <2>1, <2>2
<1> QED BY <1>1, <1>2, <1>3, <1>4, <1>5, <1>6, <1>7, <1>8, <1>9, <1>10
        DEF Calls, BoardReads, BoardWrites, CommentCalls

LEMMA OnlineAsked ==
  ASSUME NEW call \in Calls
  PROVE  Asked("online", call, Service("online", call))
<1>1. CASE call = "create"
  <2>1. Service("online", call) = <<"upload", "save">>
    BY <1>1 DEF Service, BoardReads, BoardWrites, CommentCalls,
                  Creation, OnlineCreation
  <2>2. Asked("online", call, <<"upload", "save">>)
    BY <1>1 DEF Asked, InOrder, OfBoard, Steps, PostWrites, NoteWrites
  <2> QED BY <2>1, <2>2
<1>2. CASE call = "list"
  <2>1. Service("online", call) = <<"count", "page">>
    BY <1>2 DEF Service, BoardReads, BoardWrites, CommentCalls,
                  Reading, OnlineReading
  <2>2. Asked("online", call, <<"count", "page">>)
    BY <1>2 DEF Asked, InOrder, OfBoard, Steps, PostWrites, NoteWrites
  <2> QED BY <2>1, <2>2
<1>3. CASE call = "open"
  <2>1. Service("online", call) = <<"find", "visit">>
    BY <1>3 DEF Service, BoardReads, BoardWrites, CommentCalls,
                  Reading, OnlineReading
  <2>2. Asked("online", call, <<"find", "visit">>)
    BY <1>3 DEF Asked, InOrder, OfBoard, Steps, PostWrites, NoteWrites
  <2> QED BY <2>1, <2>2
<1>4. CASE call = "editPage"
  <2>1. Service("online", call) = <<"find">>
    BY <1>4 DEF Service, BoardReads, BoardWrites, CommentCalls,
                  Reading, OnlineReading
  <2>2. Asked("online", call, <<"find">>)
    BY <1>4 DEF Asked, InOrder, OfBoard, Steps, PostWrites, NoteWrites
  <2> QED BY <2>1, <2>2
<1>5. CASE call = "edit"
  <2>1. Service("online", call) = <<"find", "saveText">>
    BY <1>5 DEF Service, BoardReads, BoardWrites, CommentCalls,
                  Writing, OnlineWriting
  <2>2. Asked("online", call, <<"find", "saveText">>)
    BY <1>5 DEF Asked, InOrder, OfBoard, Steps, PostWrites, NoteWrites
  <2> QED BY <2>1, <2>2
<1>6. CASE call = "delete"
  <2>1. Service("online", call) = <<"find", "hide">>
    BY <1>6 DEF Service, BoardReads, BoardWrites, CommentCalls,
                  Writing, OnlineWriting
  <2>2. Asked("online", call, <<"find", "hide">>)
    BY <1>6 DEF Asked, InOrder, OfBoard, Steps, PostWrites, NoteWrites
  <2> QED BY <2>1, <2>2
<1>7. CASE call = "comments"
  <2>1. Service("online", call) = <<"page">>
    BY <1>7 DEF Service, BoardReads, BoardWrites, CommentCalls,
                  Comments, OnlineComments
  <2>2. Asked("online", call, <<"page">>)
    BY <1>7 DEF Asked, InOrder, OfBoard, Steps, PostWrites, NoteWrites
  <2> QED BY <2>1, <2>2
<1>8. CASE call = "write"
  <2>1. Service("online", call) = <<"find", "insert">>
    BY <1>8 DEF Service, BoardReads, BoardWrites, CommentCalls,
                  Comments, OnlineComments
  <2>2. Asked("online", call, <<"find", "insert">>)
    BY <1>8 DEF Asked, InOrder, OfBoard, Steps, PostWrites, NoteWrites
  <2> QED BY <2>1, <2>2
<1>9. CASE call = "rewrite"
  <2>1. Service("online", call) = <<"note", "updateNote">>
    BY <1>9 DEF Service, BoardReads, BoardWrites, CommentCalls,
                  Comments, OnlineComments
  <2>2. Asked("online", call, <<"note", "updateNote">>)
    BY <1>9 DEF Asked, InOrder, OfBoard, Steps, PostWrites, NoteWrites
  <2> QED BY <2>1, <2>2
<1>10. CASE call = "erase"
  <2>1. Service("online", call) = <<"note", "hideNote">>
    BY <1>10 DEF Service, BoardReads, BoardWrites, CommentCalls,
                  Comments, OnlineComments
  <2>2. Asked("online", call, <<"note", "hideNote">>)
    BY <1>10 DEF Asked, InOrder, OfBoard, Steps, PostWrites, NoteWrites
  <2> QED BY <2>1, <2>2
<1> QED BY <1>1, <1>2, <1>3, <1>4, <1>5, <1>6, <1>7, <1>8, <1>9, <1>10
        DEF Calls, BoardReads, BoardWrites, CommentCalls

LEMMA ServiceAsked ==
  ASSUME NEW k \in Kinds, NEW call \in Calls
  PROVE  Asked(k, call, Service(k, call))
BY HumorAsked, PoliticalAsked, OnlineAsked DEF Kinds

\* A lookup before the rest does no harm off a transaction.
LEMMA AskedAfterLookup ==
  ASSUME NEW call \in Calls, NEW l, Asked("online", call, l),
         NEW g \in {"owned", "noteOwned", "find"}
  PROVE  Asked("online", call, <<g>> \o l)
<1> DEFINE s == <<g>>
           m == s \o l
<1>1. s \in Seq(Steps) /\ Len(s) = 1 /\ s[1] = g
  BY DEF Steps
<1>2. l \in Seq(Steps) /\ Len(l) \in Nat /\ Len(l) >= 1
  BY DEF Asked
<1>3. m \in Seq(Steps) /\ Len(m) = Len(l) + 1
      /\ \A i \in 1..Len(m) : m[i] = IF i = 1 THEN g ELSE l[i - 1]
  <2> HIDE DEF s
  <2>1. m \in Seq(Steps) /\ Len(m) = Len(s) + Len(l)
        /\ \A i \in 1..Len(s) + Len(l) :
             m[i] = IF i <= Len(s) THEN s[i] ELSE l[i - Len(s)]
    BY <1>1, <1>2, ConcatProperties
  <2> QED BY <1>1, <1>2, <2>1
<1> HIDE DEF m
<1>4. m[1] = g /\ m[Len(m)] = l[Len(l)]
  BY <1>2, <1>3
<1>5. OfBoard("online", m)
  <2>1. \A i \in 1..Len(l) : l[i] \notin {"begin", "post", "poll", "commit", "saveRow", "saveNote"}
    BY DEF Asked, OfBoard
  <2>2. g \notin {"begin", "post", "poll", "commit", "saveRow", "saveNote"}
    OBVIOUS
  <2>3. \A i \in 1..Len(m) : i # 1 => i - 1 \in 1..Len(l)
    BY <1>2, <1>3
  <2> QED BY <1>3, <2>1, <2>2, <2>3 DEF OfBoard
<1>6. InOrder(m)
  <2>1. \A i \in 1..Len(l) : l[i] \notin {"begin", "post", "poll", "commit"}
    BY DEF Asked, OfBoard
  <2>2. g \notin {"begin", "post", "poll", "commit", "save", "insert"}
                  \cup PostWrites \cup NoteWrites
    BY DEF PostWrites, NoteWrites
  <2>3. SUFFICES ASSUME NEW i \in 1..Len(m), i > 1
                 PROVE  /\ m[i] \notin {"begin", "post", "poll", "commit"}
                        /\ m[i] \in {"save", "insert"} => i = Len(m)
                        /\ m[i] \in PostWrites => m[i - 1] \in {"findMine", "find"}
                        /\ m[i] \in NoteWrites => m[i - 1] \in {"noteMine", "note"}
    BY <1>2, <1>3, <1>4, <2>2 DEF InOrder
  <2>4. m[i] = l[i - 1] /\ i - 1 \in 1..Len(l)
    BY <1>2, <1>3, <2>3
  <2>5. m[i] \in {"save", "insert"} => i = Len(m)
    BY <1>2, <1>3, <2>4 DEF Asked, InOrder
  <2>6. ASSUME m[i] \in PostWrites \cup NoteWrites
        PROVE  m[i - 1] = l[(i - 1) - 1] /\ i - 1 > 1
    <3>1. i - 1 # 1
      BY <2>4, <2>6 DEF Asked
    <3>2. i > 2 /\ (i - 1) - 1 = i - 2 /\ i - 1 \in 1..Len(m) /\ i - 1 # 1
      BY <1>2, <1>3, <2>3, <3>1
    <3> QED BY <1>3, <3>2
  <2>7. m[i] \in PostWrites => m[i - 1] \in {"findMine", "find"}
    BY <2>4, <2>6 DEF Asked, InOrder
  <2>8. m[i] \in NoteWrites => m[i - 1] \in {"noteMine", "note"}
    BY <2>4, <2>6 DEF Asked, InOrder
  <2> QED BY <2>1, <2>4, <2>5, <2>7, <2>8
<1>7. g \notin PostWrites \cup NoteWrites
  BY DEF PostWrites, NoteWrites
<1> QED BY <1>1, <1>2, <1>3, <1>4, <1>5, <1>6, <1>7 DEF Asked, OfBoard, m

LEMMA GateLooks ==
  ASSUME NEW k \in Kinds, NEW call \in Calls
  PROVE  LET g == GateSteps(Gate(k, call))
         IN  \/ g = <<>>
             \/ k = "online" /\ g \in {<<"owned">>, <<"noteOwned">>, <<"find">>}
BY DEF GateSteps, Gate, Kinds, Calls, BoardReads, BoardWrites, CommentCalls,
       BoardRoutes, CommentRoutes, HumorRoutes, PoliticalRoutes, OnlineRoutes,
       HumorCommentRoutes, PoliticalCommentRoutes, OnlineCommentRoutes

LEMMA RequestAsked ==
  ASSUME NEW k \in Kinds, NEW call \in Calls
  PROVE  Asked(k, call, Handler(k, call))
<1> DEFINE g == GateSteps(Gate(k, call))
           s == Service(k, call)
<1>1. Asked(k, call, s) /\ s \in Seq(Steps)
  BY ServiceAsked DEF Asked
<1>2. Handler(k, call) = g \o s
  BY DEF Handler
<1>3. \/ g = <<>>
      \/ k = "online" /\ \E x \in {"owned", "noteOwned", "find"} : g = <<x>>
  BY GateLooks
<1> HIDE DEF g, s
<1>4. CASE g = <<>>
  BY <1>1, <1>2, <1>4, ConcatEmptySeq
<1>5. ASSUME k = "online", NEW x \in {"owned", "noteOwned", "find"}, g = <<x>>
      PROVE  Asked(k, call, Handler(k, call))
  BY <1>1, <1>2, <1>5, AskedAfterLookup
<1> QED BY <1>3, <1>4, <1>5

-----------------------------------------------------------------------------
(* The steps that are left.                                                *)

LEMMA TailInOrder ==
  ASSUME NEW k, NEW l \in Seq(Steps), l # <<>>, InOrder(l), OfBoard(k, l)
  PROVE  LET r == Tail(l)
         IN  /\ r \in Seq(Steps) /\ InOrder(r) /\ OfBoard(k, r)
             /\ r # <<>> => /\ r[Len(r)] = l[Len(l)] /\ Head(r) # "begin"
                            /\ Head(r) \in PostWrites =>
                                 Head(l) \in {"findMine", "find"}
                            /\ Head(r) \in NoteWrites =>
                                 Head(l) \in {"noteMine", "note"}
<1> DEFINE r == Tail(l)
<1>1. /\ Len(l) \in Nat \ {0} /\ r \in Seq(Steps) /\ Len(r) = Len(l) - 1
      /\ \A i \in 1..Len(r) : r[i] = l[i + 1]
      /\ Head(l) = l[1]
      /\ r # <<>> => Len(r) >= 1 /\ Head(r) = r[1]
  OBVIOUS
<1> HIDE DEF r
<1>2. OfBoard(k, r)
  BY <1>1 DEF OfBoard
<1>3. \A i \in 1..Len(r) : i + 1 \in 1..Len(l) /\ i + 1 > 1 /\ i + 1 # 1
  BY <1>1
<1>4. r # <<>> => r[Len(r)] = l[Len(l)] /\ Len(r) \in 1..Len(r)
  BY <1>1, <1>3
<1>5. ASSUME NEW i \in 1..Len(r)
      PROVE  /\ r[i] # "begin"
             /\ r[i] \in {"post", "poll"} => r[Len(r)] = "commit"
             /\ r[i] \in {"commit", "save", "insert"} => i = Len(r)
             /\ r[i] \in PostWrites => l[i] \in {"findMine", "find"}
             /\ r[i] \in NoteWrites => l[i] \in {"noteMine", "note"}
  <2>1. r[i] = l[i + 1] /\ i + 1 \in 1..Len(l) /\ i + 1 > 1 /\ (i + 1) - 1 = i
    BY <1>1, <1>3
  <2>2. r # <<>>
    BY <1>1
  <2>3. l[Len(l)] = r[Len(r)]
    BY <1>4, <2>2
  <2>4. i + 1 = Len(l) => i = Len(r)
    BY <1>1
  <2> QED BY <2>1, <2>3, <2>4 DEF InOrder
<1>6. InOrder(r)
  <2> SUFFICES ASSUME NEW i \in 1..Len(r), i > 1
               PROVE  l[i] = r[i - 1]
    BY <1>5 DEF InOrder
  <2>1. i - 1 \in 1..Len(r) /\ (i - 1) + 1 = i
    BY <1>1
  <2> QED BY <1>1, <2>1
<1>7. r # <<>> => 1 \in 1..Len(r)
  BY <1>1
<1> QED BY <1>1, <1>2, <1>4, <1>5, <1>6, <1>7 DEF r

\* A step of a handler, its last one or not.
LEMMA Advancing ==
  ASSUME BoardsInv, NEW t \in Tabs, todo[t] # <<>>,
         NEW l \in {<<>>, Tail(todo[t])},
         todo' = [todo EXCEPT ![t] = l], kind' = kind
  PROVE  /\ StepsInOrder'
         /\ \A u \in Tabs : /\ Creates(u)' => Creates(u)
                            /\ Inserts(u)' => Inserts(u)
         /\ Holders' \subseteq Holders \cup {t}
         /\ ~At(t, "begin") => Holders' \subseteq Holders
         /\ l = <<>> => /\ Holders' = Holders \ {t}
                        /\ ~Creates(t)' /\ ~Inserts(t)'
<1>1. todo \in [Tabs -> Seq(Steps)] /\ todo[t] \in Seq(Steps)
      /\ InOrder(todo[t]) /\ OfBoard(kind, todo[t])
  BY DEF BoardsInv, StepsInOrder
<1>2. l \in Seq(Steps) /\ InOrder(l) /\ OfBoard(kind, l)
  <2>1. <<>> \in Seq(Steps) /\ InOrder(<<>>) /\ OfBoard(kind, <<>>)
    BY DEF InOrder, OfBoard
  <2> DEFINE r == Tail(todo[t])
  <2>2. r \in Seq(Steps) /\ InOrder(r) /\ OfBoard(kind, r)
    BY <1>1, TailInOrder
  <2>3. l = <<>> \/ l = r
    OBVIOUS
  <2> HIDE DEF r
  <2> QED BY <2>1, <2>2, <2>3
<1>3. todo' \in [Tabs -> Seq(Steps)] /\ todo'[t] = l
      /\ \A u \in Tabs \ {t} : todo'[u] = todo[u]
  BY <1>1, <1>2
<1>4. StepsInOrder'
  BY <1>2, <1>3 DEF BoardsInv, StepsInOrder
<1>5. l # <<>> => l[Len(l)] = todo[t][Len(todo[t])]
  BY <1>1, TailInOrder
<1>6. ASSUME NEW u \in Tabs, NEW S, Ends(u, S)' PROVE Ends(u, S)
  <2>1. CASE u = t
    BY <1>3, <1>5, <1>6, <2>1 DEF Ends
  <2>2. CASE u # t
    BY <1>3, <1>6, <2>2 DEF Ends
  <2> QED BY <2>1, <2>2
<1>7. \A u \in Tabs \ {t} : At(u, "begin")' = At(u, "begin")
  BY <1>3 DEF At
<1>8. Holders' \subseteq Holders \cup {t}
  BY <1>6, <1>7 DEF Holders
<1>9. ~At(t, "begin") => Holders' \subseteq Holders
  BY <1>6, <1>7 DEF Holders
<1>10. ASSUME l = <<>>
       PROVE  /\ Holders' = Holders \ {t}
              /\ ~Creates(t)' /\ ~Inserts(t)'
  <2>1. \A S : ~Ends(t, S)'
    BY <1>3, <1>10 DEF Ends
  <2>2. \A u \in Tabs \ {t} : \A S : Ends(u, S)' = Ends(u, S)
    BY <1>3 DEF Ends
  <2>3. Holders' \subseteq Tabs /\ Holders \subseteq Tabs
    BY DEF Holders
  <2> QED BY <1>7, <2>1, <2>2, <2>3 DEF Holders, Creates, Inserts
<1> QED BY <1>4, <1>6, <1>8, <1>9, <1>10 DEF Creates, Inserts

\* A request: it creates a post, or writes a comment, only when it is asked to.
LEMMA Requesting ==
  ASSUME BoardsInv, NEW t \in Tabs, NEW call \in Calls, Request(t, call)
  PROVE  /\ StepsInOrder'
         /\ \A u \in Tabs \ {t} : /\ Creates(u)' = Creates(u)
                                  /\ Inserts(u)' = Inserts(u)
         /\ Creates(t)' => call = "create"
         /\ Inserts(t)' => call = "write"
         /\ Holders' \subseteq Holders
         /\ \A step \in PostWrites \cup NoteWrites : ~At(t, step)'
<1> DEFINE l == Handler(kind, call)
<1>1. kind \in Kinds /\ todo \in [Tabs -> Seq(Steps)]
  BY DEF BoardsInv, BoardsTypeOK, StepsInOrder
<1>2. Asked(kind, call, l)
  BY <1>1, RequestAsked
<1>3. todo' = [todo EXCEPT ![t] = l] /\ kind' = kind
  BY DEF Request
<1> HIDE DEF l
<1>4. l \in Seq(Steps) /\ l # <<>> /\ Head(l) = l[1]
  BY <1>2 DEF Asked
<1>5. todo' \in [Tabs -> Seq(Steps)] /\ todo'[t] = l
      /\ \A u \in Tabs \ {t} : todo'[u] = todo[u]
  BY <1>1, <1>3, <1>4
<1>6. StepsInOrder'
  BY <1>2, <1>3, <1>5 DEF BoardsInv, StepsInOrder, Asked
<1>7. \A u \in Tabs \ {t} : \A S : Ends(u, S)' = Ends(u, S)
  BY <1>5 DEF Ends
<1>8. \A u \in Tabs \ {t} : At(u, "begin")' = At(u, "begin")
  BY <1>5 DEF At
<1>9. Ends(t, {"commit"})' => At(t, "begin")'
  BY <1>2, <1>4, <1>5 DEF Asked, Ends, At
<1>10. Holders' \subseteq Holders
  BY <1>7, <1>8, <1>9 DEF Holders
<1>11. Creates(t)' => call = "create"
  BY <1>2, <1>5 DEF Asked, Creates, Ends
<1>12. Inserts(t)' => call = "write"
  BY <1>2, <1>5 DEF Asked, Inserts, Ends
<1>13. \A step \in PostWrites \cup NoteWrites : ~At(t, step)'
  BY <1>2, <1>4, <1>5 DEF Asked, At
<1> QED BY <1>6, <1>7, <1>10, <1>11, <1>12, <1>13 DEF Creates, Inserts

-----------------------------------------------------------------------------
(* The connections.                                                        *)

LEMMA HoldersFinite ==
  IsFiniteSet(Holders) /\ Cardinality(Holders) \in Nat
<1> Holders \in SUBSET Tabs /\ IsFiniteSet(Tabs)
  BY DEF Holders, BoardsAssumption
<1> QED BY FS_Subset, FS_CardinalityType

\* Nothing is taken, and whoever leaves gives back at most what it holds.
LEMMA Holding ==
  ASSUME BoardsInv, free' \in Nat,
         \/ free' = free /\ Holders' \subseteq Holders
         \/ free' = free - 1
            /\ \E t \in Tabs : Holders' \subseteq Holders \cup {t}
         \/ free' = free + 1 /\ \E t \in Holders : Holders' = Holders \ {t}
  PROVE  free' \in 0..PoolSize /\ ConnectionsCounted'
<1> DEFINE n == Cardinality(Holders)
           m == Cardinality(Holders')
<1>1. IsFiniteSet(Holders) /\ n \in Nat
  BY HoldersFinite
<1>2. free \in Nat /\ PoolSize \in Nat /\ free + n <= PoolSize
  BY DEF BoardsInv, BoardsTypeOK, ConnectionsCounted, BoardsAssumption
<1>3. ASSUME free' = free, Holders' \subseteq Holders
      PROVE  m \in Nat /\ free' + m <= PoolSize
  <2>1. m \in Nat /\ m <= n
    BY <1>1, <1>3, FS_Subset, FS_CardinalityType
  <2> QED BY <1>2, <1>3, <2>1, <1>1
<1>4. ASSUME free' = free - 1, NEW t \in Tabs, Holders' \subseteq Holders \cup {t}
      PROVE  m \in Nat /\ free' + m <= PoolSize
  <2>1. IsFiniteSet(Holders \cup {t})
    BY <1>1, FS_AddElement
  <2>2. Cardinality(Holders \cup {t}) = IF t \in Holders THEN n ELSE n + 1
    BY <1>1, FS_AddElement
  <2>3. m \in Nat /\ m <= Cardinality(Holders \cup {t})
    BY <1>4, <2>1, FS_Subset, FS_CardinalityType
  <2> HIDE DEF m, n
  <2>4. m <= n + 1
    BY <1>1, <2>2, <2>3
  <2> QED BY <1>1, <1>2, <1>4, <2>3, <2>4
<1>5. ASSUME free' = free + 1, NEW t \in Holders, Holders' = Holders \ {t}
      PROVE  m \in Nat /\ free' + m <= PoolSize
  <2>1. m = n - 1 /\ IsFiniteSet(Holders')
    BY <1>1, <1>5, FS_RemoveElement
  <2>2. m \in Nat
    BY <2>1, FS_CardinalityType
  <2> HIDE DEF m, n
  <2> QED BY <1>1, <1>2, <1>5, <2>1, <2>2
<1>6. m \in Nat /\ free' + m <= PoolSize
  BY <1>3, <1>4, <1>5
<1>7. ConnectionsCounted'
  BY <1>6 DEF ConnectionsCounted
<1>8. free' \in 0..PoolSize
  <2>1. \A x, y, z \in Nat : x + y <= z => x \in 0..z
    OBVIOUS
  <2> QED BY <1>2, <1>6, <2>1
<1> QED BY <1>7, <1>8

-----------------------------------------------------------------------------
(* The store.                                                              *)

StoreOK == /\ kind \in Kinds /\ Master \in Version /\ slave \in Version
           /\ shipped \in Seq(Version)
           /\ VersionsFit

LEMMA StoreIsOK ==
  BoardsInv => StoreOK /\ post \in Post /\ poll \in BOOLEAN /\ comment \in Comment
BY DEF BoardsInv, BoardsTypeOK, StoreOK, Master, Version

LEMMA StoreSame ==
  ASSUME BoardsInv, kind' = kind, UNCHANGED boardStore
  PROVE  StoreOK'
<1>1. StoreOK /\ Master' = Master /\ slave' = slave /\ shipped' = shipped
  BY StoreIsOK DEF Master, boardStore
<1> QED BY <1>1 DEF StoreOK, VersionsFit

\* A version that fits still fits when the rows of the master are not emptied.
LEMMA StillFits ==
  ASSUME NEW k, NEW m, NEW n, NEW v, Fits(k, m, v),
         m.post # NoPost => n.post # NoPost,
         m.comment # NoComment => n.comment # NoComment
  PROVE  Fits(k, n, v)
BY DEF Fits

\* What is written is typed, has the view it started with, and is not empty.
LEMMA StoreWritten ==
  ASSUME BoardsInv, kind' = kind,
         post' \in Post, poll' \in BOOLEAN, comment' \in Comment,
         FirstViewed(kind, post'),
         post' = post \/ post' # NoPost,
         comment' = comment \/ comment' # NoComment,
         kind # "online" => (poll' <=> post' # NoPost),
         ShipBoards
  PROVE  StoreOK'
<1> DEFINE old == Master
           new == Master'
<1>1. StoreOK
  BY StoreIsOK
<1>2. new \in Version /\ new.post = post' /\ new.poll = poll'
      /\ new.comment = comment'
  BY DEF Master, Version
<1>3. slave' = slave /\ shipped' = Append(shipped, new)
  BY DEF ShipBoards
<1>4. /\ old.post # NoPost => new.post # NoPost
      /\ old.comment # NoComment => new.comment # NoComment
  BY <1>2 DEF Master
<1>5. Fits(kind, new, new)
  BY <1>2 DEF Fits
<1>6. Fits(kind, new, slave)
  BY <1>1, <1>4, StillFits DEF StoreOK, VersionsFit
<1>7. shipped' \in Seq(Version) /\ Len(shipped') = Len(shipped) + 1
      /\ Len(shipped) \in Nat
      /\ \A i \in 1..Len(shipped') :
           shipped'[i] = IF i \in 1..Len(shipped) THEN shipped[i] ELSE new
  <2> HIDE DEF new
  <2> QED BY <1>1, <1>2, <1>3 DEF StoreOK
<1>8. ASSUME NEW i \in 1..Len(shipped')
      PROVE  Fits(kind, new, shipped'[i])
  <2>1. CASE i \in 1..Len(shipped)
    <3>1. shipped'[i] = shipped[i] /\ Fits(kind, old, shipped[i])
      BY <1>1, <1>7, <2>1 DEF StoreOK, VersionsFit
    <3> HIDE DEF old, new
    <3>2. Fits(kind, new, shipped[i])
      BY <1>4, <3>1, StillFits
    <3> QED BY <3>1, <3>2
  <2>2. CASE i \notin 1..Len(shipped)
    <3> HIDE DEF new
    <3>1. shipped'[i] = new
      BY <1>7, <2>2
    <3> QED BY <1>5, <3>1
  <2> QED BY <2>1, <2>2
<1>9. VersionsFit'
  BY <1>3, <1>5, <1>6, <1>8 DEF VersionsFit
<1> QED BY <1>1, <1>2, <1>3, <1>7, <1>9 DEF StoreOK

LEMMA Replicating ==
  ASSUME BoardsInv, ReplicateBoards
  PROVE  StoreOK'
<1>1. StoreOK /\ shipped # <<>>
  BY StoreIsOK DEF ReplicateBoards
<1>2. kind' = kind /\ Master' = Master
  BY DEF ReplicateBoards, Master
<1>3. /\ slave' = shipped[1] /\ 1 \in 1..Len(shipped)
      /\ shipped' \in Seq(Version) /\ slave' \in Version
      /\ \A i \in 1..Len(shipped') :
           shipped'[i] = shipped[i + 1] /\ i + 1 \in 1..Len(shipped)
  BY <1>1 DEF StoreOK, ReplicateBoards
<1>4. VersionsFit'
  BY <1>1, <1>2, <1>3 DEF StoreOK, VersionsFit
<1> QED BY <1>1, <1>2, <1>3, <1>4 DEF StoreOK

-----------------------------------------------------------------------------
(* What the handlers have looked up.                                       *)

LookupsOK == /\ kept \in [Tabs -> Post] /\ keptNote \in [Tabs -> Comment]
             /\ LookupsFit

\* What the invariant says of one tab's lookups, given what the master has.
TabFits(t, m, l, p, c) ==
  /\ p \in Post /\ c \in Comment
  /\ FirstViewed(kind, p) /\ (p # NoPost => m.post # NoPost)
  /\ c # NoComment => m.comment # NoComment
  /\ l # <<>> /\ Head(l) \in PostWrites => p.is = "live"
  /\ l # <<>> /\ Head(l) \in NoteWrites => c.is = "live"

LEMMA TabsFit ==
  LookupsOK <=> /\ kept \in [Tabs -> Post] /\ keptNote \in [Tabs -> Comment]
                /\ \A t \in Tabs :
                     TabFits(t, Master, todo[t], kept[t], keptNote[t])
BY DEF LookupsOK, LookupsFit, TabFits, At, Master

LEMMA EmptyRows ==
  /\ NoPost \in Post /\ NoComment \in Comment
  /\ \A k : FirstViewed(k, NoPost)
BY DEF NoPost, NoComment, Post, Comment, FirstViewed

\* One tab's handler is rewritten, and no row of the master is emptied.
LEMMA Looking ==
  ASSUME BoardsInv, NEW t \in Tabs, NEW l, NEW p, NEW c, kind' = kind,
         todo' = [todo EXCEPT ![t] = l],
         kept' = [kept EXCEPT ![t] = p],
         keptNote' = [keptNote EXCEPT ![t] = c],
         post # NoPost => post' # NoPost,
         comment # NoComment => comment' # NoComment,
         TabFits(t, Master, l, p, c)
  PROVE  LookupsOK'
<1>1. LookupsOK /\ todo \in [Tabs -> Seq(Steps)]
  BY DEF BoardsInv, BoardsTypeOK, LookupsOK, StepsInOrder
<1>2. kept \in [Tabs -> Post] /\ keptNote \in [Tabs -> Comment]
      /\ p \in Post /\ c \in Comment
  BY <1>1 DEF LookupsOK, TabFits
<1>3. kept' \in [Tabs -> Post] /\ keptNote' \in [Tabs -> Comment]
  BY <1>2
<1>4. /\ Master.post # NoPost => Master'.post # NoPost
      /\ Master.comment # NoComment => Master'.comment # NoComment
  BY DEF Master
<1>5. ASSUME NEW u \in Tabs
      PROVE  TabFits(u, Master', todo'[u], kept'[u], keptNote'[u])
  <2>1. CASE u = t
    <3>1. todo'[u] = l /\ kept'[u] = p /\ keptNote'[u] = c
      BY <1>1, <1>2, <2>1
    <3> QED BY <1>4, <3>1 DEF TabFits
  <2>2. CASE u # t
    <3>1. todo'[u] = todo[u] /\ kept'[u] = kept[u] /\ keptNote'[u] = keptNote[u]
      BY <1>1, <1>2, <2>2
    <3>2. TabFits(u, Master, todo[u], kept[u], keptNote[u])
      BY <1>1, TabsFit
    <3> QED BY <1>4, <3>1, <3>2 DEF TabFits
  <2> QED BY <2>1, <2>2
<1> QED BY <1>3, <1>5 DEF LookupsOK, LookupsFit, TabFits, At, Master

-----------------------------------------------------------------------------
(* One row is created, one comment is written.                             *)

LEMMA OneStill ==
  ASSUME BoardsInv,
         \A u \in Tabs : /\ Creates(u)' => Creates(u)
                         /\ Inserts(u)' => Inserts(u),
         post' = post \/ \A u \in Tabs : ~Creates(u)',
         comment' = comment \/ \A u \in Tabs : ~Inserts(u)'
  PROVE  OneCreation' /\ OneInsertion'
<1>1. ASSUME NEW t \in Tabs, Creates(t)'
      PROVE  post' = NoPost /\ \A u \in Tabs \ {t} : ~Creates(u)'
  <2>1. Creates(t)
    BY <1>1
  <2>2. post = NoPost /\ \A u \in Tabs \ {t} : ~Creates(u)
    BY <2>1 DEF BoardsInv, OneCreation
  <2>3. \A u \in Tabs \ {t} : ~Creates(u)'
    BY <2>2
  <2>4. post' = NoPost
    BY <1>1, <2>2
  <2> QED BY <2>3, <2>4
<1>2. ASSUME NEW t \in Tabs, Inserts(t)'
      PROVE  comment' = NoComment /\ \A u \in Tabs \ {t} : ~Inserts(u)'
  <2>1. Inserts(t)
    BY <1>2
  <2>2. comment = NoComment /\ \A u \in Tabs \ {t} : ~Inserts(u)
    BY <2>1 DEF BoardsInv, OneInsertion
  <2>3. \A u \in Tabs \ {t} : ~Inserts(u)'
    BY <2>2
  <2>4. comment' = NoComment
    BY <1>2, <2>2
  <2> QED BY <2>3, <2>4
<1> QED BY <1>1, <1>2 DEF OneCreation, OneInsertion

\* At its last step the one that creates, or writes, is the only one.
LEMMA LastStep ==
  ASSUME BoardsInv, NEW t \in Tabs, NEW step, At(t, step)
  PROVE  /\ step \in {"commit", "save"} => Creates(t)
         /\ step \in {"post", "poll", "commit"} => t \in Holders
         /\ step = "insert" => Inserts(t)
<1>1. todo[t] \in Seq(Steps) /\ todo[t] # <<>> /\ InOrder(todo[t])
      /\ Head(todo[t]) = step
  BY DEF BoardsInv, StepsInOrder, At
<1>2. 1 \in 1..Len(todo[t]) /\ todo[t][1] = step
  BY <1>1
<1>3. /\ step \in {"post", "poll"} => todo[t][Len(todo[t])] = "commit"
      /\ step \in {"commit", "save", "insert"} => todo[t][Len(todo[t])] = step
  BY <1>1, <1>2 DEF InOrder
<1>4. step \in {"post", "poll", "commit"} => t \in Holders
  BY <1>1, <1>3 DEF Holders, Ends, At
<1> QED BY <1>1, <1>3, <1>4 DEF Creates, Inserts, Ends

\* No row of the master is empty under a handler that writes on it.
LEMMA WritesOnRows ==
  ASSUME BoardsInv, NEW t \in Tabs, NEW step, At(t, step)
  PROVE  /\ step \in PostWrites => /\ kept[t].is = "live" /\ kept[t] # NoPost
                                   /\ FirstViewed(kind, kept[t]) /\ post # NoPost
                                   /\ \A u \in Tabs : ~Creates(u)
         /\ step \in NoteWrites => /\ keptNote[t].is = "live"
                                   /\ keptNote[t] # NoComment
                                   /\ comment # NoComment
                                   /\ \A u \in Tabs : ~Inserts(u)
BY DEF BoardsInv, LookupsFit, OneCreation, OneInsertion, NoPost, NoComment

\* Which steps there are on which board.
LEMMA StepOfBoard ==
  ASSUME BoardsInv, NEW t \in Tabs, NEW step, At(t, step)
  PROVE  /\ step \in {"commit", "saveRow", "saveNote"} => kind # "online"
         /\ step \in {"save", "saveText"} => kind = "online"
<1>1. todo[t] \in Seq(Steps) /\ todo[t] # <<>> /\ OfBoard(kind, todo[t])
      /\ Head(todo[t]) = step
  BY DEF BoardsInv, StepsInOrder, At
<1>2. 1 \in 1..Len(todo[t]) /\ todo[t][1] = step
  BY <1>1
<1> QED BY <1>1, <1>2 DEF OfBoard

-----------------------------------------------------------------------------
(* One step of a handler, put together.                                    *)

LEMMA Parts ==
  ASSUME StoreOK', StepsInOrder', free' \in 0..PoolSize, ConnectionsCounted',
         LookupsOK', OneCreation', OneInsertion',
         hits' \in Nat, visits' = hits', requests' \in 0..MaxRequests
  PROVE  BoardsInv'
<1>1. BoardsTypeOK'
  BY DEF BoardsTypeOK, StoreOK, LookupsOK, Master, Version
<1> QED BY <1>1 DEF BoardsInv, StoreOK, LookupsOK

LEMMA HandlerStep ==
  ASSUME BoardsInv, NEW t \in Tabs, todo[t] # <<>>,
         NEW l \in {<<>>, Tail(todo[t])}, NEW p, NEW c,
         TabFits(t, Master, l, p, c),
         todo' = [todo EXCEPT ![t] = l], kept' = [kept EXCEPT ![t] = p],
         keptNote' = [keptNote EXCEPT ![t] = c],
         kind' = kind, requests' = requests, StoreOK',
         post # NoPost => post' # NoPost,
         comment # NoComment => comment' # NoComment,
         post' = post \/ (l = <<>> /\ \A u \in Tabs \ {t} : ~Creates(u)),
         comment' = comment \/ (l = <<>> /\ \A u \in Tabs \ {t} : ~Inserts(u)),
         \/ free' = free /\ (l = <<>> \/ ~At(t, "begin"))
         \/ free' = free - 1 /\ free > 0
         \/ free' = free + 1 /\ l = <<>> /\ t \in Holders,
         \/ hits' = hits /\ visits' = visits
         \/ hits' = hits + 1 /\ visits' = visits + 1
  PROVE  BoardsInv'
<1>1. /\ StepsInOrder'
      /\ \A u \in Tabs : /\ Creates(u)' => Creates(u)
                         /\ Inserts(u)' => Inserts(u)
      /\ Holders' \subseteq Holders \cup {t}
      /\ ~At(t, "begin") => Holders' \subseteq Holders
      /\ l = <<>> => /\ Holders' = Holders \ {t}
                     /\ ~Creates(t)' /\ ~Inserts(t)'
  BY Advancing
<1>2. hits \in Nat /\ visits = hits /\ requests \in 0..MaxRequests
      /\ free \in Nat
  BY DEF BoardsInv, BoardsTypeOK
<1>3. LookupsOK'
  BY Looking
<1>4. post' = post \/ \A u \in Tabs : ~Creates(u)'
  BY <1>1
<1>5. comment' = comment \/ \A u \in Tabs : ~Inserts(u)'
  BY <1>1
<1>6. OneCreation' /\ OneInsertion'
  BY <1>1, <1>4, <1>5, OneStill
<1>7. free' \in Nat
  BY <1>2
<1>8. \/ free' = free /\ Holders' \subseteq Holders
      \/ free' = free - 1
         /\ \E u \in Tabs : Holders' \subseteq Holders \cup {u}
      \/ free' = free + 1 /\ \E u \in Holders : Holders' = Holders \ {u}
  BY <1>1
<1>9. free' \in 0..PoolSize /\ ConnectionsCounted'
  BY <1>7, <1>8, Holding
<1>10. hits' \in Nat /\ visits' = hits' /\ requests' \in 0..MaxRequests
  BY <1>2
<1> QED BY <1>1, <1>3, <1>6, <1>9, <1>10, Parts

\* The handler ends.
LEMMA LeaveStep ==
  ASSUME BoardsInv, NEW t \in Tabs, todo[t] # <<>>, Leave(t),
         kind' = kind, requests' = requests, StoreOK',
         post # NoPost => post' # NoPost,
         comment # NoComment => comment' # NoComment,
         post' = post \/ \A u \in Tabs \ {t} : ~Creates(u),
         comment' = comment \/ \A u \in Tabs \ {t} : ~Inserts(u),
         \/ free' = free
         \/ free' = free - 1 /\ free > 0
         \/ free' = free + 1 /\ t \in Holders,
         \/ hits' = hits /\ visits' = visits
         \/ hits' = hits + 1 /\ visits' = visits + 1
  PROVE  BoardsInv'
<1>1. TabFits(t, Master, <<>>, NoPost, NoComment)
  BY EmptyRows DEF TabFits
<1>2. <<>> \in {<<>>, Tail(todo[t])}
  OBVIOUS
<1>3. /\ todo' = [todo EXCEPT ![t] = <<>>]
      /\ kept' = [kept EXCEPT ![t] = NoPost]
      /\ keptNote' = [keptNote EXCEPT ![t] = NoComment]
  BY DEF Leave
<1> DEFINE l == <<>>
<1>4. post' = post \/ (l = <<>> /\ \A u \in Tabs \ {t} : ~Creates(u))
  OBVIOUS
<1>5. comment' = comment \/ (l = <<>> /\ \A u \in Tabs \ {t} : ~Inserts(u))
  OBVIOUS
<1>6. \/ free' = free /\ (l = <<>> \/ ~At(t, "begin"))
      \/ free' = free - 1 /\ free > 0
      \/ free' = free + 1 /\ l = <<>> /\ t \in Holders
  OBVIOUS
<1>7. TabFits(t, Master, l, NoPost, NoComment) /\ l \in {<<>>, Tail(todo[t])}
  BY <1>1, <1>2
<1>8. /\ todo' = [todo EXCEPT ![t] = l]
      /\ kept' = [kept EXCEPT ![t] = NoPost]
      /\ keptNote' = [keptNote EXCEPT ![t] = NoComment]
  BY <1>3
<1> HIDE DEF l
<1> QED BY <1>4, <1>5, <1>6, <1>7, <1>8, HandlerStep

\* The handler ends and the store is as it was.
LEMMA QuietLeave ==
  ASSUME BoardsInv, NEW t \in Tabs, todo[t] # <<>>, Leave(t),
         kind' = kind, requests' = requests, UNCHANGED boardStore,
         \/ free' = free
         \/ free' = free - 1 /\ free > 0
         \/ free' = free + 1 /\ t \in Holders,
         \/ hits' = hits /\ visits' = visits
         \/ hits' = hits + 1 /\ visits' = visits + 1
  PROVE  BoardsInv'
<1>1. StoreOK' /\ post' = post /\ comment' = comment
  BY StoreSame DEF boardStore
<1> QED BY <1>1, LeaveStep

\* The handler goes on, with p and c as its lookups.
LEMMA ProceedStep ==
  ASSUME BoardsInv, NEW t \in Tabs, NEW step, At(t, step), NEW p, NEW c,
         todo' = [todo EXCEPT ![t] = Tail(@)],
         kept' = [kept EXCEPT ![t] = p], keptNote' = [keptNote EXCEPT ![t] = c],
         p = kept[t] \/ p = slave.post, c = keptNote[t] \/ c = slave.comment,
         step \in {"find", "findMine"} => p.is = "live",
         step \in {"note", "noteMine"} => c.is = "live",
         kind' = kind, requests' = requests, UNCHANGED boardStore,
         hits' = hits, visits' = visits,
         \/ free' = free /\ step # "begin"
         \/ free' = free - 1 /\ free > 0
  PROVE  BoardsInv'
<1> DEFINE l == Tail(todo[t])
<1>1. StoreOK' /\ post' = post /\ comment' = comment
  BY StoreSame DEF boardStore
<1>2. todo \in [Tabs -> Seq(Steps)] /\ todo[t] # <<>> /\ Head(todo[t]) = step
      /\ InOrder(todo[t]) /\ OfBoard(kind, todo[t])
  BY DEF BoardsInv, StepsInOrder, At
<1>3. /\ kept[t] \in Post /\ keptNote[t] \in Comment
      /\ FirstViewed(kind, kept[t]) /\ (kept[t] # NoPost => post # NoPost)
      /\ keptNote[t] # NoComment => comment # NoComment
  BY DEF BoardsInv, BoardsTypeOK, LookupsFit
<1>4. /\ slave.post \in Post /\ slave.comment \in Comment
      /\ FirstViewed(kind, slave.post) /\ (slave.post # NoPost => post # NoPost)
      /\ slave.comment # NoComment => comment # NoComment
  BY StoreIsOK DEF StoreOK, VersionsFit, Fits, Version, Master
<1>5. l # <<>> => /\ Head(l) \in PostWrites => step \in {"findMine", "find"}
                  /\ Head(l) \in NoteWrites => step \in {"noteMine", "note"}
  BY <1>2, TailInOrder
<1>6. TabFits(t, Master, l, p, c)
  <2>1. Master.post = post /\ Master.comment = comment
    BY DEF Master
  <2> HIDE DEF l
  <2> QED BY <1>3, <1>4, <1>5, <2>1 DEF TabFits
<1>7. todo' = [todo EXCEPT ![t] = l]
  BY <1>2
<1>8. \/ free' = free /\ ~At(t, "begin")
      \/ free' = free - 1 /\ free > 0
  BY <1>2 DEF At
<1>9. l \in {<<>>, Tail(todo[t])} /\ todo[t] # <<>>
  BY <1>2
<1>10. /\ post # NoPost => post' # NoPost
       /\ comment # NoComment => comment' # NoComment
  BY <1>1
<1>11. \/ free' = free /\ (l = <<>> \/ ~At(t, "begin"))
       \/ free' = free - 1 /\ free > 0
       \/ free' = free + 1 /\ l = <<>> /\ t \in Holders
  BY <1>8
<1>12. /\ post' = post \/ (l = <<>> /\ \A u \in Tabs \ {t} : ~Creates(u))
       /\ comment' = comment \/ (l = <<>> /\ \A u \in Tabs \ {t} : ~Inserts(u))
  BY <1>1
<1> HIDE DEF l
<1> QED BY <1>1, <1>6, <1>7, <1>9, <1>10, <1>11, <1>12, HandlerStep

\* The handler goes on, with what it had looked up.
LEMMA GoingOn ==
  ASSUME BoardsInv, NEW t \in Tabs, NEW step, At(t, step), Proceed(t),
         step \notin {"find", "findMine", "note", "noteMine"},
         kind' = kind, requests' = requests, UNCHANGED boardStore,
         hits' = hits, visits' = visits,
         \/ free' = free /\ step # "begin"
         \/ free' = free - 1 /\ free > 0
  PROVE  BoardsInv'
<1>1. kept \in [Tabs -> Post] /\ keptNote \in [Tabs -> Comment]
  BY DEF BoardsInv, BoardsTypeOK
<1>2. /\ kept' = [kept EXCEPT ![t] = kept[t]]
      /\ keptNote' = [keptNote EXCEPT ![t] = keptNote[t]]
      /\ todo' = [todo EXCEPT ![t] = Tail(@)]
  BY <1>1 DEF Proceed
<1> QED BY <1>2, ProceedStep

-----------------------------------------------------------------------------
(* The steps of the handlers, one by one.                                  *)

LEMMA ReadingSteps ==
  ASSUME BoardsInv, NEW t \in Tabs,
         \/ Begin(t) \/ Quiet(t) \/ Find(t) \/ FindMine(t)
         \/ BoardOwnerGuard(t) \/ Visit(t) \/ ShowPage(t)
         \/ FindNote(t) \/ CommentOwnerGuard(t) \/ Reject(t)
  PROVE  BoardsInv'
<1>0. kept \in [Tabs -> Post] /\ keptNote \in [Tabs -> Comment]
      /\ free \in Nat
  BY DEF BoardsInv, BoardsTypeOK
<1>1. CASE Begin(t)
  BY <1>1, GoingOn DEF Begin
<1>2. CASE Quiet(t)
  <2>1. PICK step \in {"upload", "post", "poll", "count"} : At(t, step)
    BY <1>2 DEF Quiet
  <2> QED BY <1>2, <2>1, GoingOn DEF Quiet
<1>3. CASE Find(t)
  <2>1. CASE Seen(slave.post)
    <3>1. /\ kept' = [kept EXCEPT ![t] = slave.post] /\ slave.post.is = "live"
          /\ keptNote' = [keptNote EXCEPT ![t] = keptNote[t]]
      BY <1>0, <1>3, <2>1 DEF Find, Seen
    <3>2. /\ kind' = kind /\ requests' = requests
          /\ UNCHANGED boardStore /\ hits' = hits /\ visits' = visits
          /\ free' = free /\ todo' = [todo EXCEPT ![t] = Tail(@)]
      BY <1>3, <2>1 DEF Find
    <3>3. PICK step \in {"find"} : At(t, step)
      BY <1>3 DEF Find
    <3> QED BY <3>1, <3>2, <3>3, ProceedStep
  <2>2. CASE ~Seen(slave.post)
    BY <1>3, <2>2, QuietLeave DEF Find, At
  <2> QED BY <2>1, <2>2
<1>4. CASE FindMine(t)
  <2>1. CASE Seen(slave.post) /\ slave.post.owner = TabUser[t]
    <3>1. /\ kept' = [kept EXCEPT ![t] = slave.post] /\ slave.post.is = "live"
          /\ keptNote' = [keptNote EXCEPT ![t] = keptNote[t]]
      BY <1>0, <1>4, <2>1 DEF FindMine, Seen
    <3>2. /\ kind' = kind /\ requests' = requests
          /\ UNCHANGED boardStore /\ hits' = hits /\ visits' = visits
          /\ free' = free /\ todo' = [todo EXCEPT ![t] = Tail(@)]
      BY <1>4, <2>1 DEF FindMine
    <3>3. PICK step \in {"findMine"} : At(t, step)
      BY <1>4 DEF FindMine
    <3> QED BY <3>1, <3>2, <3>3, ProceedStep
  <2>2. CASE ~(Seen(slave.post) /\ slave.post.owner = TabUser[t])
    BY <1>4, <2>2, QuietLeave DEF FindMine, At
  <2> QED BY <2>1, <2>2
<1>5. CASE BoardOwnerGuard(t)
  <2>1. CASE Proceed(t)
    BY <1>5, <2>1, GoingOn DEF BoardOwnerGuard
  <2>2. CASE Leave(t)
    BY <1>5, <2>2, QuietLeave DEF BoardOwnerGuard, At
  <2> QED BY <1>5, <2>1, <2>2 DEF BoardOwnerGuard, ProceedIf
<1>6. CASE Visit(t)
  BY <1>6, QuietLeave DEF Visit, At
<1>7. CASE ShowPage(t)
  BY <1>7, QuietLeave DEF ShowPage, At
<1>8. CASE FindNote(t)
  <2>1. PICK step \in {"note", "noteMine"} : At(t, step)
    BY <1>8 DEF FindNote
  <2>2. CASE Leave(t)
    BY <1>8, <2>1, <2>2, QuietLeave DEF FindNote, At
  <2>3. CASE ~Leave(t)
    <3>1. /\ keptNote' = [keptNote EXCEPT ![t] = slave.comment]
          /\ slave.comment.is = "live"
          /\ kept' = [kept EXCEPT ![t] = kept[t]]
      BY <1>0, <1>8, <2>3 DEF FindNote, Seen
    <3>2. /\ kind' = kind /\ requests' = requests
          /\ UNCHANGED boardStore /\ hits' = hits /\ visits' = visits
          /\ free' = free /\ todo' = [todo EXCEPT ![t] = Tail(@)]
      BY <1>8, <2>3 DEF FindNote
    <3> QED BY <2>1, <3>1, <3>2, ProceedStep
  <2> QED BY <2>2, <2>3
<1>9. CASE CommentOwnerGuard(t)
  <2>1. CASE Proceed(t)
    BY <1>9, <2>1, GoingOn DEF CommentOwnerGuard
  <2>2. CASE Leave(t)
    BY <1>9, <2>2, QuietLeave DEF CommentOwnerGuard, At
  <2> QED BY <1>9, <2>1, <2>2 DEF CommentOwnerGuard, ProceedIf
<1>10. CASE Reject(t)
  <2>1. ASSUME NEW step \in {"post", "poll", "commit"}, At(t, step)
        PROVE  t \in Holders
    BY <2>1, LastStep
  <2>2. \/ free' = free
        \/ free' = free - 1 /\ free > 0
        \/ free' = free + 1 /\ t \in Holders
    BY <1>10, <2>1 DEF Reject
  <2> QED BY <1>10, <2>2, QuietLeave DEF Reject
<1> QED BY <1>1, <1>2, <1>3, <1>4, <1>5, <1>6, <1>7, <1>8, <1>9, <1>10

\* The rows that are written.
LEMMA Blank ==
  /\ NoPost.text = NoTab /\ NoPost.is = "none"
  /\ NoComment.text = NoTab /\ NoComment.is = "none"
  /\ \A t \in Tabs : t # NoTab /\ TabUser[t] \in Users
BY DEF NoPost, NoComment, NoTab, Users, BoardsAssumption

LEMMA NewPosts ==
  ASSUME NEW t \in Tabs
  PROVE  NewPost(t) \in Post /\ NewPost(t) # NoPost /\ FirstViewed(kind, NewPost(t))
BY Blank DEF NewPost, Post, FirstViewed, FirstView

LEMMA PostText ==
  ASSUME NEW t \in Tabs, NEW p \in Post, NEW q, q = [p EXCEPT !.text = t]
  PROVE  /\ q \in Post /\ q # NoPost
         /\ q.is = p.is /\ q.like = p.like /\ q.view = p.view
BY Blank DEF Post

LEMMA PostHidden ==
  ASSUME NEW p \in Post, NEW q, q = [p EXCEPT !.is = "hidden"]
  PROVE  /\ q \in Post /\ q # NoPost
         /\ q.is = "hidden" /\ q.like = p.like /\ q.view = p.view
BY Blank DEF Post

LEMMA PostLiked ==
  ASSUME NEW p \in Post, NEW q, q = [p EXCEPT !.like = @ + 1]
  PROVE  /\ q \in Post
         /\ q.is = p.is /\ q.like = p.like + 1 /\ q.view = p.view
BY DEF Post

LEMMA NewNotes ==
  ASSUME NEW t \in Tabs, NEW d,
         d = [is |-> "live", owner |-> TabUser[t], text |-> t]
  PROVE  d \in Comment /\ d # NoComment
BY Blank DEF Comment

LEMMA NoteText ==
  ASSUME NEW t \in Tabs, NEW c \in Comment, NEW d, d = [c EXCEPT !.text = t]
  PROVE  d \in Comment /\ d # NoComment /\ d.is = c.is
BY Blank DEF Comment

LEMMA NoteDropped ==
  ASSUME NEW c \in Comment, NEW is \in {"hidden", "erased"},
         NEW d, d = [c EXCEPT !.is = is]
  PROVE  d \in Comment /\ d # NoComment /\ d.is = is
BY Blank DEF Comment

\* A handler writes the post, or the comment, as its last step.
LEMMA WriteStep ==
  ASSUME BoardsInv, NEW t \in Tabs, todo[t] # <<>>, Leave(t),
         kind' = kind, requests' = requests, hits' = hits, visits' = visits,
         post' \in Post, poll' \in BOOLEAN, comment' \in Comment,
         FirstViewed(kind, post'), ShipBoards,
         kind # "online" => (poll' <=> post' # NoPost),
         \/ post' = post
         \/ post' # NoPost /\ \A u \in Tabs \ {t} : ~Creates(u),
         \/ comment' = comment
         \/ comment' # NoComment /\ \A u \in Tabs \ {t} : ~Inserts(u),
         \/ free' = free
         \/ free' = free + 1 /\ t \in Holders
  PROVE  BoardsInv'
<1>1. post' = post \/ post' # NoPost
  OBVIOUS
<1>2. comment' = comment \/ comment' # NoComment
  OBVIOUS
<1>3. StoreOK'
  BY <1>1, <1>2, StoreWritten
<1>4. /\ post # NoPost => post' # NoPost
      /\ comment # NoComment => comment' # NoComment
  OBVIOUS
<1>5. /\ post' = post \/ \A u \in Tabs \ {t} : ~Creates(u)
      /\ comment' = comment \/ \A u \in Tabs \ {t} : ~Inserts(u)
  OBVIOUS
<1> QED BY <1>3, <1>4, <1>5, LeaveStep

\* What the master has, and what a handler has looked up, before a write.
LEMMA RowTypes ==
  ASSUME BoardsInv, NEW t \in Tabs
  PROVE  /\ post \in Post /\ poll \in BOOLEAN /\ comment \in Comment
         /\ FirstViewed(kind, post) /\ kept[t] \in Post /\ keptNote[t] \in Comment
         /\ kind # "online" => (poll <=> post # NoPost)
BY DEF BoardsInv, BoardsTypeOK, VersionsFit, Fits, Master

LEMMA PostWritingSteps ==
  ASSUME BoardsInv, NEW t \in Tabs,
         \/ Commit(t) \/ Save(t) \/ SaveRow(t) \/ SaveText(t) \/ Hide(t)
  PROVE  BoardsInv'
<1>0. /\ post \in Post /\ poll \in BOOLEAN /\ comment \in Comment
      /\ FirstViewed(kind, post) /\ kept[t] \in Post
      /\ kind # "online" => (poll <=> post # NoPost)
  BY RowTypes
<1>1. CASE Commit(t)
  <2>1. At(t, "commit") /\ todo[t] # <<>>
    BY <1>1 DEF Commit, At
  <2>2. Creates(t) /\ t \in Holders
    BY <2>1, LastStep
  <2>3. \A u \in Tabs \ {t} : ~Creates(u)
    BY <2>2 DEF BoardsInv, OneCreation
  <2>4. post' \in Post /\ post' # NoPost /\ FirstViewed(kind, post')
    BY <1>0, <1>1, NewPosts DEF Commit
  <2> QED BY <1>0, <1>1, <2>1, <2>2, <2>3, <2>4, WriteStep DEF Commit
<1>2. CASE Save(t)
  <2>1. At(t, "save") /\ todo[t] # <<>>
    BY <1>2 DEF Save, At
  <2>2. Creates(t) /\ kind = "online"
    BY <2>1, LastStep, StepOfBoard
  <2>3. \A u \in Tabs \ {t} : ~Creates(u)
    BY <2>2 DEF BoardsInv, OneCreation
  <2>4. post' \in Post /\ post' # NoPost /\ FirstViewed(kind, post')
    BY <1>0, <1>2, NewPosts DEF Save
  <2> QED BY <1>0, <1>2, <2>1, <2>2, <2>3, <2>4, WriteStep DEF Save
<1>3. ASSUME NEW step \in PostWrites, At(t, step),
             post' \in Post, post' # NoPost, FirstViewed(kind, post'),
             poll' = poll, comment' = comment, ShipBoards, Leave(t),
             UNCHANGED <<kind, hits, free, visits, requests>>
      PROVE  BoardsInv'
  <2>1. post # NoPost /\ \A u \in Tabs : ~Creates(u)
    BY <1>3, WritesOnRows
  <2>2. todo[t] # <<>>
    BY <1>3 DEF At
  <2> QED BY <1>0, <1>3, <2>1, <2>2, WriteStep
<1>4. "saveRow" \in PostWrites /\ "saveText" \in PostWrites /\ "hide" \in PostWrites
  BY DEF PostWrites
<1>5. CASE SaveRow(t)
  <2>1. At(t, "saveRow")
    BY <1>5 DEF SaveRow
  <2>2. FirstViewed(kind, kept[t]) /\ kept[t] # NoPost
    BY <1>4, <2>1, WritesOnRows
  <2>3. /\ post' \in Post /\ post' # NoPost
        /\ post'.view = kept[t].view
    BY <1>0, <1>5, PostText DEF SaveRow
  <2>4. FirstViewed(kind, post')
    BY <2>2, <2>3 DEF FirstViewed
  <2> QED BY <1>3, <1>4, <1>5, <2>1, <2>3, <2>4 DEF SaveRow
<1>6. CASE SaveText(t)
  <2>1. At(t, "saveText")
    BY <1>6 DEF SaveText
  <2>2. post # NoPost
    BY <1>4, <2>1, WritesOnRows
  <2>3. post' \in Post /\ post' # NoPost /\ post'.view = post.view
    BY <1>0, <1>6, PostText DEF SaveText
  <2>4. FirstViewed(kind, post')
    BY <1>0, <2>2, <2>3 DEF FirstViewed
  <2> QED BY <1>3, <1>4, <1>6, <2>1, <2>3, <2>4 DEF SaveText
<1>7. CASE Hide(t)
  <2>1. At(t, "hide")
    BY <1>7 DEF Hide
  <2>2. post # NoPost
    BY <1>4, <2>1, WritesOnRows
  <2>3. post' \in Post /\ post' # NoPost /\ post'.view = post.view
    BY <1>0, <1>7, PostHidden DEF Hide
  <2>4. FirstViewed(kind, post')
    BY <1>0, <2>2, <2>3 DEF FirstViewed
  <2> QED BY <1>3, <1>4, <1>7, <2>1, <2>3, <2>4 DEF Hide
<1> QED BY <1>1, <1>2, <1>5, <1>6, <1>7

LEMMA NoteWritingSteps ==
  ASSUME BoardsInv, NEW t \in Tabs,
         \/ Insert(t) \/ SaveNote(t) \/ UpdateNote(t) \/ DropNote(t)
  PROVE  BoardsInv'
<1>0. /\ post \in Post /\ poll \in BOOLEAN /\ comment \in Comment
      /\ FirstViewed(kind, post) /\ keptNote[t] \in Comment
      /\ kind # "online" => (poll <=> post # NoPost)
  BY RowTypes
<1>1. ASSUME todo[t] # <<>>, comment' \in Comment, comment' # NoComment,
             \A u \in Tabs \ {t} : ~Inserts(u),
             UNCHANGED <<post, poll>>, ShipBoards, Leave(t),
             UNCHANGED <<kind, hits, free, visits, requests>>
      PROVE  BoardsInv'
  BY <1>0, <1>1, WriteStep
<1>2. CASE Insert(t)
  <2>1. At(t, "insert") /\ todo[t] # <<>>
    BY <1>2 DEF Insert, At
  <2>2. \A u \in Tabs \ {t} : ~Inserts(u)
    BY <2>1, LastStep DEF BoardsInv, OneInsertion
  <2>3. comment' \in Comment /\ comment' # NoComment
    BY <1>0, <1>2, NewNotes DEF Insert
  <2> QED BY <1>1, <1>2, <2>1, <2>2, <2>3 DEF Insert
<1>3. ASSUME NEW step \in NoteWrites, At(t, step)
      PROVE  todo[t] # <<>> /\ \A u \in Tabs \ {t} : ~Inserts(u)
  BY <1>3, WritesOnRows DEF At
<1>4. {"saveNote", "updateNote", "eraseNote", "hideNote"} \subseteq NoteWrites
  BY DEF NoteWrites
<1>5. CASE SaveNote(t)
  <2>1. comment' \in Comment /\ comment' # NoComment
    BY <1>0, <1>5, NoteText DEF SaveNote
  <2> QED BY <1>1, <1>3, <1>4, <1>5, <2>1 DEF SaveNote
<1>6. CASE UpdateNote(t)
  <2>1. comment' \in Comment /\ comment' # NoComment
    BY <1>0, <1>6, NoteText DEF UpdateNote
  <2> QED BY <1>1, <1>3, <1>4, <1>6, <2>1 DEF UpdateNote
<1>7. CASE DropNote(t)
  <2>1. PICK is \in {"hidden", "erased"} : comment' = [comment EXCEPT !.is = is]
    BY <1>7 DEF DropNote
  <2>2. comment' \in Comment /\ comment' # NoComment
    BY <1>0, <2>1, NoteDropped
  <2> QED BY <1>1, <1>3, <1>4, <1>7, <2>2 DEF DropNote
<1> QED BY <1>2, <1>5, <1>6, <1>7

-----------------------------------------------------------------------------
(* Requests, and what happens around the handlers.                         *)

LEMMA RequestStep ==
  ASSUME BoardsInv, NEW t \in Tabs, NEW call \in Calls, Request(t, call)
  PROVE  BoardsInv'
<1>1. /\ StepsInOrder'
      /\ \A u \in Tabs \ {t} : /\ Creates(u)' = Creates(u)
                               /\ Inserts(u)' = Inserts(u)
      /\ Creates(t)' => call = "create"
      /\ Inserts(t)' => call = "write"
      /\ Holders' \subseteq Holders
      /\ \A step \in PostWrites \cup NoteWrites : ~At(t, step)'
  BY Requesting
<1>2. /\ kind' = kind /\ UNCHANGED boardStore /\ post' = post /\ comment' = comment
      /\ hits' = hits /\ free' = free /\ kept' = kept /\ keptNote' = keptNote
      /\ visits' = visits /\ requests' = requests + 1 /\ requests < MaxRequests
      /\ Fresh(call) /\ todo' = [todo EXCEPT ![t] = Handler(kind, call)]
  BY DEF Request, boardStore
<1>3. /\ hits \in Nat /\ visits = hits /\ requests \in 0..MaxRequests
      /\ free \in Nat /\ MaxRequests \in Nat /\ todo \in [Tabs -> Seq(Steps)]
  BY DEF BoardsInv, BoardsTypeOK, StepsInOrder, BoardsAssumption
<1>4. StoreOK'
  BY <1>2, StoreSame
<1>5. free' \in 0..PoolSize /\ ConnectionsCounted'
  BY <1>1, <1>2, <1>3, Holding
<1>6. LookupsOK'
  <2>1. LookupsOK
    BY DEF BoardsInv, BoardsTypeOK, LookupsOK
  <2>2. ASSUME NEW u \in Tabs, NEW step \in PostWrites \cup NoteWrites, At(u, step)'
        PROVE  At(u, step)
    <3>1. u # t
      BY <1>1, <2>2
    <3>2. todo'[u] = todo[u]
      BY <1>2, <1>3, <3>1
    <3> QED BY <2>2, <3>2 DEF At
  <2> QED BY <1>2, <2>1, <2>2 DEF LookupsOK, LookupsFit
<1>7. OneCreation'
  <2>1. Creates(t)' => post = NoPost /\ \A u \in Tabs : ~Creates(u)
    <3>1. call = "create" => post = NoPost /\ \A u \in Tabs : todo[u] = <<>>
      BY <1>2 DEF Fresh
    <3> QED BY <1>1, <3>1 DEF Creates, Ends
  <2>2. ASSUME NEW v \in Tabs, Creates(v)'
        PROVE  post = NoPost /\ \A u \in Tabs \ {v} : ~Creates(u)'
    <3>1. CASE v = t
      BY <1>1, <2>1, <2>2, <3>1
    <3>2. CASE v # t
      <4>1. Creates(v)
        BY <1>1, <2>2, <3>2
      <4>2. post = NoPost /\ \A u \in Tabs \ {v} : ~Creates(u)
        BY <4>1 DEF BoardsInv, OneCreation
      <4>3. ~Creates(t)'
        BY <2>1, <4>1
      <4> QED BY <1>1, <4>2, <4>3
    <3> QED BY <3>1, <3>2
  <2> QED BY <1>2, <2>2 DEF OneCreation
<1>8. OneInsertion'
  <2>1. Inserts(t)' => comment = NoComment /\ \A u \in Tabs : ~Inserts(u)
    <3>1. call = "write" =>
            /\ comment = NoComment
            /\ \A u \in Tabs : \A i \in 1..Len(todo[u]) : todo[u][i] # "insert"
      BY <1>2 DEF Fresh
    <3>2. \A u \in Tabs : todo[u] # <<>> => Len(todo[u]) \in 1..Len(todo[u])
      BY <1>3
    <3> QED BY <1>1, <3>1, <3>2 DEF Inserts, Ends
  <2>2. ASSUME NEW v \in Tabs, Inserts(v)'
        PROVE  comment = NoComment /\ \A u \in Tabs \ {v} : ~Inserts(u)'
    <3>1. CASE v = t
      BY <1>1, <2>1, <2>2, <3>1
    <3>2. CASE v # t
      <4>1. Inserts(v)
        BY <1>1, <2>2, <3>2
      <4>2. comment = NoComment /\ \A u \in Tabs \ {v} : ~Inserts(u)
        BY <4>1 DEF BoardsInv, OneInsertion
      <4>3. ~Inserts(t)'
        BY <2>1, <4>1
      <4> QED BY <1>1, <4>2, <4>3
    <3> QED BY <3>1, <3>2
  <2> QED BY <1>2, <2>2 DEF OneInsertion
<1>9. hits' \in Nat /\ visits' = hits' /\ requests' \in 0..MaxRequests
  BY <1>2, <1>3
<1> QED BY <1>1, <1>4, <1>5, <1>6, <1>7, <1>8, <1>9, Parts

\* The braces of the sweep's pattern are literal: it finds no counter.
LEMMA NothingSwept ==
  ASSUME BoardsInv
  PROVE  Swept = 0
<1>1. kind \in {"humor", "political", "online"}
  BY DEF BoardsInv, BoardsTypeOK, Kinds
<1>2. CASE kind = "humor"
  <2>1. SweptKey["humor"] = "{humors}:<id>:view"
        /\ CounterKey["humor"] = "humors:<id>:view"
    BY DEF SweptKey, CounterKey
  <2> QED BY <1>2, <2>1 DEF Swept
<1>3. CASE kind = "political"
  <2>1. "political" \notin DOMAIN SweptKey
    BY DEF SweptKey
  <2> QED BY <1>3, <2>1 DEF Swept
<1>4. CASE kind = "online"
  <2>1. SweptKey["online"] = "{online}:<id>:view"
        /\ CounterKey["online"] = "online:<id>:view"
    BY DEF SweptKey, CounterKey
  <2> QED BY <1>4, <2>1 DEF Swept
<1> QED BY <1>1, <1>2, <1>3, <1>4

\* The handlers are as they were, the store is not.
LEMMA StoreStep ==
  ASSUME BoardsInv, StoreOK', UNCHANGED <<kind, hits, free, todo, kept, keptNote,
                                          visits, requests>>,
         post' = post \/ post # NoPost,
         post # NoPost => post' # NoPost, comment' = comment
  PROVE  BoardsInv'
<1>1. /\ hits \in Nat /\ visits = hits /\ requests \in 0..MaxRequests
      /\ free \in Nat
  BY DEF BoardsInv, BoardsTypeOK
<1>2. Holders' = Holders /\ StepsInOrder'
      /\ \A u \in Tabs : /\ Creates(u)' = Creates(u)
                         /\ Inserts(u)' = Inserts(u)
  BY DEF Holders, At, Ends, Creates, Inserts, BoardsInv, StepsInOrder
<1>3. free' \in 0..PoolSize /\ ConnectionsCounted'
  BY <1>1, <1>2, Holding
<1>4. LookupsOK'
  BY DEF BoardsInv, BoardsTypeOK, LookupsOK, LookupsFit, At
<1>5. post # NoPost => \A u \in Tabs : ~Creates(u)
  BY DEF BoardsInv, OneCreation
<1>6. post' = post \/ \A u \in Tabs : ~Creates(u)'
  BY <1>2, <1>5
<1>7. OneCreation' /\ OneInsertion'
  BY <1>2, <1>6, OneStill
<1> QED BY <1>1, <1>2, <1>3, <1>4, <1>7, Parts

LEMMA AroundSteps ==
  ASSUME BoardsInv, LikeArrives \/ ReplicateBoards \/ Sweep
  PROVE  BoardsInv'
<1>0. /\ post \in Post /\ poll \in BOOLEAN /\ comment \in Comment
      /\ FirstViewed(kind, post) /\ hits \in Nat
      /\ kind # "online" => (poll <=> post # NoPost)
  BY StoreIsOK DEF BoardsInv, BoardsTypeOK, VersionsFit, Fits, Master
<1>1. CASE LikeArrives
  <2>1. post' \in Post /\ post'.is = post.is /\ post'.view = post.view
    BY <1>0, <1>1, PostLiked DEF LikeArrives
  <2>2. post # NoPost /\ post' # NoPost
    BY <1>1, <2>1, Blank DEF LikeArrives
  <2>3. FirstViewed(kind, post')
    BY <1>0, <2>1, <2>2 DEF FirstViewed
  <2>4. StoreOK'
    BY <1>0, <1>1, <2>1, <2>2, <2>3, StoreWritten DEF LikeArrives
  <2> QED BY <1>1, <2>2, <2>4, StoreStep DEF LikeArrives
<1>2. CASE ReplicateBoards
  <2>1. StoreOK'
    BY <1>2, Replicating
  <2> QED BY <1>2, <2>1, StoreStep DEF ReplicateBoards
<1>3. CASE Sweep
  <2>1. Swept = 0
    BY NothingSwept
  <2>2. post' = post
    BY <1>0, <1>3, <2>1 DEF Sweep, Post
  <2>3. hits' = hits
    BY <1>0, <1>3, <2>1 DEF Sweep
  <2>4. UNCHANGED boardStore /\ kind' = kind
    BY <1>3, <2>1, <2>2 DEF Sweep, boardStore
  <2>5. StoreOK'
    BY <2>4, StoreSame
  <2> QED BY <1>3, <2>2, <2>3, <2>5, StoreStep DEF Sweep
<1> QED BY <1>1, <1>2, <1>3

-----------------------------------------------------------------------------
(* The invariant.                                                          *)

LEMMA BoardsInit_Inv == BoardsInit => BoardsInv
<1> SUFFICES ASSUME BoardsInit PROVE BoardsInv
  OBVIOUS
<1>1. /\ NoPost \in Post /\ NoComment \in Comment
      /\ FirstViewed(kind, NoPost)
  BY EmptyRows
<1>2. Master \in Version /\ slave = Master /\ shipped = <<>>
      /\ Master.post = NoPost /\ Master.poll = FALSE /\ Master.comment = NoComment
  BY <1>1 DEF BoardsInit, Master, Version
<1>3. PoolSize \in Nat /\ MaxRequests \in Nat
  BY DEF BoardsAssumption
<1>4. BoardsTypeOK
  <2>1. kept \in [Tabs -> Post] /\ keptNote \in [Tabs -> Comment]
    BY <1>1 DEF BoardsInit
  <2>2. post \in Post /\ poll \in BOOLEAN /\ comment \in Comment
    BY <1>1 DEF BoardsInit
  <2>3. slave \in Version /\ shipped \in Seq(Version)
    BY <1>2
  <2>4. free \in 0..PoolSize /\ requests \in 0..MaxRequests
    BY <1>3 DEF BoardsInit
  <2> QED BY <2>1, <2>2, <2>3, <2>4 DEF BoardsInit, BoardsTypeOK
<1>5. VersionsFit
  BY <1>1, <1>2 DEF VersionsFit, Fits
<1>6. StepsInOrder
  BY DEF BoardsInit, StepsInOrder, InOrder, OfBoard
<1>7. Holders = {}
  BY DEF BoardsInit, Holders, Ends
<1>8. ConnectionsCounted
  BY <1>3, <1>7, FS_EmptySet DEF BoardsInit, ConnectionsCounted
<1>9. LookupsFit /\ OneCreation /\ OneInsertion
  BY <1>1 DEF BoardsInit, LookupsFit, OneCreation, OneInsertion, Creates,
              Inserts, Ends, At
<1> QED BY <1>4, <1>5, <1>6, <1>8, <1>9 DEF BoardsInit, BoardsInv

LEMMA BoardsNext_Inv == BoardsInv /\ [BoardsNext]_boardsVars => BoardsInv'
<1> SUFFICES ASSUME BoardsInv, [BoardsNext]_boardsVars PROVE BoardsInv'
  OBVIOUS
<1>1. ASSUME NEW t \in Tabs, BoardSteps(t) PROVE BoardsInv'
  BY <1>1, ReadingSteps, PostWritingSteps, NoteWritingSteps DEF BoardSteps
<1>2. ASSUME NEW t \in Tabs, NEW call \in Calls, Request(t, call)
      PROVE  BoardsInv'
  BY <1>2, RequestStep
<1>3. CASE LikeArrives \/ ReplicateBoards \/ Sweep
  BY <1>3, AroundSteps
<1>4. CASE UNCHANGED boardsVars
  <2>1. StoreOK' /\ post' = post /\ comment' = comment
        /\ UNCHANGED <<kind, hits, free, todo, kept, keptNote, visits, requests>>
    BY <1>4, StoreSame DEF boardsVars, boardStore
  <2> QED BY <2>1, StoreStep
<1> QED BY <1>1, <1>2, <1>3, <1>4 DEF BoardsNext

LEMMA BoardsInvariant == BoardsSpec => []BoardsInv
BY BoardsInit_Inv, BoardsNext_Inv, PTL DEF BoardsSpec

-----------------------------------------------------------------------------
(* The theorems.                                                           *)

\* Whatever is asked of a board, its rows, its counter and what its handlers
\* hold are well formed, and no connection is given back that was not taken:
\* the finally of create() runs once for every BEGIN.
THEOREM BoardsTypeCorrect == BoardsSpec => []BoardsTypeOK
BY BoardsInvariant, PTL DEF BoardsInv

\* No visit is lost, by the sweep or by an edit that writes a whole row back,
\* and every copy of a post shows all of them: the column never changes, on the
\* free board it starts with one.
THEOREM NoVisitLost == BoardsSpec => []ViewsKept
<1>1. BoardsInv => ViewsKept
  <2> SUFFICES ASSUME BoardsInv,
                      NEW p \in {post, slave.post} \cup {kept[t] : t \in Tabs},
                      p # NoPost
               PROVE  p.view + hits = visits + FirstView(kind)
    BY DEF ViewsKept
  <2>1. /\ FirstViewed(kind, post) /\ FirstViewed(kind, slave.post)
        /\ \A t \in Tabs : FirstViewed(kind, kept[t])
    BY DEF BoardsInv, VersionsFit, Fits, Master, LookupsFit
  <2>2. p.view = FirstView(kind)
    BY <2>1 DEF FirstViewed
  <2>3. hits \in Nat /\ visits = hits /\ FirstView(kind) \in Nat
    BY DEF BoardsInv, BoardsTypeOK, FirstView
  <2> QED BY <2>2, <2>3
<1> QED BY <1>1, BoardsInvariant, PTL

\* A humor or political post and its poll come and go together, on the master
\* and on the slave.
THEOREM PostsHavePolls == BoardsSpec => []PostHasPoll
<1>1. BoardsInv => PostHasPoll
  BY DEF BoardsInv, VersionsFit, Fits, Master, PostHasPoll
<1> QED BY <1>1, BoardsInvariant, PTL

\* Only save() of a row that was looked up before it changed takes a like back
\* or brings a deleted row back.
THEOREM UndoneByStaleEdit == BoardsSpec => UndoneOnlyByStaleEdit
<1>1. ASSUME BoardsInv, [BoardsNext]_boardsVars
      PROVE  [Undone => kind # "online" /\ \E t \in Tabs : StaleEdit(t)]_boardsVars
  <2> SUFFICES ASSUME BoardsNext, Undone
               PROVE  kind # "online" /\ \E t \in Tabs : StaleEdit(t)
    BY <1>1
  <2>0. post \in Post /\ comment \in Comment /\ post.like \in Nat
    BY <1>1, StoreIsOK DEF Post
  <2>1. ASSUME UNCHANGED <<post, comment>> PROVE FALSE
    BY <2>0, <2>1 DEF Undone
  <2>2. ASSUME NEW t \in Tabs, BoardSteps(t)
        PROVE  kind # "online" /\ \E u \in Tabs : StaleEdit(u)
    <3>1. CASE UNCHANGED <<post, comment>>
      BY <2>1, <3>1
    <3>2. CASE Commit(t) \/ Save(t)
      <4>1. Creates(t)
        BY <1>1, <3>2, LastStep DEF Commit, Save
      <4>2. post = NoPost
        BY <1>1, <4>1 DEF BoardsInv, OneCreation
      <4>3. post'.like = 0 /\ post.like = 0 /\ comment' = comment
            /\ post.is = "none"
        BY <3>2, <4>2 DEF NewPost, NoPost, Commit, Save
      <4> QED BY <4>3 DEF Undone
    <3>3. CASE SaveRow(t)
      <4>1. /\ post' = [kept[t] EXCEPT !.text = t] /\ kept[t] \in Post
            /\ comment' = comment
        BY <1>1, <3>3, RowTypes DEF SaveRow
      <4>2. post'.is = kept[t].is /\ post'.like = kept[t].like
        BY <4>1, PostText
      <4>3. kept[t].like # post.like \/ kept[t].is # post.is
        BY <2>0, <4>1, <4>2 DEF Undone
      <4>4. kind # "online"
        BY <1>1, <3>3, StepOfBoard DEF SaveRow
      <4> QED BY <3>3, <4>3, <4>4 DEF StaleEdit
    <3>4. CASE SaveText(t)
      <4>1. post' = [post EXCEPT !.text = t] /\ comment' = comment
        BY <3>4 DEF SaveText
      <4>2. post'.is = post.is /\ post'.like = post.like
        BY <2>0, <4>1, PostText
      <4> QED BY <2>0, <4>1, <4>2 DEF Undone
    <3>5. CASE Hide(t)
      <4>1. post' = [post EXCEPT !.is = "hidden"] /\ comment' = comment
        BY <3>5 DEF Hide
      <4>2. post'.is = "hidden" /\ post'.like = post.like
        BY <2>0, <4>1, PostHidden
      <4> QED BY <2>0, <4>1, <4>2 DEF Undone
    <3>6. CASE Insert(t)
      <4>1. Inserts(t)
        BY <1>1, <3>6, LastStep DEF Insert
      <4>2. comment = NoComment /\ post' = post
        BY <1>1, <3>6, <4>1 DEF BoardsInv, OneInsertion, Insert
      <4> QED BY <2>0, <4>2, Blank DEF Undone
    <3>7. CASE SaveNote(t)
      <4>1. /\ comment' = [keptNote[t] EXCEPT !.text = t]
            /\ keptNote[t] \in Comment /\ post' = post
        BY <1>1, <3>7, RowTypes DEF SaveNote
      <4>2. comment'.is = keptNote[t].is
        BY <4>1, NoteText
      <4>3. keptNote[t].is # comment.is
        BY <2>0, <4>1, <4>2 DEF Undone
      <4>4. kind # "online"
        BY <1>1, <3>7, StepOfBoard DEF SaveNote
      <4> QED BY <3>7, <4>3, <4>4 DEF StaleEdit
    <3>8. CASE UpdateNote(t)
      <4>1. comment' = [comment EXCEPT !.text = t] /\ post' = post
        BY <3>8 DEF UpdateNote
      <4>2. comment'.is = comment.is
        BY <2>0, <4>1, NoteText
      <4> QED BY <2>0, <4>1, <4>2 DEF Undone
    <3>9. CASE DropNote(t)
      <4>1. PICK is \in {"hidden", "erased"} :
                   comment' = [comment EXCEPT !.is = is] /\ post' = post
        BY <3>9 DEF DropNote
      <4>2. comment'.is # "live"
        BY <2>0, <4>1, NoteDropped
      <4> QED BY <2>0, <4>1, <4>2 DEF Undone
    <3>10. \/ UNCHANGED <<post, comment>> \/ Commit(t) \/ Save(t) \/ SaveRow(t)
           \/ SaveText(t) \/ Hide(t) \/ Insert(t) \/ SaveNote(t)
           \/ UpdateNote(t) \/ DropNote(t)
      BY <2>2 DEF BoardSteps, Begin, Quiet, Find, FindMine, BoardOwnerGuard,
                  Visit, ShowPage, FindNote, CommentOwnerGuard, Reject,
                  boardStore
    <3> QED BY <3>1, <3>2, <3>3, <3>4, <3>5, <3>6, <3>7, <3>8, <3>9, <3>10
  <2>3. ASSUME NEW t \in Tabs, NEW call \in Calls, Request(t, call) PROVE FALSE
    BY <2>1, <2>3 DEF Request, boardStore
  <2>4. ASSUME LikeArrives PROVE FALSE
    <3>1. post'.is = post.is /\ post'.like = post.like + 1 /\ comment' = comment
      BY <2>0, <2>4, PostLiked DEF LikeArrives
    <3> QED BY <2>0, <3>1 DEF Undone
  <2>5. ASSUME ReplicateBoards PROVE FALSE
    BY <2>1, <2>5 DEF ReplicateBoards
  <2>6. ASSUME Sweep PROVE FALSE
    <3>1. post'.is = post.is /\ post'.like = post.like /\ comment' = comment
      BY <2>0, <2>6 DEF Sweep, Post
    <3> QED BY <2>0, <3>1 DEF Undone
  <2> QED BY <2>2, <2>3, <2>4, <2>5, <2>6 DEF BoardsNext
<1> QED BY <1>1, BoardsInvariant, PTL DEF BoardsSpec, UndoneOnlyByStaleEdit

HIDE BoardsAssumption

-----------------------------------------------------------------------------
(***************************************************************************)
(* Accounts.  The argument (AccountsInv): the versions of the account reach*)
(* the slave in the order of their ids, and an id gets into a token only   *)
(* when the slave has it, so a lookup by the id of a token finds nothing   *)
(* only after the slave has gone on to a newer account.                    *)
(***************************************************************************)

USE AccountsAssumption

\* Where a request may stand, given what the slave has.
Sound(r) == r \in Job /\ RequestFits(r)

IsCreating(r) ==
  r.op \in {"signUp", "social"} /\ r.at \in {"find", "replace", "create"}

LEMMA NoRowType == NoRow \in Row /\ NoRow.id = 0 /\ NoRow.verified = FALSE
BY DEF NoRow, Row

LEMMA IdsAreNat == Ids \subseteq Nat /\ \A r \in Row : r.id \in Nat
BY DEF Ids, Row, AccountsAssumption

LEMMA IdleSound == Sound(Idle) /\ ~IsCreating(Idle)
BY DEF Sound, RequestFits, Idle, Job, ById, IsCreating

LEMMA AccountsInit_Inv == AccountsInit => AccountsInv
<1> SUFFICES ASSUME AccountsInit PROVE AccountsInv
  OBVIOUS
<1>1. AccountsTypeOK
  <2>1. MaxCalls \in Nat
    BY DEF AccountsAssumption
  <2>2. serial \in 0..calls /\ calls \in 0..MaxCalls
    BY <2>1 DEF AccountsInit
  <2>3. job \in [Jobs -> Job]
    BY IdleSound DEF AccountsInit, Sound
  <2>4. cache \in [Ids -> Names \cup {Missing, NoEntry}]
    BY DEF AccountsInit
  <2>5. account \in Row /\ copy \in Row /\ unshipped \in Seq(Row)
    BY NoRowType DEF AccountsInit
  <2>6. issued \subseteq Ids /\ refresh \subseteq {SocialPrefix, LoginPrefix}
        /\ renewed \in BOOLEAN
    BY DEF AccountsInit
  <2> QED BY <2>2, <2>3, <2>4, <2>5, <2>6 DEF AccountsTypeOK
<1>2. Creating = {}
  BY DEF AccountsInit, Creating, Idle
<1>3. IdsBounded
  BY <1>2, FS_EmptySet DEF AccountsInit, IdsBounded
<1>4. RowsProper /\ IdsGrow
  BY NoRowType DEF AccountsInit, RowsProper, IdsGrow, Idle
<1>5. TokensReplicated /\ MissingIsOld /\ RequestsFit
  BY IdleSound DEF AccountsInit, AccountsAssumption, TokensReplicated,
                   MissingIsOld, RequestsFit, Sound
<1> QED BY <1>1, <1>3, <1>4, <1>5 DEF AccountsInv

-----------------------------------------------------------------------------
(* The requests.                                                           *)

\* What a request turns into keeps what the invariant says of requests.
LEMMA JobsStaySound ==
  ASSUME AccountsInv, NEW h \in Jobs, NEW r, Sound(r),
         job' = [job EXCEPT ![h] = r],
         copy' \in Row, copy.id <= copy'.id
  PROVE  /\ job' \in [Jobs -> Job]
         /\ RequestsFit'
<1>1. job \in [Jobs -> Job] /\ r \in Job /\ copy \in Row
  BY DEF AccountsInv, AccountsTypeOK, Sound
<1>2. job' \in [Jobs -> Job]
  BY <1>1
<1>3. SUFFICES ASSUME NEW g \in Jobs PROVE RequestFits(job[g])'
  BY <1>2 DEF RequestsFit
<1>4. job'[g].id \in Nat /\ copy.id \in Nat /\ copy'.id \in Nat
  BY <1>1, <1>2 DEF Job, Row, Ids
<1>5. CASE g = h
  <2>1. job'[g] = r
    BY <1>1, <1>5
  <2> QED BY <1>4, <2>1 DEF Sound, RequestFits
<1>6. CASE g # h
  <2>1. job'[g] = job[g]
    BY <1>1, <1>6
  <2> QED BY <1>4, <2>1 DEF AccountsInv, RequestsFit, RequestFits
<1> QED BY <1>5, <1>6

LEMMA CreatingFinite ==
  AccountsInv => IsFiniteSet(Creating) /\ Cardinality(Creating) \in Nat
<1> Creating \in SUBSET Jobs
  BY DEF Creating
<1> QED BY FS_Subset, FS_CardinalityType

LEMMA SizeOfSupersets ==
  ASSUME NEW S, IsFiniteSet(S), NEW x
  PROVE  /\ IsFiniteSet(S \cup {x})
         /\ Cardinality(S \cup {x}) <= Cardinality(S) + 1
<1>1. Cardinality(S) \in Nat
  BY FS_CardinalityType
<1>2. IsFiniteSet(S \cup {x})
  BY FS_AddElement
<1>3. Cardinality(S \cup {x}) =
        IF x \in S THEN Cardinality(S) ELSE Cardinality(S) + 1
  BY FS_AddElement
<1> QED BY <1>1, <1>2, <1>3

\* One request more is creating at most, and none more if it is not, or was.
LEMMA CreatingStep ==
  ASSUME AccountsInv, NEW h \in Jobs, NEW r, job' = [job EXCEPT ![h] = r]
  PROVE  /\ Cardinality(Creating') \in Nat
         /\ Cardinality(Creating') <= Cardinality(Creating) + 1
         /\ (IsCreating(r) => IsCreating(job[h])) =>
              Cardinality(Creating') <= Cardinality(Creating)
         /\ IsCreating(job[h]) /\ ~IsCreating(r) =>
              Cardinality(Creating') = Cardinality(Creating) - 1
<1>0. job \in [Jobs -> Job] /\ IsFiniteSet(Creating)
      /\ Cardinality(Creating) \in Nat
  BY CreatingFinite DEF AccountsInv, AccountsTypeOK
<1>1. Creating = {g \in Jobs : IsCreating(job[g])}
  BY DEF Creating, IsCreating
<1>2. Creating' = {g \in Jobs : IsCreating(job'[g])}
  BY DEF Creating, IsCreating
<1>3. Creating' \subseteq Creating \cup {h}
  BY <1>0, <1>1, <1>2
<1>4. IsFiniteSet(Creating \cup {h})
      /\ Cardinality(Creating \cup {h}) <= Cardinality(Creating) + 1
  BY <1>0, SizeOfSupersets
<1>5. Cardinality(Creating') \in Nat
      /\ Cardinality(Creating') <= Cardinality(Creating) + 1
  <2>1. IsFiniteSet(Creating')
        /\ Cardinality(Creating') <= Cardinality(Creating \cup {h})
    BY <1>3, <1>4, FS_Subset
  <2> QED BY <1>0, <1>4, <2>1, FS_CardinalityType
<1>6. ASSUME IsCreating(r) => IsCreating(job[h])
      PROVE  Cardinality(Creating') <= Cardinality(Creating)
  <2>1. Creating' \subseteq Creating
    BY <1>0, <1>1, <1>2, <1>6
  <2> QED BY <1>0, <2>1, FS_Subset
<1>7. ASSUME IsCreating(job[h]), ~IsCreating(r)
      PROVE  Cardinality(Creating') = Cardinality(Creating) - 1
  <2>1. Creating' = Creating \ {h} /\ h \in Creating
    BY <1>0, <1>1, <1>2, <1>7
  <2> QED BY <1>0, <2>1, FS_RemoveElement
<1> QED BY <1>5, <1>6, <1>7

-----------------------------------------------------------------------------
(* The versions of the row.                                                *)

LEMMA ShipKeepsOrder ==
  ASSUME AccountsInv, Ship, account' \in Row, account'.id = 0 => account' = NoRow,
         account.id <= account'.id, account'.id <= serial', serial' \in Nat
  PROVE  /\ copy' = copy /\ unshipped' \in Seq(Row) /\ IdsGrow'
         /\ \A k \in 1..Len(unshipped') :
              unshipped'[k].id = 0 => unshipped'[k] = NoRow
<1>1. /\ account \in Row /\ copy \in Row /\ unshipped \in Seq(Row)
      /\ IdsGrow /\ RowsProper
  BY DEF AccountsInv, AccountsTypeOK
<1>2. copy' = copy /\ unshipped' = Append(unshipped, account')
  BY DEF Ship
<1>3. /\ unshipped' \in Seq(Row) /\ Len(unshipped') = Len(unshipped) + 1
      /\ Len(unshipped) \in Nat
      /\ \A k \in 1..Len(unshipped) : unshipped'[k] = unshipped[k]
      /\ unshipped'[Len(unshipped) + 1] = account'
  BY <1>1, <1>2
<1>4. /\ account.id \in Nat /\ account'.id \in Nat /\ copy.id \in Nat
      /\ \A k \in 1..Len(unshipped') : unshipped'[k].id \in Nat
  <2>1. \A k \in 1..Len(unshipped') : unshipped'[k] \in Row
    BY <1>3
  <2> QED BY <1>1, <2>1, IdsAreNat
<1>5. ASSUME NEW k \in 1..Len(unshipped')
      PROVE  /\ copy.id <= unshipped'[k].id /\ unshipped'[k].id <= account'.id
             /\ unshipped'[k].id = 0 => unshipped'[k] = NoRow
  <2>1. CASE k \in 1..Len(unshipped)
    <3>1. unshipped'[k] = unshipped[k]
      BY <1>3, <2>1
    <3> QED BY <1>1, <1>4, <2>1, <3>1 DEF IdsGrow, RowsProper
  <2>2. CASE k = Len(unshipped) + 1
    BY <1>1, <1>3, <1>4, <2>2 DEF IdsGrow
  <2> QED BY <1>3, <2>1, <2>2
<1>6. ASSUME NEW j \in 1..Len(unshipped'), NEW k \in 1..Len(unshipped'), j <= k
      PROVE  unshipped'[j].id <= unshipped'[k].id
  <2>1. CASE k = Len(unshipped) + 1
    <3>1. unshipped'[k] = account'
      BY <1>3, <2>1
    <3> QED BY <1>5, <3>1
  <2>2. CASE k # Len(unshipped) + 1
    <3>1. j \in 1..Len(unshipped) /\ k \in 1..Len(unshipped)
      BY <1>3, <1>6, <2>2
    <3>2. unshipped'[j] = unshipped[j] /\ unshipped'[k] = unshipped[k]
      BY <1>3, <3>1
    <3> QED BY <1>1, <1>6, <3>1, <3>2 DEF IdsGrow
  <2> QED BY <2>1, <2>2
<1>7. copy'.id <= account'.id /\ account'.id <= serial'
  BY <1>1, <1>2, <1>4 DEF IdsGrow
<1>8. IdsGrow'
  BY <1>2, <1>5, <1>6, <1>7 DEF IdsGrow
<1> QED BY <1>2, <1>3, <1>5, <1>8

-----------------------------------------------------------------------------
(* The steps, by what they leave alone.                                    *)

\* A step of a request that writes no row.
LEMMA StepKeepsInv ==
  ASSUME AccountsInv, NEW h \in Jobs, NEW r, Sound(r),
         job' = [job EXCEPT ![h] = r], UNCHANGED accountDB,
         \/ (IsCreating(r) => IsCreating(job[h])) /\ calls' = calls
         \/ calls < MaxCalls /\ calls' = calls + 1,
         issued' \subseteq Ids, \A i \in issued' : i <= copy.id,
         cache' \in [Ids -> Names \cup {Missing, NoEntry}],
         \A i \in Ids : cache'[i] = Missing => i < copy.id,
         refresh' \subseteq {SocialPrefix, LoginPrefix}, renewed' \in BOOLEAN
  PROVE  AccountsInv'
<1>0. /\ account' = account /\ copy' = copy /\ unshipped' = unshipped
      /\ serial' = serial
  BY DEF accountDB
<1>1. /\ copy \in Row /\ copy.id \in Nat /\ MaxCalls \in Nat
      /\ serial \in 0..calls /\ calls \in 0..MaxCalls
  BY DEF AccountsInv, AccountsTypeOK, Row, Ids, AccountsAssumption
<1>2. /\ job' \in [Jobs -> Job]
      /\ RequestsFit'
  <2>1. copy' \in Row /\ copy.id <= copy'.id
    BY <1>0, <1>1
  <2> QED BY <2>1, JobsStaySound
<1>3. IdsBounded' /\ calls' \in 0..MaxCalls /\ serial' \in 0..calls'
  <2>1. serial + Cardinality(Creating) <= calls /\ Cardinality(Creating) \in Nat
    BY CreatingFinite DEF AccountsInv, IdsBounded
  <2>2. serial' + Cardinality(Creating') <= calls'
    <3>1. CASE (IsCreating(r) => IsCreating(job[h])) /\ calls' = calls
      <4>1. Cardinality(Creating') \in Nat
            /\ Cardinality(Creating') <= Cardinality(Creating)
        BY <3>1, CreatingStep
      <4> QED BY <1>0, <1>1, <2>1, <3>1, <4>1
    <3>2. CASE calls < MaxCalls /\ calls' = calls + 1
      <4>1. Cardinality(Creating') \in Nat
            /\ Cardinality(Creating') <= Cardinality(Creating) + 1
        BY CreatingStep
      <4> QED BY <1>0, <1>1, <2>1, <3>2, <4>1
    <3> QED BY <3>1, <3>2
  <2> QED BY <1>0, <1>1, <2>2 DEF IdsBounded
<1>4. AccountsTypeOK'
  BY <1>0, <1>2, <1>3 DEF AccountsInv, AccountsTypeOK
<1>5. RowsProper' /\ IdsGrow'
  BY <1>0, <1>2 DEF AccountsInv, RowsProper, IdsGrow
<1>6. TokensReplicated' /\ MissingIsOld'
  BY <1>0, <1>2 DEF TokensReplicated, MissingIsOld
<1> QED BY <1>2, <1>3, <1>4, <1>5, <1>6 DEF AccountsInv

\* A step of a request that writes the row: an account keeps its id, or a
\* creating request gives the next one.
LEMMA WriteKeepsInv ==
  ASSUME AccountsInv, NEW h \in Jobs, NEW r, Sound(r),
         job' = [job EXCEPT ![h] = r],
         account' \in Row, account'.id = 0 => account' = NoRow, Ship,
         \/ /\ serial' = serial /\ account'.id = account.id
            /\ IsCreating(r) => IsCreating(job[h])
         \/ /\ serial' = serial + 1 /\ account'.id = serial + 1
            /\ IsCreating(job[h]) /\ ~IsCreating(r),
         UNCHANGED <<cache, issued, refresh, renewed, calls>>
  PROVE  AccountsInv'
<1>1. /\ account \in Row /\ account.id \in Nat /\ copy \in Row
      /\ copy.id \in Nat /\ serial \in Nat /\ calls \in Nat
      /\ copy.id <= account.id /\ account.id <= serial
  BY DEF AccountsInv, AccountsTypeOK, Row, Ids, IdsGrow, AccountsAssumption
<1>2. serial' \in Nat /\ account.id <= account'.id /\ account'.id <= serial'
  BY <1>1
<1>3. /\ copy' = copy /\ unshipped' \in Seq(Row) /\ IdsGrow'
      /\ \A k \in 1..Len(unshipped') :
           unshipped'[k].id = 0 => unshipped'[k] = NoRow
  BY <1>2, ShipKeepsOrder
<1>4. /\ job' \in [Jobs -> Job]
      /\ RequestsFit'
  <2>1. copy' \in Row /\ copy.id <= copy'.id
    BY <1>1, <1>3
  <2> QED BY <2>1, JobsStaySound
<1>5. IdsBounded' /\ serial' \in 0..calls'
  <2>1. serial + Cardinality(Creating) <= calls /\ Cardinality(Creating) \in Nat
    BY CreatingFinite DEF AccountsInv, IdsBounded
  <2>2. Cardinality(Creating') \in Nat
        /\ serial' + Cardinality(Creating') <= serial + Cardinality(Creating)
    <3>1. /\ Cardinality(Creating') \in Nat
          /\ (IsCreating(r) => IsCreating(job[h])) =>
               Cardinality(Creating') <= Cardinality(Creating)
          /\ IsCreating(job[h]) /\ ~IsCreating(r) =>
               Cardinality(Creating') = Cardinality(Creating) - 1
      BY CreatingStep
    <3> QED BY <1>1, <2>1, <3>1
  <2> QED BY <1>1, <1>2, <2>1, <2>2 DEF IdsBounded
<1>6. AccountsTypeOK'
  BY <1>3, <1>4, <1>5 DEF AccountsInv, AccountsTypeOK
<1>7. RowsProper'
  BY <1>3, <1>4 DEF AccountsInv, RowsProper
<1>8. TokensReplicated' /\ MissingIsOld'
  BY <1>3, <1>4 DEF AccountsInv, TokensReplicated, MissingIsOld
<1> QED BY <1>3, <1>4, <1>5, <1>6, <1>7, <1>8 DEF AccountsInv

-----------------------------------------------------------------------------
(* The actions.                                                            *)

Moving == UNCHANGED <<accountDB, cache, issued, refresh, renewed, calls>>

\* A step that only moves the request.
LEMMA MoveKeepsInv ==
  ASSUME AccountsInv, NEW h \in Jobs, NEW r, Sound(r),
         job' = [job EXCEPT ![h] = r], IsCreating(r) => IsCreating(job[h]), Moving
  PROVE  AccountsInv'
<1>1. /\ UNCHANGED accountDB /\ calls' = calls /\ issued' = issued
      /\ cache' = cache /\ refresh' = refresh /\ renewed' = renewed
  BY DEF Moving
<1>2. /\ issued \subseteq Ids /\ \A i \in issued : i <= copy.id
      /\ cache \in [Ids -> Names \cup {Missing, NoEntry}]
      /\ \A i \in Ids : cache[i] = Missing => i < copy.id
      /\ refresh \subseteq {SocialPrefix, LoginPrefix} /\ renewed \in BOOLEAN
  BY DEF AccountsInv, AccountsTypeOK, TokensReplicated, MissingIsOld
<1> QED BY <1>1, <1>2, StepKeepsInv

LEMMA CallKeepsInv ==
  ASSUME AccountsInv, NEW h \in Jobs,
         NEW op \in Addressed \cup Personal \cup {"renew"}, Call(h, op)
  PROVE  AccountsInv'
<1>1. /\ issued \subseteq Ids /\ \A i \in issued : i <= copy.id
      /\ cache \in [Ids -> Names \cup {Missing, NoEntry}]
      /\ \A i \in Ids : cache[i] = Missing => i < copy.id
      /\ refresh \subseteq {SocialPrefix, LoginPrefix} /\ renewed \in BOOLEAN
  BY DEF AccountsInv, AccountsTypeOK, TokensReplicated, MissingIsOld
<1>2. /\ UNCHANGED accountDB /\ issued' = issued /\ cache' = cache
      /\ refresh' = refresh /\ renewed' = renewed
      /\ calls < MaxCalls /\ calls' = calls + 1
  BY DEF Call
<1>3. PICK r : job' = [job EXCEPT ![h] = r] /\ Sound(r)
  <2>1. CASE op \in Addressed
    <3>1. PICK n \in Names :
            job' = [job EXCEPT ![h] =
                      [op |-> op, at |-> "find", id |-> 0, name |-> n]]
      BY <2>1 DEF Call, Addressed, Personal
    <3>2. Sound([op |-> op, at |-> "find", id |-> 0, name |-> n])
      BY <2>1 DEF Sound, RequestFits, Job, ById
    <3> QED BY <3>1, <3>2
  <2>2. CASE op \in Personal
    <3>1. PICK i \in issued, n \in Names :
            job' = [job EXCEPT ![h] =
                      [op |-> op, at |-> "findId", id |-> i, name |-> n]]
      BY <2>2 DEF Call, Addressed, Personal
    <3>2. i \in Ids /\ i # 0 /\ i <= copy.id
      BY <1>1 DEF Ids
    <3>3. Sound([op |-> op, at |-> "findId", id |-> i, name |-> n])
      BY <2>2, <3>2 DEF Sound, RequestFits, Job
    <3> QED BY <3>1, <3>3
  <2>3. CASE op = "renew"
    <3>1. job' = [job EXCEPT ![h] = [Idle EXCEPT !.op = op, !.at = "renew"]]
      BY <2>3 DEF Call, Addressed, Personal
    <3>2. Sound([Idle EXCEPT !.op = op, !.at = "renew"])
      BY <2>3 DEF Sound, RequestFits, Job, Idle, ById
    <3> QED BY <3>1, <3>2
  <2> QED BY <2>1, <2>2, <2>3
<1> QED BY <1>1, <1>2, <1>3, StepKeepsInv

LEMMA ReadKeepsInv ==
  ASSUME AccountsInv, NEW h \in Jobs, Read(h)
  PROVE  AccountsInv'
<1>1. PICK i \in issued :
        job' = [job EXCEPT ![h] =
                  [op |-> "read", at |-> "get", id |-> i, name |-> NoEntry]]
  BY DEF Read
<1>2. i \in Ids /\ i # 0 /\ i <= copy.id
  BY DEF AccountsInv, AccountsTypeOK, TokensReplicated, Ids
<1> DEFINE r == [op |-> "read", at |-> "get", id |-> i, name |-> NoEntry]
<1>3. Sound(r)
  BY <1>2 DEF Sound, RequestFits, Job
<1>4. ~IsCreating(r) /\ Moving
  BY DEF IsCreating, Read, Moving
<1> HIDE DEF r
<1> QED BY <1>1, <1>3, <1>4, MoveKeepsInv DEF r

\* What GoTo and GoWith make of a request.
Moved(h, at, i) ==
  [op |-> job[h].op, at |-> at, id |-> i, name |-> job[h].name]

LEMMA GoWithIs ==
  ASSUME AccountsInv, NEW h \in Jobs, NEW at, NEW i, GoWith(h, at, i)
  PROVE  job' = [job EXCEPT ![h] = Moved(h, at, i)]
<1>1. job \in [Jobs -> Job] /\ job[h] \in Job
  BY DEF AccountsInv, AccountsTypeOK
<1>2. [[job[h] EXCEPT !.at = at] EXCEPT !.id = i] = Moved(h, at, i)
  <2>1. [job[h] EXCEPT !.at = at] = Moved(h, at, job[h].id)
    BY <1>1 DEF Moved, Job
  <2>2. [Moved(h, at, job[h].id) EXCEPT !.id = i] = Moved(h, at, i)
    BY DEF Moved
  <2> QED BY <2>1, <2>2
<1>3. job' = [job EXCEPT ![h] = [[job[h] EXCEPT !.at = at] EXCEPT !.id = i]]
  BY <1>1 DEF GoWith, Job
<1> QED BY <1>2, <1>3

LEMMA GoToIs ==
  ASSUME AccountsInv, NEW h \in Jobs, NEW at, GoTo(h, at)
  PROVE  job' = [job EXCEPT ![h] = Moved(h, at, job[h].id)]
<1>1. job \in [Jobs -> Job] /\ job[h] \in Job
  BY DEF AccountsInv, AccountsTypeOK
<1>2. [job[h] EXCEPT !.at = at] = Moved(h, at, job[h].id)
  BY <1>1 DEF Moved, Job
<1>3. job' = [job EXCEPT ![h] = [job[h] EXCEPT !.at = at]]
  BY <1>1 DEF GoTo
<1> QED BY <1>2, <1>3

Places == {"idle", "find", "replace", "verify", "create", "token", "store",
           "renew", "findId", "rename", "get", "load", "set"}

\* A request that goes on, to a place that suits it.
LEMMA GoingOnKeepsInv ==
  ASSUME AccountsInv, NEW h \in Jobs, NEW at \in Places, NEW i \in {0} \cup Ids,
         job' = [job EXCEPT ![h] = Moved(h, at, i)], Moving,
         RequestFits(Moved(h, at, i)),
         at \in {"find", "replace", "create"} => job[h].at = "find"
  PROVE  AccountsInv'
<1> DEFINE r == Moved(h, at, i)
<1>1. job[h] \in Job
  BY DEF AccountsInv, AccountsTypeOK
<1>2. r \in Job
  BY <1>1 DEF Moved, Job, Places
<1>3. IsCreating(r) => IsCreating(job[h])
  BY DEF IsCreating, Moved
<1>4. Sound(r)
  BY <1>2 DEF Sound
<1> HIDE DEF r
<1> QED BY <1>3, <1>4, MoveKeepsInv DEF r

LEMMA EndKeepsInv ==
  ASSUME AccountsInv, NEW h \in Jobs, Done(h), Moving PROVE AccountsInv'
BY IdleSound, MoveKeepsInv DEF Done

LEMMA JobFacts ==
  ASSUME AccountsInv, NEW h \in Jobs
  PROVE  /\ job[h] \in Job /\ RequestFits(job[h])
         /\ copy \in Row /\ copy.id \in {0} \cup Ids /\ copy.id \in Nat
         /\ job[h].id \in {0} \cup Ids /\ job[h].id \in Nat
         /\ copy # NoRow => copy.id # 0
<1>1. job[h] \in Job /\ copy \in Row /\ RequestFits(job[h])
  BY DEF AccountsInv, AccountsTypeOK, RequestsFit
<1>2. job[h].id \in {0} \cup Ids /\ copy.id \in {0} \cup Ids
  BY <1>1 DEF Job, Row
<1>3. copy # NoRow => copy.id # 0
  BY DEF AccountsInv, RowsProper
<1>4. \A i \in {0} \cup Ids : i \in Nat
  BY IdsAreNat
<1> QED BY <1>1, <1>2, <1>3, <1>4

LEMMA FindByEmailKeepsInv ==
  ASSUME AccountsInv, NEW h \in Jobs, FindByEmail(h)
  PROVE  AccountsInv'
<1>1. Moving /\ job[h].at = "find"
  BY DEF FindByEmail, Moving, On
<1>2. /\ job[h] \in Job /\ RequestFits(job[h]) /\ job[h].name \in Names
      /\ copy.id \in {0} \cup Ids /\ copy.id \in Nat
      /\ job[h].id \in {0} \cup Ids
      /\ copy # NoRow => copy.id # 0
  <2>2. job[h] \in Job /\ RequestFits(job[h])
    BY JobFacts
  <2>3. job[h].name \in Names
    BY <1>1, <2>2 DEF RequestFits
  <2>4. /\ copy.id \in {0} \cup Ids /\ copy.id \in Nat
        /\ job[h].id \in {0} \cup Ids
        /\ copy # NoRow => copy.id # 0
    BY JobFacts
  <2> QED BY <2>2, <2>3, <2>4
<1>10. ASSUME copy.verified PROVE copy.id # 0
  <2>1. copy # NoRow
    BY <1>10, NoRowType
  <2> QED BY <1>2, <2>1
<1>3. CASE Done(h)
  BY <1>1, <1>3, EndKeepsInv
<1>4. ASSUME job[h].op = "signUp", GoWith(h, "replace", copy.id) PROVE AccountsInv'
  <2>1. job' = [job EXCEPT ![h] = Moved(h, "replace", copy.id)]
    BY <1>4, GoWithIs
  <2>2. RequestFits(Moved(h, "replace", copy.id))
    BY <1>2, <1>4 DEF RequestFits, Moved, ById
  <2> QED BY <1>1, <1>2, <2>1, <2>2, GoingOnKeepsInv DEF Places
<1>5. ASSUME copy.id # 0, GoWith(h, "verify", copy.id) PROVE AccountsInv'
  <2>1. job' = [job EXCEPT ![h] = Moved(h, "verify", copy.id)]
    BY <1>5, GoWithIs
  <2>2. RequestFits(Moved(h, "verify", copy.id))
    BY <1>2, <1>5 DEF RequestFits, Moved, ById
  <2> QED BY <1>1, <1>2, <2>1, <2>2, GoingOnKeepsInv DEF Places
<1>6. ASSUME copy.id # 0, GoWith(h, "store", copy.id) PROVE AccountsInv'
  <2>1. job' = [job EXCEPT ![h] = Moved(h, "store", copy.id)]
    BY <1>6, GoWithIs
  <2>2. RequestFits(Moved(h, "store", copy.id))
    BY <1>2, <1>6 DEF RequestFits, Moved, ById
  <2> QED BY <1>1, <1>2, <2>1, <2>2, GoingOnKeepsInv DEF Places
<1>7. ASSUME job[h].op = "social", GoTo(h, "create") PROVE AccountsInv'
  <2>1. job' = [job EXCEPT ![h] = Moved(h, "create", job[h].id)]
    BY <1>7, GoToIs
  <2>2. RequestFits(Moved(h, "create", job[h].id))
    BY <1>2, <1>7 DEF RequestFits, Moved, ById
  <2> QED BY <1>1, <1>2, <2>1, <2>2, GoingOnKeepsInv DEF Places
<1>8. ASSUME GoTo(h, "token") PROVE AccountsInv'
  <2>1. job' = [job EXCEPT ![h] = Moved(h, "token", job[h].id)]
    BY <1>8, GoToIs
  <2>2. RequestFits(Moved(h, "token", job[h].id))
    BY <1>2, <1>8 DEF RequestFits, Moved, ById
  <2> QED BY <1>1, <1>2, <2>1, <2>2, GoingOnKeepsInv DEF Places
<1>9. job[h].op \in {"signUp", "verify", "login", "social"}
  BY <1>1, <1>2 DEF RequestFits, Addressed
<1> QED BY <1>2, <1>3, <1>4, <1>5, <1>6, <1>7, <1>8, <1>9, <1>10
        DEF FindByEmail

LEMMA NewAccountKeepsInv ==
  ASSUME AccountsInv, NEW h \in Jobs, job[h].at \in {"replace", "create"},
         NEW verified \in BOOLEAN, NewAccount(h, verified),
         NEW r, Sound(r), ~IsCreating(r), job' = [job EXCEPT ![h] = r],
         UNCHANGED <<cache, issued, refresh, renewed, calls>>
  PROVE  AccountsInv'
<1>1. job[h] \in Job /\ job[h].name \in Names /\ IsCreating(job[h])
  BY JobFacts DEF RequestFits, IsCreating
<1>2. serial + 1 \in Ids
  <2>1. /\ serial \in Nat /\ calls \in Nat /\ calls <= MaxCalls
        /\ serial + Cardinality(Creating) <= calls
        /\ IsFiniteSet(Creating) /\ Cardinality(Creating) \in Nat
    BY CreatingFinite DEF AccountsInv, AccountsTypeOK, IdsBounded,
                          AccountsAssumption
  <2>2. h \in Creating
    BY <1>1 DEF Creating, IsCreating
  <2>3. Cardinality(Creating) # 0
    BY <2>1, <2>2, FS_EmptySet
  <2>4. MaxCalls \in Nat
    BY DEF AccountsAssumption
  <2> QED BY <2>1, <2>3, <2>4 DEF Ids
<1>3. /\ account' = [id |-> serial + 1, name |-> job[h].name,
                     verified |-> verified]
      /\ serial' = serial + 1 /\ Ship
  BY DEF NewAccount
<1>4. account' \in Row /\ account'.id = serial + 1 /\ account'.id # 0
  <2>1. serial + 1 # 0
    BY <1>2, IdsAreNat DEF Ids
  <2> QED BY <1>1, <1>2, <1>3, <2>1 DEF Row
<1> QED BY <1>1, <1>3, <1>4, WriteKeepsInv

LEMMA ReplaceAccountKeepsInv ==
  ASSUME AccountsInv, NEW h \in Jobs, ReplaceAccount(h)
  PROVE  AccountsInv'
<1>1. /\ job[h].at = "replace" /\ Done(h)
      /\ UNCHANGED <<cache, issued, refresh, renewed, calls>>
  BY DEF ReplaceAccount, On
<1>2. CASE NewAccount(h, FALSE)
  BY <1>1, <1>2, IdleSound, NewAccountKeepsInv DEF Done
<1>3. CASE UNCHANGED accountDB
  BY <1>1, <1>3, EndKeepsInv DEF Moving
<1> QED BY <1>2, <1>3 DEF ReplaceAccount

LEMMA CreateProviderUserKeepsInv ==
  ASSUME AccountsInv, NEW h \in Jobs, CreateProviderUser(h)
  PROVE  AccountsInv'
<1>1. /\ job[h].at = "create" /\ GoTo(h, "token")
      /\ UNCHANGED <<cache, issued, refresh, renewed, calls>>
  BY DEF CreateProviderUser, On
<1> DEFINE r == Moved(h, "token", job[h].id)
<1>2. job' = [job EXCEPT ![h] = r]
  BY <1>1, GoToIs
<1>3. RequestFits(r) /\ ~IsCreating(r)
  BY DEF RequestFits, Moved, ById, IsCreating
<1>4. r \in Job
  BY JobFacts DEF Moved, Job
<1> HIDE DEF r
<1>5. CASE NewAccount(h, TRUE)
  BY <1>1, <1>2, <1>3, <1>4, <1>5, NewAccountKeepsInv DEF Sound
<1>6. CASE UNCHANGED accountDB
  BY <1>1, <1>2, <1>3, <1>4, <1>6, MoveKeepsInv DEF Sound, Moving
<1> QED BY <1>5, <1>6 DEF CreateProviderUser

\* Verifying and renaming write a column of the row and keep its id.
LEMMA ColumnKeepsInv ==
  ASSUME AccountsInv, NEW h \in Jobs, Done(h), job[h].id # 0,
         account.id = job[h].id, account' \in Row, account'.id = account.id,
         serial' = serial, Ship,
         UNCHANGED <<cache, issued, refresh, renewed, calls>>
  PROVE  AccountsInv'
<1>1. job' = [job EXCEPT ![h] = Idle]
  BY DEF Done
<1> QED BY <1>1, IdleSound, WriteKeepsInv

LEMMA VerifyEmailKeepsInv ==
  ASSUME AccountsInv, NEW h \in Jobs, VerifyEmail(h)
  PROVE  AccountsInv'
<1>1. /\ job[h].at = "verify" /\ Done(h)
      /\ UNCHANGED <<cache, issued, refresh, renewed, calls>>
  BY DEF VerifyEmail, On
<1>2. job[h].id # 0 /\ account \in Row
  BY <1>1, JobFacts DEF RequestFits, AccountsInv, AccountsTypeOK
<1>3. CASE account.id = job[h].id
  <2>1. /\ account' = [account EXCEPT !.verified = TRUE]
        /\ serial' = serial /\ Ship
    BY <1>3 DEF VerifyEmail
  <2>2. account' \in Row /\ account'.id = account.id
    BY <1>2, <2>1 DEF Row
  <2> QED BY <1>1, <1>2, <1>3, <2>1, <2>2, ColumnKeepsInv
<1>4. CASE account.id # job[h].id
  BY <1>1, <1>4, EndKeepsInv DEF VerifyEmail, Moving
<1> QED BY <1>3, <1>4

LEMMA RenameKeepsInv ==
  ASSUME AccountsInv, NEW h \in Jobs, Rename(h)
  PROVE  AccountsInv'
<1>1. /\ job[h].at = "rename" /\ Done(h)
      /\ UNCHANGED <<cache, issued, refresh, renewed, calls>>
  BY DEF Rename, On
<1>2. job[h].id # 0 /\ job[h].name \in Names /\ account \in Row
  BY <1>1, JobFacts DEF RequestFits, ById, AccountsInv, AccountsTypeOK
<1>3. CASE account.id = job[h].id
  <2>1. /\ account' = [account EXCEPT !.name = job[h].name]
        /\ serial' = serial /\ Ship
    BY <1>3 DEF Rename
  <2>2. account' \in Row /\ account'.id = account.id
    BY <1>2, <2>1 DEF Row
  <2> QED BY <1>1, <1>2, <1>3, <2>1, <2>2, ColumnKeepsInv
<1>4. CASE account.id # job[h].id
  BY <1>1, <1>4, EndKeepsInv DEF Rename, Moving
<1> QED BY <1>3, <1>4

LEMMA CreateTokenKeepsInv ==
  ASSUME AccountsInv, NEW h \in Jobs, CreateToken(h)
  PROVE  AccountsInv'
<1>1. Moving
  BY DEF CreateToken, Moving
<1>2. CASE copy = NoRow
  BY <1>1, <1>2, EndKeepsInv DEF CreateToken
<1>3. CASE copy # NoRow
  <2>1. copy.id # 0 /\ copy.id \in {0} \cup Ids /\ copy.id \in Nat
    BY <1>3, JobFacts
  <2>2. job' = [job EXCEPT ![h] = Moved(h, "store", copy.id)]
    BY <1>3, GoWithIs DEF CreateToken
  <2>3. RequestFits(Moved(h, "store", copy.id))
    BY <2>1 DEF RequestFits, Moved, ById
  <2> QED BY <1>1, <2>1, <2>2, <2>3, GoingOnKeepsInv DEF Places
<1> QED BY <1>2, <1>3

LEMMA StoreTokenKeepsInv ==
  ASSUME AccountsInv, NEW h \in Jobs, StoreToken(h)
  PROVE  AccountsInv'
<1>1. /\ job[h].at = "store" /\ job' = [job EXCEPT ![h] = Idle]
      /\ issued' = issued \cup {job[h].id}
      /\ UNCHANGED accountDB /\ cache' = cache /\ renewed' = renewed
      /\ calls' = calls
  BY DEF StoreToken, On, Done
<1>2. /\ issued \subseteq Ids /\ \A i \in issued : i <= copy.id
      /\ cache \in [Ids -> Names \cup {Missing, NoEntry}]
      /\ \A i \in Ids : cache[i] = Missing => i < copy.id
      /\ refresh \subseteq {SocialPrefix, LoginPrefix} /\ renewed \in BOOLEAN
  BY DEF AccountsInv, AccountsTypeOK, TokensReplicated, MissingIsOld
<1>3. job[h].id \in Ids /\ job[h].id <= copy.id
  BY <1>1, JobFacts DEF RequestFits, ById
<1>4. refresh' \subseteq {SocialPrefix, LoginPrefix}
  BY <1>2 DEF StoreToken
<1>5. issued' \subseteq Ids /\ \A i \in issued' : i <= copy.id
  BY <1>1, <1>2, <1>3
<1> QED BY <1>1, <1>2, <1>4, <1>5, IdleSound, StepKeepsInv

LEMMA RenewKeepsInv ==
  ASSUME AccountsInv, NEW h \in Jobs, Renew(h)
  PROVE  AccountsInv'
<1>1. /\ job' = [job EXCEPT ![h] = Idle] /\ renewed' \in BOOLEAN
      /\ UNCHANGED accountDB /\ cache' = cache /\ issued' = issued
      /\ refresh' = refresh /\ calls' = calls
  BY DEF Renew, Done
<1>2. /\ issued \subseteq Ids /\ \A i \in issued : i <= copy.id
      /\ cache \in [Ids -> Names \cup {Missing, NoEntry}]
      /\ \A i \in Ids : cache[i] = Missing => i < copy.id
      /\ refresh \subseteq {SocialPrefix, LoginPrefix}
  BY DEF AccountsInv, AccountsTypeOK, TokensReplicated, MissingIsOld
<1> QED BY <1>1, <1>2, IdleSound, StepKeepsInv

LEMMA FindOneByIdKeepsInv ==
  ASSUME AccountsInv, NEW h \in Jobs, FindOneById(h)
  PROVE  AccountsInv'
<1>1. Moving /\ job[h].at = "findId"
  BY DEF FindOneById, Moving, On
<1>2. CASE Done(h)
  BY <1>1, <1>2, EndKeepsInv
<1>3. CASE GoTo(h, "rename")
  <2>1. job' = [job EXCEPT ![h] = Moved(h, "rename", job[h].id)]
    BY <1>3, GoToIs
  <2>2. RequestFits(Moved(h, "rename", job[h].id))
    BY <1>1, JobFacts DEF RequestFits, Moved, ById
  <2>3. job[h].id \in {0} \cup Ids
    BY JobFacts
  <2> QED BY <1>1, <2>1, <2>2, <2>3, GoingOnKeepsInv DEF Places
<1> QED BY <1>2, <1>3 DEF FindOneById

LEMMA GetCachedKeepsInv ==
  ASSUME AccountsInv, NEW h \in Jobs, GetCached(h)
  PROVE  AccountsInv'
<1>1. Moving /\ job[h].at = "get"
  BY DEF GetCached, Moving, On
<1>2. CASE Done(h)
  BY <1>1, <1>2, EndKeepsInv
<1>3. CASE GoTo(h, "load")
  <2>1. job' = [job EXCEPT ![h] = Moved(h, "load", job[h].id)]
    BY <1>3, GoToIs
  <2>2. RequestFits(Moved(h, "load", job[h].id))
    BY <1>1, JobFacts DEF RequestFits, Moved, ById
  <2>3. job[h].id \in {0} \cup Ids
    BY JobFacts
  <2> QED BY <1>1, <2>1, <2>2, <2>3, GoingOnKeepsInv DEF Places
<1> QED BY <1>2, <1>3 DEF GetCached

\* What is not found by an id the slave once had is older than what it has.
LEMMA LoadByIdKeepsInv ==
  ASSUME AccountsInv, NEW h \in Jobs, LoadById(h)
  PROVE  AccountsInv'
<1> DEFINE found == IF copy.id = job[h].id THEN copy.name ELSE Missing
           r == [op |-> job[h].op, at |-> "set", id |-> job[h].id, name |-> found]
<1>1. Moving /\ job[h].at = "load"
  BY DEF LoadById, Moving, On
<1>2. /\ job[h] \in Job /\ copy \in Row /\ job[h].id # 0
      /\ job[h].id <= copy.id /\ job[h].id \in Nat /\ copy.id \in Nat
  BY <1>1, JobFacts DEF RequestFits, ById
<1>3. job' = [job EXCEPT ![h] = r]
  <2>1. job \in [Jobs -> Job]
    BY DEF AccountsInv, AccountsTypeOK
  <2>2. job' = [job EXCEPT ![h].at = "set", ![h].name = found]
    BY DEF LoadById
  <2> HIDE DEF found
  <2>3. job' = [job EXCEPT ![h] =
                  [[job[h] EXCEPT !.at = "set"] EXCEPT !.name = found]]
    BY <2>1, <2>2 DEF Job
  <2>4. [job[h] EXCEPT !.at = "set"] = Moved(h, "set", job[h].id)
    BY <1>2 DEF Moved, Job
  <2>5. [Moved(h, "set", job[h].id) EXCEPT !.name = found] = r
    BY DEF Moved
  <2> QED BY <2>3, <2>4, <2>5
<1>4. found = Missing => job[h].id < copy.id
  <2>1. copy.name \in Names /\ Missing \notin Names
    BY <1>2 DEF Row, AccountsAssumption
  <2> QED BY <1>2, <2>1
<1>5. found \in Names \cup {Missing, NoEntry}
  BY <1>2 DEF Row
<1> HIDE DEF found
<1>6. r \in Job
  BY <1>2, <1>5 DEF Job
<1>7. RequestFits(r)
  BY <1>2, <1>4 DEF RequestFits, ById
<1>8. ~IsCreating(r)
  BY DEF IsCreating
<1> HIDE DEF r
<1> QED BY <1>1, <1>3, <1>6, <1>7, <1>8, MoveKeepsInv DEF Sound

LEMMA SetCachedKeepsInv ==
  ASSUME AccountsInv, NEW h \in Jobs, SetCached(h)
  PROVE  AccountsInv'
<1>1. /\ job[h].at = "set" /\ job' = [job EXCEPT ![h] = Idle]
      /\ cache' = [cache EXCEPT ![job[h].id] = job[h].name]
      /\ UNCHANGED accountDB /\ issued' = issued /\ refresh' = refresh
      /\ renewed' = renewed /\ calls' = calls
  BY DEF SetCached, On, Done
<1>2. /\ issued \subseteq Ids /\ \A i \in issued : i <= copy.id
      /\ cache \in [Ids -> Names \cup {Missing, NoEntry}]
      /\ \A i \in Ids : cache[i] = Missing => i < copy.id
      /\ refresh \subseteq {SocialPrefix, LoginPrefix} /\ renewed \in BOOLEAN
  BY DEF AccountsInv, AccountsTypeOK, TokensReplicated, MissingIsOld
<1>3. /\ job[h].id \in Ids /\ job[h].name \in Names \cup {Missing, NoEntry}
      /\ job[h].name = Missing => job[h].id < copy.id
  BY <1>1, JobFacts DEF RequestFits, ById, Job
<1>4. cache' \in [Ids -> Names \cup {Missing, NoEntry}]
  BY <1>1, <1>2, <1>3
<1>5. ASSUME NEW i \in Ids, cache'[i] = Missing PROVE i < copy.id
  BY <1>1, <1>2, <1>3, <1>5
<1> QED BY <1>1, <1>2, <1>4, <1>5, IdleSound, StepKeepsInv

LEMMA ExpireKeepsInv ==
  ASSUME AccountsInv, NEW i \in Ids, Expire(i)
  PROVE  AccountsInv'
<1>1. /\ cache' = [cache EXCEPT ![i] = NoEntry]
      /\ UNCHANGED <<accountDB, issued, refresh, renewed, job, calls>>
  BY DEF Expire
<1>2. cache' \in [Ids -> Names \cup {Missing, NoEntry}]
  BY <1>1 DEF AccountsInv, AccountsTypeOK
<1>3. MissingIsOld'
  BY <1>1 DEF AccountsInv, AccountsTypeOK, MissingIsOld, accountDB,
              AccountsAssumption
<1>4. AccountsTypeOK'
  BY <1>1, <1>2 DEF AccountsInv, AccountsTypeOK, accountDB
<1> QED BY <1>1, <1>3, <1>4
        DEF AccountsInv, IdsBounded, Creating, RowsProper, IdsGrow,
            TokensReplicated, RequestsFit, RequestFits, accountDB

LEMMA ReplicateAccountKeepsInv ==
  ASSUME AccountsInv, ReplicateAccount
  PROVE  AccountsInv'
<1>1. /\ unshipped # <<>> /\ copy' = unshipped[1]
      /\ unshipped' = Tail(unshipped)
      /\ UNCHANGED <<account, serial, cache, issued, refresh, renewed, job,
                     calls>>
  BY DEF ReplicateAccount, AccountsInv, AccountsTypeOK
<1>2. /\ unshipped \in Seq(Row) /\ 1 \in 1..Len(unshipped)
      /\ unshipped' \in Seq(Row) /\ Len(unshipped') = Len(unshipped) - 1
      /\ Len(unshipped) \in Nat
      /\ \A k \in 1..Len(unshipped') :
           k + 1 \in 1..Len(unshipped) /\ unshipped'[k] = unshipped[k + 1]
  BY <1>1 DEF AccountsInv, AccountsTypeOK
<1>3. /\ copy \in Row /\ copy' \in Row /\ copy.id \in Nat /\ copy'.id \in Nat
      /\ copy.id <= copy'.id /\ copy'.id <= account.id
  BY <1>1, <1>2, IdsAreNat DEF AccountsInv, AccountsTypeOK, IdsGrow
<1>4. AccountsTypeOK'
  BY <1>1, <1>2, <1>3 DEF AccountsInv, AccountsTypeOK
<1>5. IdsBounded' /\ RowsProper'
  BY <1>1, <1>2 DEF AccountsInv, IdsBounded, Creating, RowsProper
<1>6. IdsGrow'
  <2>1. copy'.id <= account'.id /\ account'.id <= serial'
    BY <1>1, <1>3 DEF AccountsInv, IdsGrow
  <2>2. ASSUME NEW k \in 1..Len(unshipped')
        PROVE  copy'.id <= unshipped'[k].id /\ unshipped'[k].id <= account'.id
    BY <1>1, <1>2, <2>2 DEF AccountsInv, IdsGrow
  <2>3. ASSUME NEW j \in 1..Len(unshipped'), NEW k \in 1..Len(unshipped'), j <= k
        PROVE  unshipped'[j].id <= unshipped'[k].id
    <3>1. /\ j + 1 \in 1..Len(unshipped) /\ k + 1 \in 1..Len(unshipped) /\ j + 1 <= k + 1
          /\ unshipped'[j] = unshipped[j + 1] /\ unshipped'[k] = unshipped[k + 1]
      BY <1>2, <2>3
    <3>2. \A m, n \in 1..Len(unshipped) : m <= n => unshipped[m].id <= unshipped[n].id
      BY DEF AccountsInv, IdsGrow
    <3>3. unshipped[j + 1].id <= unshipped[k + 1].id
      BY <3>1, <3>2
    <3> QED BY <3>1, <3>3
  <2> QED BY <2>1, <2>2, <2>3 DEF IdsGrow
<1>7. TokensReplicated'
  <2>1. ASSUME NEW i \in issued PROVE i <= copy'.id
    <3>1. i \in Nat /\ i <= copy.id
      BY IdsAreNat DEF AccountsInv, AccountsTypeOK, TokensReplicated
    <3> QED BY <1>3, <3>1
  <2> QED BY <1>1, <2>1 DEF TokensReplicated
<1>8. MissingIsOld'
  <2>1. ASSUME NEW i \in Ids, cache[i] = Missing PROVE i < copy'.id
    <3>1. i \in Nat /\ i < copy.id
      BY <2>1, IdsAreNat DEF AccountsInv, MissingIsOld
    <3> QED BY <1>3, <3>1
  <2> QED BY <1>1, <2>1 DEF MissingIsOld
<1>9. RequestsFit'
  <2>1. ASSUME NEW h \in Jobs PROVE RequestFits(job[h])'
    <3>1. job[h].id \in Nat /\ RequestFits(job[h]) /\ job'[h] = job[h]
      BY <1>1, JobFacts
    <3> QED BY <1>3, <3>1 DEF RequestFits
  <2> QED BY <2>1 DEF RequestsFit
<1> QED BY <1>4, <1>5, <1>6, <1>7, <1>8, <1>9 DEF AccountsInv

LEMMA AccountsStep == AccountsInv /\ [AccountsNext]_accountsVars => AccountsInv'
<1> SUFFICES ASSUME AccountsInv, [AccountsNext]_accountsVars PROVE AccountsInv'
  OBVIOUS
<1>1. ASSUME NEW h \in Jobs, JobSteps(h) PROVE AccountsInv'
  BY <1>1, FindByEmailKeepsInv, ReplaceAccountKeepsInv, VerifyEmailKeepsInv,
     CreateProviderUserKeepsInv, CreateTokenKeepsInv, StoreTokenKeepsInv,
     RenewKeepsInv, FindOneByIdKeepsInv, RenameKeepsInv, GetCachedKeepsInv,
     LoadByIdKeepsInv, SetCachedKeepsInv DEF JobSteps
<1>2. ASSUME NEW h \in Jobs, Refuse(h) PROVE AccountsInv'
  BY <1>2, EndKeepsInv DEF Refuse, Moving
<1>3. CASE UNCHANGED accountsVars
  BY <1>3 DEF accountsVars, accountDB, AccountsInv, AccountsTypeOK, IdsBounded,
              Creating, RowsProper, IdsGrow, TokensReplicated, MissingIsOld,
              RequestsFit, RequestFits
<1> QED BY <1>1, <1>2, <1>3, CallKeepsInv, ReadKeepsInv, ExpireKeepsInv,
           ReplicateAccountKeepsInv DEF AccountsNext

LEMMA AccountsInvariant == AccountsSpec => []AccountsInv
<1> QED BY AccountsInit_Inv, AccountsStep, PTL DEF AccountsSpec

-----------------------------------------------------------------------------
\* The variables of the accounts keep their types: signing up never gives more
\* ids than there were requests.
THEOREM AccountsTypeCorrect == AccountsSpec => []AccountsTypeOK
<1>1. AccountsInv => AccountsTypeOK
  BY DEF AccountsInv
<1> QED BY <1>1, AccountsInvariant, PTL

\* Whatever log-ins, sign-ups, renames, expiries and lagging lookups do, no
\* account that has not been replaced is cached as missing.
THEOREM NobodyLockedOut == AccountsSpec => []LockedOutOnlyIfReplaced
<1>1. AccountsInv => LockedOutOnlyIfReplaced
  <2> SUFFICES ASSUME AccountsInv, NEW i \in Ids, cache[i] = Missing
               PROVE  account.id # i
    BY DEF LockedOutOnlyIfReplaced
  <2>1. i < copy.id /\ copy.id <= account.id
    BY DEF AccountsInv, MissingIsOld, IdsGrow
  <2>2. i \in Nat /\ copy.id \in Nat /\ account.id \in Nat
    BY IdsAreNat DEF AccountsInv, AccountsTypeOK
  <2> QED BY <2>1, <2>2
<1> QED BY <1>1, AccountsInvariant, PTL

\* The renewal looks for its tokens under a prefix that no log-in writes.
THEOREM NoRenewal == AccountsSpec => []NeverRenewed
<1>1. AccountsInit => NeverRenewed
  BY DEF AccountsInit, NeverRenewed
<1>2. AccountsInv /\ NeverRenewed /\ [AccountsNext]_accountsVars => NeverRenewed'
  <2> SUFFICES ASSUME AccountsInv, NeverRenewed, [AccountsNext]_accountsVars
               PROVE  NeverRenewed'
    OBVIOUS
  <2>1. ASSUME NEW h \in Jobs, Renew(h) PROVE NeverRenewed'
    <3>1. AskedPrefix \notin refresh
      BY DEF AccountsInv, AccountsTypeOK, AskedPrefix, SocialPrefix, LoginPrefix
    <3> QED BY <2>1, <3>1 DEF Renew, NeverRenewed
  <2>2. ASSUME NEW h \in Jobs, JobSteps(h), ~Renew(h) PROVE renewed' = renewed
    BY <2>2 DEF JobSteps, FindByEmail, ReplaceAccount, VerifyEmail,
                CreateProviderUser, CreateToken, StoreToken, FindOneById,
                Rename, GetCached, LoadById, SetCached
  <2>3. ASSUME NEW h \in Jobs, NEW op, Call(h, op) PROVE renewed' = renewed
    BY <2>3 DEF Call
  <2>4. ASSUME NEW h \in Jobs, Read(h) \/ Refuse(h) PROVE renewed' = renewed
    BY <2>4 DEF Read, Refuse
  <2>5. ASSUME NEW i \in Ids, Expire(i) PROVE renewed' = renewed
    BY <2>5 DEF Expire
  <2>6. CASE ReplicateAccount \/ UNCHANGED accountsVars
    BY <2>6 DEF ReplicateAccount, accountsVars, NeverRenewed
  <2> QED BY <2>1, <2>2, <2>3, <2>4, <2>5, <2>6 DEF AccountsNext, NeverRenewed
<1> QED BY <1>1, <1>2, AccountsInvariant, PTL DEF AccountsSpec

HIDE AccountsAssumption

-----------------------------------------------------------------------------
(***************************************************************************)
(* HallOfFame.  The argument (HallInv): last week does not change during a *)
(* day, the ballots of the days before are among those there are, and a    *)
(* server leaves a poll out of what it has still to count only once its    *)
(* total takes them in; what another server stores meanwhile does as well. *)
(***************************************************************************)

USE HallAssumption

\* A rebuild that ends keeps the types of what it stood on.
LEMMA EndType ==
  ASSUME HallTypeOK, NEW w \in Servers, EndRebuild(w), board' = board
  PROVE  /\ phase' \in [Servers -> Phases] /\ rank' \in [Servers -> Nat]
         /\ left' \in [Servers -> SUBSET Polls]
         /\ counting' \in [Servers -> {Nothing} \cup (Polls \X (Nat \cup {NaN}))]
         /\ \A v \in Servers : phase'[v] = "write" => counting'[v] # Nothing
         /\ \A v \in Servers : phase'[v] \in {"replace", "delete"} =>
              rank'[v] \in DOMAIN Rebuild[board'].ranks
<1>1. /\ phase' \in [Servers -> Phases] /\ rank' \in [Servers -> Nat]
      /\ left' \in [Servers -> SUBSET Polls]
      /\ counting' \in [Servers -> {Nothing} \cup (Polls \X (Nat \cup {NaN}))]
  BY DEF EndRebuild, Go, HallTypeOK, Phases
<1>2. ASSUME NEW v \in Servers
      PROVE  /\ phase'[v] = "write" => counting'[v] # Nothing
             /\ phase'[v] \in {"replace", "delete"} =>
                  rank'[v] \in DOMAIN Rebuild[board'].ranks
  BY DEF EndRebuild, Go, HallTypeOK
<1> QED BY <1>1, <1>2

LEMMA RanksAreSequences ==
  ASSUME NEW b \in HallBoards
  PROVE  /\ Rebuild[b].ranks \in Seq(Rankings)
         /\ DOMAIN Rebuild[b].ranks = 1..Len(Rebuild[b].ranks)
         /\ Len(Rebuild[b].ranks) \in Nat /\ 1 \in DOMAIN Rebuild[b].ranks
<1>1. Rebuild[b].ranks \in {<<"votes", "likes", "views">>, <<"votes", "views">>,
                            <<"likes", "views">>}
  BY DEF HallBoards, Rebuild, TrialRebuild, HumorRebuild, PoliticalRebuild,
         OnlineRebuild
<1>2. CASE Rebuild[b].ranks = <<"votes", "likes", "views">>
  BY <1>2 DEF Rankings
<1>3. CASE Rebuild[b].ranks = <<"votes", "views">>
  BY <1>3 DEF Rankings
<1>4. CASE Rebuild[b].ranks = <<"likes", "views">>
  BY <1>4 DEF Rankings
<1> QED BY <1>1, <1>2, <1>3, <1>4

LEMMA CountableType ==
  ASSUME NEW n \in Nat
  PROVE  Countable(n) \in {0, n}
BY DEF Countable

\* A ballot comes, or goes: it was one of today, or of the days before.
LEMMA BallotMoves ==
  ASSUME HallTypeOK, NEW p \in Polls, CastBallot(p) \/ CancelBallot(p)
  PROVE  /\ ballots' \in [Polls -> Nat] /\ earlier' \in [Polls -> Nat]
         /\ \A q \in Polls : /\ earlier'[q] <= earlier[q]
                             /\ ballots[q] >= earlier[q] => ballots'[q] >= earlier'[q]
<1>0. /\ ballots \in [Polls -> Nat] /\ earlier \in [Polls -> Nat]
      /\ ballots[p] \in Nat /\ earlier[p] \in Nat
  BY DEF HallTypeOK
<1>1. CASE CastBallot(p)
  <2>1. ballots' = [ballots EXCEPT ![p] = ballots[p] + 1] /\ earlier' = earlier
    BY <1>1 DEF CastBallot
  <2>2. ballots[p] + 1 \in Nat
    BY <1>0
  <2>3. ballots' \in [Polls -> Nat] /\ earlier' \in [Polls -> Nat]
    BY <1>0, <2>1, <2>2
  <2> QED BY <1>0, <2>1, <2>3
<1>2. CASE CancelBallot(p)
  <2>1. PICK n \in {earlier[p], earlier[p] - 1} :
          n \in 0..ballots[p] - 1 /\ earlier' = [earlier EXCEPT ![p] = n]
    BY <1>2 DEF CancelBallot
  <2>2. ballots' = [ballots EXCEPT ![p] = ballots[p] - 1] /\ ballots[p] > 0
    BY <1>2 DEF CancelBallot
  <2>3. n \in Nat /\ n <= earlier[p] /\ n <= ballots[p] - 1 /\ ballots[p] - 1 \in Nat
    BY <1>0, <2>1, <2>2
  <2>4. ballots' \in [Polls -> Nat] /\ earlier' \in [Polls -> Nat]
    BY <1>0, <2>1, <2>2, <2>3
  <2> QED BY <1>0, <2>1, <2>2, <2>3, <2>4
<1> QED BY <1>1, <1>2

LEMMA HallInitType == HallInit => HallTypeOK
<1> SUFFICES ASSUME HallInit PROVE HallTypeOK
  OBVIOUS
<1>1. /\ made \in [Polls -> Days \cup {Never}]
      /\ ballots \in [Polls -> Nat] /\ earlier \in [Polls -> Nat]
      /\ total \in [Polls -> Nat] /\ weeks \in [Polls -> SUBSET Nat]
  BY DEF HallInit
<1>2. /\ phase \in [Servers -> Phases] /\ rank \in [Servers -> Nat]
      /\ left \in [Servers -> SUBSET Polls]
      /\ counting \in [Servers -> {Nothing} \cup (Polls \X (Nat \cup {NaN}))]
      /\ fired \in [Servers -> Days \cup {Never}]
  BY DEF HallInit, Phases
<1>3. \A w \in Servers : phase[w] = "idle"
  BY DEF HallInit
<1>4. board \in HallBoards /\ today \in Days
      /\ hall \in [Ranked(board) -> {"old", "new"}]
  BY DEF HallInit
<1> QED BY <1>1, <1>2, <1>3, <1>4 DEF HallTypeOK

LEMMA HallTypeStep == HallTypeOK /\ [HallNext]_hallVars => HallTypeOK'
<1> SUFFICES ASSUME HallTypeOK, [HallNext]_hallVars PROVE HallTypeOK'
  OBVIOUS
<1>1. CASE NextDay
  BY <1>1 DEF NextDay, HallTypeOK
<1>2. ASSUME NEW p \in Polls, MakePoll(p) PROVE HallTypeOK'
  BY <1>2 DEF MakePoll, HallTypeOK
<1>3. ASSUME NEW p \in Polls, CastBallot(p) \/ CancelBallot(p)
      PROVE  HallTypeOK'
  <2>1. ballots' \in [Polls -> Nat] /\ earlier' \in [Polls -> Nat]
    BY <1>3, BallotMoves
  <2> QED BY <1>3, <2>1 DEF CastBallot, CancelBallot, HallTypeOK
<1>4. ASSUME NEW w \in Servers, Cron(w) \/ ByHand(w) PROVE HallTypeOK'
  <2>1. /\ StartRebuild(w) /\ fired' \in [Servers -> Days \cup {Never}]
    BY <1>4 DEF Cron, ByHand, HallTypeOK
  <2>2. FoundPolls \in SUBSET Polls
    BY DEF FoundPolls
  <2>3. phase' \in [Servers -> Phases] /\ left' \in [Servers -> SUBSET Polls]
    BY <2>1, <2>2 DEF StartRebuild, Go, HallTypeOK, Phases
  <2> QED BY <2>1, <2>3 DEF StartRebuild, Go, pollVars, HallTypeOK
<1>5. ASSUME NEW w \in Servers, NEW p \in Polls, SumBallots(w, p)
      PROVE  HallTypeOK'
  <2>1. UNCHANGED <<board, today, pollVars, total, hall, fired>>
    BY <1>5 DEF SumBallots
  <2>2. CASE EndRebuild(w) /\ UNCHANGED weeks
    BY <2>1, <2>2, EndType DEF HallTypeOK, pollVars
  <2>3. CASE ~(EndRebuild(w) /\ UNCHANGED weeks)
    <3> DEFINE sum == IF Countable(ballots[p]) = 0 THEN NaN
                      ELSE Countable(ballots[p])
    <3>1. /\ counting' = [counting EXCEPT ![w] = <<p, sum>>]
          /\ weeks' = [weeks EXCEPT ![p] = @ \cup {today \div 7}]
          /\ Go(w, "write") /\ UNCHANGED <<rank, left>>
      BY <1>5, <2>3 DEF SumBallots
    <3>2. sum \in Nat \cup {NaN}
      BY CountableType DEF HallTypeOK
    <3> HIDE DEF sum
    <3>3. <<p, sum>> \in Polls \X (Nat \cup {NaN}) /\ <<p, sum>> # Nothing
      BY <3>2 DEF Nothing
    <3>4. /\ counting' \in [Servers -> {Nothing} \cup (Polls \X (Nat \cup {NaN}))]
          /\ phase' \in [Servers -> Phases]
      BY <3>1, <3>3 DEF Go, HallTypeOK, Phases
    <3>5. weeks' \in [Polls -> SUBSET Nat]
      <4>1. today \in Nat
        BY DEF HallTypeOK, HallAssumption
      <4>2. today \div 7 \in Nat
        BY <4>1
      <4> QED BY <3>1, <4>2 DEF HallTypeOK
    <3>6. \A v \in Servers : phase'[v] = "write" => counting'[v] # Nothing
      BY <3>1, <3>3 DEF Go, HallTypeOK
    <3>7. \A v \in Servers : phase'[v] \in {"replace", "delete"} =>
            rank'[v] \in DOMAIN Rebuild[board'].ranks
      BY <2>1, <3>1 DEF Go, HallTypeOK
    <3> QED BY <2>1, <3>1, <3>4, <3>5, <3>6, <3>7 DEF HallTypeOK, pollVars
  <2> QED BY <2>2, <2>3
<1>6. ASSUME NEW w \in Servers, WriteTotal(w) PROVE HallTypeOK'
  <2>1. phase[w] = "write"
        /\ UNCHANGED <<board, today, pollVars, hall, fired, weeks>>
    BY <1>6 DEF WriteTotal
  <2>2. counting[w] \in Polls \X (Nat \cup {NaN})
    BY <2>1 DEF HallTypeOK
  <2>3. CASE counting[w][2] = NaN
    BY <1>6, <2>1, <2>3, EndType DEF WriteTotal, HallTypeOK, pollVars
  <2>4. CASE counting[w][2] # NaN
    <3>1. /\ total' = [total EXCEPT ![counting[w][1]] = counting[w][2]]
          /\ left' = [left EXCEPT ![w] = @ \ {counting[w][1]}]
          /\ counting' = [counting EXCEPT ![w] = Nothing]
          /\ Go(w, "count") /\ UNCHANGED rank
      BY <1>6, <2>4 DEF WriteTotal
    <3>2. counting[w][2] \in Nat
      BY <2>2, <2>4
    <3>3. total' \in [Polls -> Nat] /\ left' \in [Servers -> SUBSET Polls]
      BY <3>1, <3>2 DEF HallTypeOK
    <3>4. /\ counting' \in [Servers -> {Nothing} \cup (Polls \X (Nat \cup {NaN}))]
          /\ phase' \in [Servers -> Phases]
      BY <3>1 DEF Go, HallTypeOK, Phases
    <3>5. \A v \in Servers :
            /\ phase'[v] = "write" => counting'[v] # Nothing
            /\ phase'[v] \in {"replace", "delete"} =>
                 rank'[v] \in DOMAIN Rebuild[board'].ranks
      BY <2>1, <3>1 DEF Go, HallTypeOK
    <3> QED BY <2>1, <3>1, <3>3, <3>4, <3>5 DEF HallTypeOK, pollVars
  <2> QED BY <2>3, <2>4
<1>7. ASSUME NEW w \in Servers, AllCounted(w) \/ DeleteAll(w)
      PROVE  HallTypeOK'
  <2>1. UNCHANGED <<board, today, pollVars, total, hall, rank, left, counting,
                    fired, weeks>>
    BY <1>7 DEF AllCounted, DeleteAll
  <2>2. phase' \in [Servers -> Phases]
    BY <1>7 DEF AllCounted, DeleteAll, Go, HallTypeOK, Phases
  <2>3. \A v \in Servers :
          /\ phase'[v] = "write" => counting'[v] # Nothing
          /\ phase'[v] \in {"replace", "delete"} =>
               rank'[v] \in DOMAIN Rebuild[board'].ranks
    BY <1>7, <2>1 DEF AllCounted, DeleteAll, Go, HallTypeOK
  <2> QED BY <2>1, <2>2, <2>3 DEF HallTypeOK, pollVars
<1>8. ASSUME NEW w \in Servers, AskLeaders(w) PROVE HallTypeOK'
  <2>1. UNCHANGED <<board, today, pollVars, total, hall, fired, weeks>>
    BY <1>8 DEF AskLeaders
  <2>2. CASE EndRebuild(w)
    BY <2>1, <2>2, EndType DEF HallTypeOK, pollVars
  <2>3. CASE ~EndRebuild(w)
    <3>1. /\ Go(w, "replace") /\ rank' = [rank EXCEPT ![w] = 1]
          /\ UNCHANGED <<left, counting>>
      BY <1>8, <2>3 DEF AskLeaders
    <3>2. 1 \in DOMAIN Rebuild[board].ranks
      BY RanksAreSequences DEF HallTypeOK
    <3>3. phase' \in [Servers -> Phases] /\ rank' \in [Servers -> Nat]
      BY <3>1 DEF Go, HallTypeOK, Phases
    <3>4. \A v \in Servers :
            /\ phase'[v] = "write" => counting'[v] # Nothing
            /\ phase'[v] \in {"replace", "delete"} =>
                 rank'[v] \in DOMAIN Rebuild[board'].ranks
      BY <2>1, <3>1, <3>2 DEF Go, HallTypeOK
    <3> QED BY <2>1, <3>1, <3>3, <3>4 DEF HallTypeOK, pollVars
  <2> QED BY <2>2, <2>3
<1>9. ASSUME NEW w \in Servers, EndReplace(w) PROVE HallTypeOK'
  <2>1. phase[w] = "delete" /\ UNCHANGED <<board, today, pollVars, total, fired,
                                           weeks>>
    BY <1>9 DEF EndReplace
  <2>2. hall' \in [Ranked(board) -> {"old", "new"}]
    BY <1>9 DEF EndReplace, HallTypeOK
  <2>3. CASE EndRebuild(w)
    BY <2>1, <2>2, <2>3, EndType DEF HallTypeOK, pollVars
  <2>4. CASE ~EndRebuild(w)
    <3>1. /\ rank[w] < Len(Rebuild[board].ranks) /\ Go(w, "replace")
          /\ rank' = [rank EXCEPT ![w] = @ + 1] /\ UNCHANGED <<left, counting>>
      BY <1>9, <2>4 DEF EndReplace
    <3>2. rank[w] + 1 \in DOMAIN Rebuild[board].ranks /\ rank[w] \in Nat
      BY <2>1, <3>1, RanksAreSequences DEF HallTypeOK
    <3>3. phase' \in [Servers -> Phases] /\ rank' \in [Servers -> Nat]
      BY <3>1, <3>2 DEF Go, HallTypeOK, Phases
    <3>4. \A v \in Servers :
            /\ phase'[v] = "write" => counting'[v] # Nothing
            /\ phase'[v] \in {"replace", "delete"} =>
                 rank'[v] \in DOMAIN Rebuild[board'].ranks
      BY <2>1, <3>1, <3>2 DEF Go, HallTypeOK
    <3> QED BY <2>1, <2>2, <3>1, <3>3, <3>4 DEF HallTypeOK, pollVars
  <2> QED BY <2>3, <2>4
<1>10. ASSUME NEW w \in Servers, Fault(w) PROVE HallTypeOK'
  BY <1>10, EndType DEF Fault, HallTypeOK, pollVars
<1>11. CASE UNCHANGED hallVars
  BY <1>11 DEF hallVars, HallTypeOK
<1> QED BY <1>1, <1>2, <1>3, <1>4, <1>5, <1>6, <1>7, <1>8, <1>9, <1>10, <1>11
        DEF HallNext, RebuildSteps

-----------------------------------------------------------------------------
(* The rankings.                                                           *)

\* No ranking of any board can be replaced.
LEMMA NothingReplaceable ==
  ASSUME NEW b \in HallBoards, NEW r \in Ranked(b)
  PROVE  ~Replaceable(b, r)
<1>1. CASE b = "trial"
  <2>1. r \in {"votes", "likes", "views"}
    BY <1>1 DEF Ranked, Range, Rebuild, TrialRebuild
  <2>2. Aggregates[b][r].unknown # {}
    BY <1>1, <2>1 DEF Aggregates, TrialAggregates
  <2> QED BY <2>2 DEF Replaceable, Answered
<1>2. CASE b # "trial"
  <2>1. ~Rebuild[b].awaits
    BY <1>2 DEF HallBoards, Rebuild, HumorRebuild, PoliticalRebuild,
                OnlineRebuild
  <2> QED BY <2>1 DEF Replaceable
<1> QED BY <1>1, <1>2

LEMMA HallStays == HallTypeOK /\ [HallNext]_hallVars => hall' = hall
<1> SUFFICES ASSUME HallTypeOK, [HallNext]_hallVars PROVE hall' = hall
  OBVIOUS
<1>1. ASSUME NEW w \in Servers, EndReplace(w) PROVE hall' = hall
  <2>1. board \in HallBoards /\ rank[w] \in DOMAIN Rebuild[board].ranks
    BY <1>1 DEF EndReplace, HallTypeOK
  <2>2. Ranking(w) \in Ranked(board)
    BY <2>1 DEF Ranking, Ranked, Range
  <2> QED BY <1>1, <2>1, <2>2, NothingReplaceable DEF EndReplace
<1>2. ASSUME NEW w \in Servers, RebuildSteps(w), ~EndReplace(w)
      PROVE  hall' = hall
  BY <1>2 DEF RebuildSteps, Cron, ByHand, StartRebuild, SumBallots, WriteTotal,
              AllCounted, AskLeaders, DeleteAll, Fault
<1>3. CASE NextDay \/ UNCHANGED hallVars
  BY <1>3 DEF NextDay, hallVars
<1>4. ASSUME NEW p \in Polls, MakePoll(p) PROVE hall' = hall
  BY <1>4 DEF MakePoll
<1>5. ASSUME NEW p \in Polls, CastBallot(p) \/ CancelBallot(p)
      PROVE  hall' = hall
  BY <1>5 DEF CastBallot, CancelBallot
<1> QED BY <1>1, <1>2, <1>3, <1>4, <1>5 DEF HallNext

-----------------------------------------------------------------------------
(* The recounts.                                                           *)

LEMMA LastWeekIsPast ==
  ASSUME NEW day \in Nat, NEW d \in LastWeek(day)
  PROVE  d \in Nat /\ d < day /\ d \div 7 + 1 = day \div 7
<1>1. d \in Nat /\ day - (day % 7) - 7 <= d /\ d <= day - (day % 7) - 1
  BY DEF LastWeek, LastSunday, HallAssumption
<1>2. PICK q \in Nat, m \in 0..6 : day = 7 * q + m
  <2>1. day \div 7 \in Nat
    OBVIOUS
  <2>2. day % 7 \in 0..6
    OBVIOUS
  <2>3. day = 7 * (day \div 7) + (day % 7)
    OBVIOUS
  <2> QED BY <2>1, <2>2, <2>3
<1>3. day % 7 = m /\ day \div 7 = q
  BY <1>2
<1>4. 7 * (q - 1) <= d /\ d <= 7 * (q - 1) + 6
  BY <1>1, <1>2, <1>3
<1>5. d \div 7 = q - 1
  BY <1>1, <1>2, <1>4
<1> QED BY <1>1, <1>2, <1>3, <1>5

LEMMA TodayIsNat == HallTypeOK => today \in Nat /\ Never \notin Days
BY DEF HallTypeOK, HallAssumption, Never

LEMMA SumsTakeIn ==
  ASSUME HallTypeOK, EarlierAmongThem, NEW p \in Polls, Countable(ballots[p]) # 0
  PROVE  Countable(ballots[p]) >= earlier[p]
<1>1. ballots[p] \in Nat /\ earlier[p] \in Nat /\ ballots[p] >= earlier[p]
  BY DEF HallTypeOK, EarlierAmongThem
<1>2. Countable(ballots[p]) = ballots[p]
  BY <1>1, CountableType
<1> QED BY <1>1, <1>2

LEMMA HallInitInv == HallInit => HallInv
<1> SUFFICES ASSUME HallInit PROVE HallInv
  OBVIOUS
<1>1. HallTypeOK
  BY HallInitType
<1>2. LeftIsLastWeek /\ SumsCurrent /\ TotalsCurrent /\ WeekAfterMade
  BY DEF HallInit, LeftIsLastWeek, SumsCurrent, TotalsCurrent, WeekAfterMade
<1>3. EarlierAmongThem
  BY <1>1 DEF HallInit, EarlierAmongThem, HallTypeOK
<1> QED BY <1>1, <1>2, <1>3 DEF HallInv

\* What a step of a rebuild finds unchanged.
LEMMA DuringRebuild ==
  ASSUME HallInv, NEW w \in Servers, RebuildSteps(w)
  PROVE  /\ UNCHANGED <<board, today, made, ballots, earlier>>
         /\ FoundPolls' = FoundPolls /\ EarlierAmongThem'
<1>1. UNCHANGED <<board, today, made, ballots, earlier>>
  BY DEF RebuildSteps, Cron, ByHand, StartRebuild, SumBallots, WriteTotal,
         AllCounted, AskLeaders, DeleteAll, EndReplace, Fault, pollVars
<1>2. FoundPolls' = FoundPolls
  BY <1>1 DEF FoundPolls
<1>3. EarlierAmongThem'
  BY <1>1 DEF HallInv, EarlierAmongThem
<1> QED BY <1>1, <1>2, <1>3

\* A rebuild that ends, or starts, or goes on without counting.
LEMMA EndKeepsRest ==
  ASSUME HallInv, NEW w \in Servers, RebuildSteps(w), EndRebuild(w),
         total' = total
  PROVE  LeftIsLastWeek' /\ SumsCurrent' /\ TotalsCurrent'
<1>1. /\ phase \in [Servers -> Phases] /\ left \in [Servers -> SUBSET Polls]
      /\ phase' = [phase EXCEPT ![w] = "idle"]
      /\ left' = [left EXCEPT ![w] = {}]
      /\ counting' = [counting EXCEPT ![w] = Nothing]
      /\ counting \in [Servers -> {Nothing} \cup (Polls \X (Nat \cup {NaN}))]
  BY DEF HallInv, HallTypeOK, EndRebuild, Go
<1>2. FoundPolls' = FoundPolls
      /\ earlier' = earlier
  BY DuringRebuild
<1>3. LeftIsLastWeek'
  BY <1>1, <1>2 DEF HallInv, LeftIsLastWeek
<1>4. ASSUME NEW v \in Servers, NEW p \in Polls, phase'[v] = "write",
             counting'[v][1] = p, counting'[v][2] # NaN
      PROVE  counting'[v][2] >= earlier'[p]
  <2>1. v # w /\ phase[v] = "write" /\ counting'[v] = counting[v]
    BY <1>1, <1>4
  <2> QED BY <1>2, <1>4, <2>1 DEF HallInv, SumsCurrent
<1>5. SumsCurrent'
  BY <1>4 DEF SumsCurrent
<1>6. ASSUME NEW v \in Servers, phase'[v] # "idle",
             NEW p \in FoundPolls \ left'[v]
      PROVE  total'[p] >= earlier'[p]
  <2>1. v # w /\ phase[v] # "idle" /\ left'[v] = left[v] /\ p \in Polls
    BY <1>1, <1>6 DEF FoundPolls
  <2> QED BY <1>2, <1>6, <2>1 DEF HallInv, TotalsCurrent
<1>7. TotalsCurrent'
  BY <1>2, <1>6 DEF TotalsCurrent
<1> QED BY <1>3, <1>5, <1>7

\* A step that leaves a rebuild with what it had still to count, and counts
\* nothing.
LEMMA MoveKeepsRest ==
  ASSUME HallInv, NEW w \in Servers, RebuildSteps(w), NEW next \in Phases,
         Go(w, next), next # "write", UNCHANGED <<total, left, counting>>,
         phase[w] # "idle", next \in {"idle", "ask", "replace", "delete"} => left[w] = {}
  PROVE  LeftIsLastWeek' /\ SumsCurrent' /\ TotalsCurrent'
<1>1. /\ phase \in [Servers -> Phases]
      /\ phase' = [phase EXCEPT ![w] = next]
      /\ total' = total /\ left' = left /\ counting' = counting
  BY DEF HallInv, HallTypeOK, Go
<1>2. FoundPolls' = FoundPolls
      /\ earlier' = earlier
  BY DuringRebuild
<1>3. LeftIsLastWeek'
  BY <1>1, <1>2 DEF HallInv, LeftIsLastWeek
<1>4. SumsCurrent'
  <2>1. ASSUME NEW v \in Servers, NEW p \in Polls, phase'[v] = "write",
               counting'[v][1] = p, counting'[v][2] # NaN
        PROVE  counting'[v][2] >= earlier'[p]
    <3>1. phase[v] = "write"
      BY <1>1, <2>1
    <3> QED BY <1>1, <1>2, <2>1, <3>1 DEF HallInv, SumsCurrent
  <2> QED BY <2>1 DEF SumsCurrent
<1>5. TotalsCurrent'
  <2>1. ASSUME NEW v \in Servers, phase'[v] # "idle",
               NEW p \in FoundPolls \ left'[v]
        PROVE  total'[p] >= earlier'[p]
    <3>1. phase[v] # "idle" /\ p \in Polls
      BY <1>1, <2>1 DEF FoundPolls
    <3> QED BY <1>1, <1>2, <2>1, <3>1 DEF HallInv, TotalsCurrent
  <2> QED BY <1>2, <2>1 DEF TotalsCurrent
<1> QED BY <1>3, <1>4, <1>5

LEMMA StartKeepsRest ==
  ASSUME HallInv, NEW w \in Servers, RebuildSteps(w), StartRebuild(w)
  PROVE  LeftIsLastWeek' /\ SumsCurrent' /\ TotalsCurrent'
<1>1. /\ phase \in [Servers -> Phases] /\ left \in [Servers -> SUBSET Polls]
      /\ phase' = [phase EXCEPT ![w] = "count"]
      /\ left' = [left EXCEPT ![w] = FoundPolls]
      /\ total' = total /\ counting' = counting
  BY DEF HallInv, HallTypeOK, StartRebuild, Go
<1>2. FoundPolls' = FoundPolls
      /\ earlier' = earlier
  BY DuringRebuild
<1>3. LeftIsLastWeek'
  BY <1>1, <1>2 DEF HallInv, LeftIsLastWeek
<1>4. SumsCurrent'
  <2>1. ASSUME NEW v \in Servers, NEW p \in Polls, phase'[v] = "write",
               counting'[v][1] = p, counting'[v][2] # NaN
        PROVE  counting'[v][2] >= earlier'[p]
    <3>1. phase[v] = "write"
      BY <1>1, <2>1
    <3> QED BY <1>1, <1>2, <2>1, <3>1 DEF HallInv, SumsCurrent
  <2> QED BY <2>1 DEF SumsCurrent
<1>5. TotalsCurrent'
  <2>1. ASSUME NEW v \in Servers, phase'[v] # "idle",
               NEW p \in FoundPolls \ left'[v]
        PROVE  total'[p] >= earlier'[p]
    <3>1. v # w
      BY <1>1, <2>1
    <3>2. phase[v] # "idle" /\ left'[v] = left[v] /\ p \in Polls
      BY <1>1, <2>1, <3>1 DEF FoundPolls
    <3> QED BY <1>1, <1>2, <2>1, <3>2 DEF HallInv, TotalsCurrent
  <2> QED BY <1>2, <2>1 DEF TotalsCurrent
<1> QED BY <1>3, <1>4, <1>5

\* The sum that is read takes in the ballots of the days before.
LEMMA SumKeepsRest ==
  ASSUME HallInv, NEW w \in Servers, NEW p \in Polls, SumBallots(w, p)
  PROVE  LeftIsLastWeek' /\ SumsCurrent' /\ TotalsCurrent'
<1>0. RebuildSteps(w)
  BY DEF RebuildSteps
<1>1. CASE EndRebuild(w)
  BY <1>0, <1>1, EndKeepsRest DEF SumBallots
<1>2. CASE ~EndRebuild(w)
  <2> DEFINE sum == IF Countable(ballots[p]) = 0 THEN NaN
                    ELSE Countable(ballots[p])
  <2>1. /\ counting' = [counting EXCEPT ![w] = <<p, sum>>]
        /\ phase' = [phase EXCEPT ![w] = "write"] /\ phase[w] = "count"
        /\ left' = left /\ total' = total
        /\ phase \in [Servers -> Phases]
        /\ counting \in [Servers -> {Nothing} \cup (Polls \X (Nat \cup {NaN}))]
    BY <1>2 DEF SumBallots, Go, HallInv, HallTypeOK
  <2>2. sum # NaN => sum >= earlier[p]
    BY SumsTakeIn DEF HallInv
  <2> HIDE DEF sum
  <2>3. FoundPolls' = FoundPolls
        /\ earlier' = earlier
    BY <1>0, DuringRebuild
  <2>4. LeftIsLastWeek'
    BY <2>1, <2>3 DEF HallInv, LeftIsLastWeek
  <2>5. ASSUME NEW v \in Servers, NEW q \in Polls, phase'[v] = "write",
               counting'[v][1] = q, counting'[v][2] # NaN
        PROVE  counting'[v][2] >= earlier'[q]
    <3>1. CASE v = w
      <4>1. counting'[v] = <<p, sum>>
        BY <2>1, <3>1
      <4>2. q = p /\ counting'[v][2] = sum
        BY <2>5, <4>1
      <4> QED BY <2>2, <2>3, <2>5, <4>2
    <3>2. CASE v # w
      <4>1. counting'[v] = counting[v] /\ phase[v] = "write"
        BY <2>1, <2>5, <3>2
      <4> QED BY <2>3, <2>5, <4>1 DEF HallInv, SumsCurrent
    <3> QED BY <3>1, <3>2
  <2>6. ASSUME NEW v \in Servers, phase'[v] # "idle",
               NEW q \in FoundPolls \ left'[v]
        PROVE  total'[q] >= earlier'[q]
    <3>1. phase[v] # "idle" /\ q \in Polls
      BY <2>1, <2>6 DEF FoundPolls
    <3> QED BY <2>1, <2>3, <2>6, <3>1 DEF HallInv, TotalsCurrent
  <2> QED BY <2>3, <2>4, <2>5, <2>6 DEF SumsCurrent, TotalsCurrent
<1> QED BY <1>1, <1>2

\* What is stored takes them in too, for this server and for the others.
LEMMA WriteKeepsRest ==
  ASSUME HallInv, NEW w \in Servers, WriteTotal(w)
  PROVE  LeftIsLastWeek' /\ SumsCurrent' /\ TotalsCurrent'
<1>0. RebuildSteps(w) /\ phase[w] = "write"
  BY DEF RebuildSteps, WriteTotal
<1>1. CASE counting[w][2] = NaN
  BY <1>0, <1>1, EndKeepsRest DEF WriteTotal
<1>2. CASE counting[w][2] # NaN
  <2> DEFINE p == counting[w][1]
             sum == counting[w][2]
  <2>1. counting[w] \in Polls \X (Nat \cup {NaN})
    BY <1>0 DEF HallInv, HallTypeOK
  <2>2. p \in Polls /\ sum \in Nat /\ sum >= earlier[p]
    BY <1>0, <1>2, <2>1 DEF HallInv, SumsCurrent
  <2>3. /\ total' = [total EXCEPT ![p] = sum]
        /\ left' = [left EXCEPT ![w] = left[w] \ {p}]
        /\ counting' = [counting EXCEPT ![w] = Nothing]
        /\ phase' = [phase EXCEPT ![w] = "count"]
        /\ phase \in [Servers -> Phases] /\ left \in [Servers -> SUBSET Polls]
        /\ total \in [Polls -> Nat]
        /\ counting \in [Servers -> {Nothing} \cup (Polls \X (Nat \cup {NaN}))]
    BY <1>2 DEF WriteTotal, Go, HallInv, HallTypeOK
  <2> HIDE DEF p, sum
  <2>4. FoundPolls' = FoundPolls
        /\ earlier' = earlier
    BY <1>0, DuringRebuild
  <2>5. LeftIsLastWeek'
    BY <2>3, <2>4 DEF HallInv, LeftIsLastWeek
  <2>6. ASSUME NEW v \in Servers, NEW q \in Polls, phase'[v] = "write",
               counting'[v][1] = q, counting'[v][2] # NaN
        PROVE  counting'[v][2] >= earlier'[q]
    <3>1. v # w /\ counting'[v] = counting[v] /\ phase[v] = "write"
      BY <2>3, <2>6
    <3> QED BY <2>4, <2>6, <3>1 DEF HallInv, SumsCurrent
  <2>7. ASSUME NEW v \in Servers, phase'[v] # "idle",
               NEW q \in FoundPolls \ left'[v]
        PROVE  total'[q] >= earlier'[q]
    <3>1. q \in Polls /\ phase[v] # "idle"
      BY <1>0, <2>3, <2>7 DEF FoundPolls
    <3>2. CASE q = p
      BY <2>2, <2>3, <2>4, <3>1, <3>2
    <3>3. CASE q # p
      <4>1. total'[q] = total[q] /\ q \notin left[v]
        BY <2>3, <2>7, <3>1, <3>3
      <4> QED BY <2>4, <2>7, <3>1, <4>1 DEF HallInv, TotalsCurrent
    <3> QED BY <3>2, <3>3
  <2> QED BY <2>4, <2>5, <2>6, <2>7 DEF SumsCurrent, TotalsCurrent
<1> QED BY <1>1, <1>2

LEMMA RebuildKeepsRest ==
  ASSUME HallInv, NEW w \in Servers, RebuildSteps(w)
  PROVE  LeftIsLastWeek' /\ SumsCurrent' /\ TotalsCurrent'
<1>1. CASE Cron(w) \/ ByHand(w)
  BY <1>1, StartKeepsRest DEF Cron, ByHand
<1>2. CASE \E p \in Polls : SumBallots(w, p)
  BY <1>2, SumKeepsRest
<1>3. CASE WriteTotal(w)
  BY <1>3, WriteKeepsRest
<1>4. CASE AllCounted(w)
  BY <1>4, MoveKeepsRest DEF AllCounted, Phases
<1>5. CASE AskLeaders(w)
  <2>1. total' = total /\ phase[w] = "ask" /\ left[w] = {}
    BY <1>5 DEF AskLeaders, HallInv, LeftIsLastWeek
  <2>2. CASE EndRebuild(w)
    BY <2>1, <2>2, EndKeepsRest
  <2>3. CASE ~EndRebuild(w)
    <3>1. Go(w, "replace") /\ UNCHANGED <<left, counting>>
      BY <1>5, <2>3 DEF AskLeaders
    <3> QED BY <2>1, <3>1, MoveKeepsRest DEF Phases
  <2> QED BY <2>2, <2>3
<1>6. CASE DeleteAll(w)
  <2>1. /\ phase[w] = "replace" /\ left[w] = {} /\ Go(w, "delete")
        /\ UNCHANGED <<total, left, counting>>
    BY <1>6 DEF DeleteAll, HallInv, LeftIsLastWeek
  <2> QED BY <2>1, MoveKeepsRest DEF Phases
<1>7. CASE EndReplace(w)
  <2>1. total' = total /\ phase[w] = "delete" /\ left[w] = {}
    BY <1>7 DEF EndReplace, HallInv, LeftIsLastWeek
  <2>2. CASE EndRebuild(w)
    BY <2>1, <2>2, EndKeepsRest
  <2>3. CASE ~EndRebuild(w)
    <3>1. Go(w, "replace") /\ UNCHANGED <<left, counting>>
      BY <1>7, <2>3 DEF EndReplace
    <3> QED BY <2>1, <3>1, MoveKeepsRest DEF Phases
  <2> QED BY <2>2, <2>3
<1>8. CASE Fault(w)
  BY <1>8, EndKeepsRest DEF Fault
<1> QED BY <1>1, <1>2, <1>3, <1>4, <1>5, <1>6, <1>7, <1>8 DEF RebuildSteps

\* A poll is counted in the week after the one it was made in.
LEMMA RebuildKeepsWeeks ==
  ASSUME HallInv, NEW w \in Servers, RebuildSteps(w)
  PROVE  WeekAfterMade'
<1>1. made' = made
  BY DuringRebuild
<1>2. CASE weeks' = weeks
  BY <1>1, <1>2 DEF HallInv, WeekAfterMade
<1>3. ASSUME NEW p \in Polls, SumBallots(w, p), weeks' # weeks
      PROVE  WeekAfterMade'
  <2>1. /\ weeks' = [weeks EXCEPT ![p] = @ \cup {today \div 7}]
        /\ p \in left[w] /\ weeks \in [Polls -> SUBSET Nat]
    BY <1>3 DEF SumBallots, HallInv, HallTypeOK
  <2>2. made[p] \in LastWeek(today)
    BY <2>1 DEF HallInv, LeftIsLastWeek, FoundPolls
  <2>3. made[p] # Never /\ made[p] \div 7 + 1 = today \div 7
    <3>1. today \in Nat
      BY TodayIsNat DEF HallInv
    <3> QED BY <2>2, <3>1, LastWeekIsPast DEF Never
  <2>4. ASSUME NEW q \in Polls
        PROVE  weeks'[q] \subseteq
                 (IF made[q] = Never THEN {} ELSE {made[q] \div 7 + 1})
    BY <2>1, <2>3 DEF HallInv, WeekAfterMade
  <2> QED BY <1>1, <2>4 DEF WeekAfterMade
<1>4. (\E p \in Polls : SumBallots(w, p)) \/ weeks' = weeks
  BY DEF RebuildSteps, Cron, ByHand, StartRebuild, WriteTotal, AllCounted,
         AskLeaders, DeleteAll, EndReplace, Fault
<1> QED BY <1>2, <1>3, <1>4

\* The week turns over only while no rebuild runs.
LEMMA NextDayKeepsInv ==
  ASSUME HallInv, NextDay, HallTypeOK' PROVE HallInv'
<1>1. /\ \A w \in Servers : phase[w] = "idle"
      /\ phase' = phase /\ left' = left /\ weeks' = weeks /\ made' = made
      /\ earlier' = ballots /\ ballots' = ballots
  BY DEF NextDay
<1>2. LeftIsLastWeek' /\ SumsCurrent' /\ TotalsCurrent'
  BY <1>1 DEF HallInv, LeftIsLastWeek, SumsCurrent, TotalsCurrent
<1>3. EarlierAmongThem'
  <2>1. ASSUME NEW p \in Polls PROVE ballots[p] \in Nat
    BY DEF HallInv, HallTypeOK
  <2> QED BY <1>1, <2>1 DEF EarlierAmongThem
<1>4. WeekAfterMade'
  BY <1>1 DEF HallInv, WeekAfterMade
<1> QED BY <1>2, <1>3, <1>4 DEF HallInv

\* A poll that is made today is no poll of last week.
LEMMA MakePollKeepsInv ==
  ASSUME HallInv, NEW p \in Polls, MakePoll(p), HallTypeOK' PROVE HallInv'
<1>1. /\ made' = [made EXCEPT ![p] = today] /\ made[p] = Never
      /\ made \in [Polls -> Days \cup {Never}]
      /\ UNCHANGED <<board, today, ballots, earlier, total, phase, left,
                     counting, weeks>>
  BY DEF MakePoll, HallInv, HallTypeOK
<1>2. FoundPolls' = FoundPolls
  <2>1. today \in Nat /\ Never \notin Days
    BY TodayIsNat DEF HallInv
  <2>2. today \notin LastWeek(today)
    BY <2>1, LastWeekIsPast
  <2>3. Never \notin LastWeek(today)
    BY <2>1 DEF LastWeek
  <2> QED BY <1>1, <2>2, <2>3 DEF FoundPolls
<1>3. earlier' = earlier
  BY <1>1
<1>4. LeftIsLastWeek' /\ EarlierAmongThem'
  BY <1>1, <1>2 DEF HallInv, LeftIsLastWeek, EarlierAmongThem
<1>5. SumsCurrent'
  BY <1>1, <1>3 DEF HallInv, SumsCurrent
<1>6. TotalsCurrent'
  <2>1. ASSUME NEW v \in Servers, phase[v] # "idle",
               NEW q \in FoundPolls \ left[v]
        PROVE  total[q] >= earlier'[q]
    <3>1. q \in Polls
      BY <2>1 DEF FoundPolls
    <3> QED BY <1>3, <2>1, <3>1 DEF HallInv, TotalsCurrent
  <2> QED BY <1>1, <1>2, <2>1 DEF TotalsCurrent
<1>7. WeekAfterMade'
  <2>1. weeks[p] = {}
    BY <1>1 DEF HallInv, WeekAfterMade
  <2>2. ASSUME NEW q \in Polls
        PROVE  weeks[q] \subseteq
                 (IF made'[q] = Never THEN {} ELSE {made'[q] \div 7 + 1})
    BY <1>1, <2>1 DEF HallInv, WeekAfterMade
  <2> QED BY <1>1, <2>2 DEF WeekAfterMade
<1> QED BY <1>4, <1>5, <1>6, <1>7 DEF HallInv

LEMMA BallotKeepsInv ==
  ASSUME HallInv, NEW p \in Polls, CastBallot(p) \/ CancelBallot(p), HallTypeOK'
  PROVE  HallInv'
<1>1. UNCHANGED <<board, today, made, total, phase, left, counting, weeks>>
  BY DEF CastBallot, CancelBallot
<1>2. FoundPolls' = FoundPolls
  BY <1>1 DEF FoundPolls
<1>3. \A q \in Polls : /\ earlier'[q] <= earlier[q]
                       /\ ballots[q] >= earlier[q] => ballots'[q] >= earlier'[q]
  BY BallotMoves DEF HallInv
<1>4. EarlierAmongThem'
  BY <1>3 DEF HallInv, EarlierAmongThem
<1>5. LeftIsLastWeek' /\ WeekAfterMade'
  BY <1>1, <1>2 DEF HallInv, LeftIsLastWeek, WeekAfterMade
<1>6. \A q \in Polls : earlier[q] \in Nat /\ earlier'[q] \in Nat /\ total[q] \in Nat
  BY DEF HallInv, HallTypeOK
<1>7. SumsCurrent'
  <2>1. ASSUME NEW v \in Servers, NEW q \in Polls, phase[v] = "write",
               counting[v][1] = q, counting[v][2] # NaN
        PROVE  counting[v][2] >= earlier'[q]
    <3>1. counting[v][2] >= earlier[q] /\ counting[v] # Nothing
      BY <2>1 DEF HallInv, SumsCurrent, HallTypeOK
    <3>2. counting[v][2] \in Nat
      BY <2>1, <3>1 DEF HallInv, HallTypeOK
    <3> QED BY <1>3, <1>6, <3>1, <3>2
  <2> QED BY <1>1, <2>1 DEF SumsCurrent
<1>8. TotalsCurrent'
  <2>1. ASSUME NEW v \in Servers, phase[v] # "idle",
               NEW q \in FoundPolls \ left[v]
        PROVE  total[q] >= earlier'[q]
    <3>1. q \in Polls
      BY <2>1 DEF FoundPolls
    <3>2. total[q] >= earlier[q]
      BY <2>1, <3>1 DEF HallInv, TotalsCurrent
    <3> QED BY <1>3, <1>6, <3>1, <3>2
  <2> QED BY <1>1, <1>2, <2>1 DEF TotalsCurrent
<1> QED BY <1>4, <1>5, <1>7, <1>8 DEF HallInv

LEMMA HallStep == HallInv /\ [HallNext]_hallVars => HallInv'
<1> SUFFICES ASSUME HallInv, [HallNext]_hallVars PROVE HallInv'
  OBVIOUS
<1>1. HallTypeOK'
  BY HallTypeStep DEF HallInv
<1>2. ASSUME NEW w \in Servers, RebuildSteps(w) PROVE HallInv'
  BY <1>1, <1>2, DuringRebuild, RebuildKeepsRest, RebuildKeepsWeeks DEF HallInv
<1>3. CASE UNCHANGED hallVars
  BY <1>1, <1>3 DEF hallVars, HallInv, LeftIsLastWeek, EarlierAmongThem, SumsCurrent,
                    TotalsCurrent, WeekAfterMade, FoundPolls
<1> QED BY <1>1, <1>2, <1>3, NextDayKeepsInv, MakePollKeepsInv,
           BallotKeepsInv DEF HallNext

LEMMA HallInvariant == HallSpec => []HallInv
<1> QED BY HallInitInv, HallStep, PTL DEF HallSpec

-----------------------------------------------------------------------------
\* The variables of the rebuilds keep their types: a rebuild that replaces a
\* ranking stands on one its board has.
THEOREM HallTypeCorrect == HallSpec => []HallTypeOK
<1> QED BY HallInitType, HallTypeStep, PTL DEF HallSpec

\* For every board and any number of servers, however their rebuilds overlap,
\* fail or are started by hand, the rankings stay what they were.
THEOREM HallsStay == HallSpec => HallsUntouched
<1>1. HallTypeOK /\ [HallNext]_hallVars => [hall' = hall]_hallVars
  BY HallStays
<1> QED BY <1>1, HallTypeCorrect, PTL DEF HallSpec, HallsUntouched

\* Nobody asks for leaders before the totals of last week's polls take in every
\* ballot of the days before that stands, on any board, with any number of
\* servers recounting at once.
THEOREM RankedWhenCounted == HallSpec => []RankedOnlyWhenCounted
<1>1. HallInv => RankedOnlyWhenCounted
  BY DEF HallInv, LeftIsLastWeek, TotalsCurrent, RankedOnlyWhenCounted
<1> QED BY <1>1, HallInvariant, PTL

\* Whatever days the rebuilds run on, a poll is recounted in the week after the
\* one it was made in and in no other.
THEOREM OneWeek == HallSpec => []CountedInOneWeek
<1>1. HallInv => CountedInOneWeek
  BY DEF HallInv, WeekAfterMade, CountedInOneWeek
<1> QED BY <1>1, HallInvariant, PTL

HIDE HallAssumption

-----------------------------------------------------------------------------
(***************************************************************************)
(* Site: a step of one part leaves the variables of the others alone.      *)
(***************************************************************************)

\* Whatever part a behaviour of the site is of, it is a behaviour of each: the
\* boards, the accounts and the halls share no state.
THEOREM SiteIsItsParts == SiteSpec => BoardsSpec /\ AccountsSpec /\ HallSpec
<1>1. SiteInit => BoardsInit /\ AccountsInit /\ HallInit
  BY DEF SiteInit
<1>2. [SiteNext]_siteVars =>
        [BoardsNext]_boardsVars /\ [AccountsNext]_accountsVars /\ [HallNext]_hallVars
  BY DEF SiteNext, BoardsPart, AccountsPart, HallsPart, siteVars
<1> QED BY <1>1, <1>2, PTL DEF SiteSpec, BoardsSpec, AccountsSpec, HallSpec

\* The types of the whole site.
THEOREM SiteTypeCorrect == SiteSpec => []SiteTypeOK
<1>1. BoardsTypeOK /\ AccountsTypeOK /\ HallTypeOK => SiteTypeOK
  BY DEF SiteTypeOK
<1> QED BY <1>1, SiteIsItsParts, BoardsTypeCorrect, AccountsTypeCorrect, HallTypeCorrect, PTL

\* What the parts promise, the site promises: no visit is lost, a post has its
\* poll, who is locked out has been replaced, leaders are asked for only when
\* last week is counted, no poll is counted twice; a like is undone only by an
\* edit of a stale row, and no rebuild changes a hall.
THEOREM SiteKeepsPromises ==
  SiteSpec =>
    /\ [](ViewsKept /\ PostHasPoll /\ LockedOutOnlyIfReplaced)
    /\ [](RankedOnlyWhenCounted /\ CountedInOneWeek)
    /\ UndoneOnlyByStaleEdit /\ HallsUntouched
BY SiteIsItsParts, NoVisitLost, PostsHavePolls, UndoneByStaleEdit, NobodyLockedOut,
   HallsStay, RankedWhenCounted, OneWeek, PTL

-----------------------------------------------------------------------------
(***************************************************************************)
(* Pages: the arithmetic of page numbers, for lists of every length.       *)
(***************************************************************************)

LEMMA Quotient ==
  ASSUME NEW a \in Nat, NEW b \in Nat \ {0}
  PROVE  /\ a \div b \in Nat /\ (a \div b) * b \in Nat
         /\ (a \div b) * b <= a /\ a < (a \div b) * b + b
OBVIOUS

\* The bar of a board shows the current page, with at most ten numbers.
THEOREM BoardBarShowsPage ==
  \A pages \in Nat : \A page \in 1 .. pages :
    page \in BoardBar(page, pages) /\ Cardinality(BoardBar(page, pages)) <= 10
<1> SUFFICES ASSUME NEW pages \in Nat, NEW page \in 1 .. pages
             PROVE  page \in BoardBar(page, pages) /\ Cardinality(BoardBar(page, pages)) <= 10
  OBVIOUS
<1> DEFINE start == ((page - 1) \div 10) * 10 + 1
           last == IF start + 9 > pages THEN pages ELSE start + 9
<1>1. /\ start \in Nat /\ start <= page /\ page <= start + 9
  OBVIOUS
<1>2. last \in Nat /\ page <= last /\ last <= start + 9
  <2> HIDE DEF start
  <2> QED BY <1>1
<1>3. BoardBar(page, pages) = start .. last
  BY DEF BoardBar, Bar
<1> HIDE DEF start, last
<1>4. Cardinality(start .. last) = last - start + 1
  BY <1>1, <1>2, FS_Interval
<1> QED BY <1>1, <1>2, <1>3, <1>4

\* The bar of a hall shows the current page in the first tenth of each block of a
\* hundred pages only.
THEOREM HallBarLosesPages ==
  \A pages \in Nat : \A page \in 1 .. pages :
    page \in HallBar(page, pages) <=> (page - 1) % 100 < 10
<1> SUFFICES ASSUME NEW pages \in Nat, NEW page \in 1 .. pages
             PROVE  page \in HallBar(page, pages) <=> (page - 1) % 100 < 10
  OBVIOUS
<1> DEFINE start == ((page - 1) \div 100) * 100 + 1
<1>1. start \in Nat /\ start + ((page - 1) % 100) = page /\ (page - 1) % 100 \in Nat
  OBVIOUS
<1>2. page \in HallBar(page, pages) <=> page >= start /\ page <= start + 9
  <2>1. HallBar(page, pages) = start .. (IF start + 9 > pages THEN pages ELSE start + 9)
    BY DEF HallBar, Bar
  <2> HIDE DEF start
  <2> QED BY <1>1, <2>1
<1> HIDE DEF start
<1> QED BY <1>1, <1>2

\* The place i of a list is on page (i - 1) div limit + 1 and on no other.
LEMMA PageBounds ==
  ASSUME NEW limit \in Nat \ {0}, NEW i \in Nat \ {0}, NEW page \in Nat \ {0}
  PROVE  i \in Slots(page, limit) <=> page = (i - 1) \div limit + 1
<1> DEFINE q == (i - 1) \div limit
<1>1. q \in Nat /\ q * limit \in Nat /\ q * limit <= i - 1 /\ i - 1 < q * limit + limit
  BY Quotient
<1>2. \A n \in Nat : n * limit \in Nat /\ (n + 1) * limit = n * limit + limit
  OBVIOUS
<1>3. \A m, n \in Nat : m < n => m * limit + limit <= n * limit
  <2> SUFFICES ASSUME NEW m \in Nat, NEW n \in Nat, m < n PROVE m * limit + limit <= n * limit
    OBVIOUS
  <2>1. n - m - 1 \in Nat /\ n = (m + 1) + (n - m - 1)
    OBVIOUS
  <2>2. n * limit = (m + 1) * limit + (n - m - 1) * limit
    BY <2>1
  <2>3. (n - m - 1) * limit \in Nat
    BY <2>1
  <2> QED BY <1>2, <2>2, <2>3
<1>4. page - 1 \in Nat /\ (page - 1) + 1 = page
  OBVIOUS
<1>5. i \in Slots(page, limit) <=> (page - 1) * limit + 1 <= i /\ i <= (page - 1) * limit + limit
  BY <1>2, <1>4 DEF Slots
<1> HIDE DEF q
<1>6. CASE page - 1 = q
  BY <1>1, <1>4, <1>5, <1>6 DEF q
<1>7. CASE page - 1 < q
  BY <1>1, <1>2, <1>3, <1>4, <1>5, <1>7 DEF q
<1>8. CASE q < page - 1
  BY <1>1, <1>2, <1>3, <1>4, <1>5, <1>8 DEF q
<1> QED BY <1>1, <1>4, <1>6, <1>7, <1>8

\* Paging through a list of so many rows up to the last page of its bar shows every
\* row, and shows it once.
THEOREM EveryRowOnOnePage ==
  \A limit \in Nat \ {0} : \A rows \in Nat : \A i \in 1 .. rows :
    \E page \in 1 .. PageCount(rows, limit) :
      /\ i \in Slots(page, limit)
      /\ \A other \in Nat \ {0} : i \in Slots(other, limit) => other = page
<1> SUFFICES ASSUME NEW limit \in Nat \ {0}, NEW rows \in Nat, NEW i \in 1 .. rows
             PROVE  \E page \in 1 .. PageCount(rows, limit) :
                      /\ i \in Slots(page, limit)
                      /\ \A other \in Nat \ {0} : i \in Slots(other, limit) => other = page
  OBVIOUS
<1> DEFINE q == (i - 1) \div limit
           t == rows + limit - 1
<1>1. i \in Nat \ {0} /\ i - 1 \in Nat /\ t \in Nat /\ limit \in Nat /\ i - 1 + limit <= t
  OBVIOUS
<1>2. q \in Nat /\ q * limit \in Nat /\ q * limit <= i - 1
  BY <1>1, Quotient
<1>3. t \div limit \in Nat /\ t < (t \div limit) * limit + limit
  <2> HIDE DEF t
  <2> QED BY <1>1, Quotient
<1>4. q + 1 <= t \div limit
  <2> SUFFICES ASSUME t \div limit <= q PROVE FALSE
    BY <1>2, <1>3
  <2> DEFINE d == t \div limit
  <2>1. d \in Nat /\ d <= q /\ t < d * limit + limit
    BY <1>3
  <2> HIDE DEF d, q, t
  <2>2. d * limit <= q * limit
    BY <1>1, <1>2, <2>1
  <2>3. d * limit \in Nat
    BY <1>1, <2>1
  <2> QED BY <1>1, <1>2, <2>1, <2>2, <2>3
<1>5. q + 1 \in 1 .. PageCount(rows, limit)
  BY <1>2, <1>3, <1>4 DEF PageCount
<1>6. \A page \in Nat \ {0} : i \in Slots(page, limit) <=> page = q + 1
  BY <1>1, PageBounds
<1> HIDE DEF q
<1>7. q + 1 \in Nat \ {0}
  BY <1>2
<1> QED BY <1>5, <1>6, <1>7
=============================================================================
