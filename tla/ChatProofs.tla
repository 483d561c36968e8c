----------------------------- MODULE ChatProofs -----------------------------
(***************************************************************************)
(* Theorems about ChatLog, for any number of authors, sweeps, readers and  *)
(* channels and every size of a list and of a page.                        *)
(*                                                                         *)
(* What is lost (LossInv): a trim drops what its sweep has read and what   *)
(* has come since, so what it drops and nobody has archived has been       *)
(* counted in debt, whoever else sweeps.                                   *)
(*                                                                         *)
(* What is shown (PagesInv): a chat that a reader has not been shown is    *)
(* past the documents its pages have passed, since the archive only grows, *)
(* a document's place in it never moves forward, and the list is a page    *)
(* long at least from the moment it once was.                              *)
(***************************************************************************)
EXTENDS ChatLog, FiniteSetTheorems, SequenceTheorems, WellFoundedInduction, TLAPS

USE ChannelAssumption, SizeAssumption

-----------------------------------------------------------------------------
(* Finite sets that hold at most so many.                                  *)

AtMostOf(A, n) == IsFiniteSet(A) /\ Cardinality(A) <= n

LEMMA Smaller ==
  ASSUME NEW A, NEW B, NEW n \in Nat, A \subseteq B, AtMostOf(B, n)
  PROVE  AtMostOf(A, n)
<1>1. IsFiniteSet(B) /\ Cardinality(B) \in Nat
  BY FS_CardinalityType DEF AtMostOf
<1>2. IsFiniteSet(A) /\ Cardinality(A) <= Cardinality(B)
  BY <1>1, FS_Subset
<1>3. Cardinality(A) \in Nat
  BY <1>2, FS_CardinalityType
<1> QED BY <1>1, <1>2, <1>3 DEF AtMostOf

LEMMA Together ==
  ASSUME NEW A, NEW B, NEW C, NEW n \in Nat, NEW k \in Nat,
         A \subseteq B \cup C, AtMostOf(B, n), AtMostOf(C, k)
  PROVE  AtMostOf(A, n + k)
<1>1. /\ IsFiniteSet(B \cup C)
      /\ Cardinality(B \cup C) = Cardinality(B) + Cardinality(C) - Cardinality(B \cap C)
  BY FS_Union DEF AtMostOf
<1>2. Cardinality(B) \in Nat /\ Cardinality(C) \in Nat
  BY FS_CardinalityType DEF AtMostOf
<1>3. IsFiniteSet(B \cap C)
  BY FS_Subset DEF AtMostOf
<1>4. Cardinality(B \cap C) \in Nat
  BY <1>3, FS_CardinalityType
<1>5. Cardinality(B \cup C) <= n + k
  BY <1>1, <1>2, <1>4 DEF AtMostOf
<1>6. AtMostOf(B \cup C, n + k)
  BY <1>1, <1>5 DEF AtMostOf
<1> QED BY <1>6, Smaller

LEMMA OneMore ==
  ASSUME NEW A, NEW B, NEW x, NEW n \in Nat, A \subseteq B \cup {x}, AtMostOf(B, n)
  PROVE  AtMostOf(A, n + 1)
<1>1. AtMostOf({x}, 1)
  <2>1. IsFiniteSet({x}) /\ Cardinality({x}) = 1
    BY FS_Singleton
  <2> QED BY <2>1 DEF AtMostOf
<1> QED BY <1>1, Together

\* A stretch of a sequence has no more members than places.
LEMMA Stretch ==
  ASSUME NEW q, NEW a \in Nat, NEW b \in Nat, a <= b
  PROVE  AtMostOf({q[i] : i \in a + 1 .. b}, b - a)
<1> DEFINE S == a + 1 .. b
           T == {q[i] : i \in S}
           f == [i \in S |-> q[i]]
<1>1. IsFiniteSet(S) /\ Cardinality(S) = b - a
  <2>1. a + 1 \in Int /\ b \in Int
    OBVIOUS
  <2>2. IsFiniteSet(S) /\ Cardinality(S) = IF a + 1 > b THEN 0 ELSE b - (a + 1) + 1
    BY <2>1, FS_Interval
  <2> HIDE DEF S
  <2> QED BY <2>2
<1>2. f \in Surjection(S, T)
  BY DEF Surjection, Range
<1>3. IsFiniteSet(T) /\ Cardinality(T) <= Cardinality(S)
  <2> HIDE DEF S, T, f
  <2> QED BY <1>1, <1>2, FS_Surjection
<1> QED BY <1>1, <1>3 DEF AtMostOf

LEMMA WholeRange ==
  ASSUME NEW S, NEW q \in Seq(S) PROVE AtMostOf(Range(q), Len(q))
<1>1. Len(q) \in Nat /\ 0 <= Len(q)
  OBVIOUS
<1>2. AtMostOf({q[i] : i \in 0 + 1 .. Len(q)}, Len(q) - 0)
  BY <1>1, Stretch
<1>3. 0 + 1 = 1 /\ Len(q) - 0 = Len(q)
  BY <1>1
<1>4. Range(q) = {q[i] : i \in 1 .. Len(q)}
  BY RangeEquality
<1> QED BY <1>2, <1>3, <1>4

-----------------------------------------------------------------------------
(* Parts of a sequence.                                                    *)

LEMMA PrefixType ==
  ASSUME NEW S, NEW q \in Seq(S), NEW n \in 0 .. Len(q)
  PROVE  /\ Prefix(q, n) \in Seq(S) /\ Len(Prefix(q, n)) = n
         /\ \A i \in 1 .. n : Prefix(q, n)[i] = q[i]
         /\ Range(Prefix(q, n)) = {q[i] : i \in 1 .. n}
<1>1. \A i \in 1 .. n : q[i] \in S
  OBVIOUS
<1>2. /\ SubSeq(q, 1, n) \in Seq(S) /\ Len(SubSeq(q, 1, n)) = IF 1 <= n THEN n - 1 + 1 ELSE 0
      /\ \A i \in 1 .. n - 1 + 1 : SubSeq(q, 1, n)[i] = q[1 + i - 1]
  BY <1>1, SubSeqProperties
<1>3. Len(SubSeq(q, 1, n)) = n /\ \A i \in 1 .. n : SubSeq(q, 1, n)[i] = q[i]
  BY <1>2
<1>4. Range(SubSeq(q, 1, n)) = {SubSeq(q, 1, n)[i] : i \in 1 .. n}
  BY <1>2, <1>3, RangeEquality
<1> QED BY <1>2, <1>3, <1>4 DEF Prefix

LEMMA SuffixType ==
  ASSUME NEW S, NEW q \in Seq(S), NEW n \in 0 .. Len(q)
  PROVE  /\ SubSeq(q, n + 1, Len(q)) \in Seq(S) /\ Len(SubSeq(q, n + 1, Len(q))) = Len(q) - n
         /\ \A i \in 1 .. Len(q) - n : SubSeq(q, n + 1, Len(q))[i] = q[n + i]
         /\ Range(SubSeq(q, n + 1, Len(q))) = {q[i] : i \in n + 1 .. Len(q)}
<1> DEFINE t == SubSeq(q, n + 1, Len(q))
<1>1. /\ t \in Seq(S) /\ Len(t) = IF n + 1 <= Len(q) THEN Len(q) - (n + 1) + 1 ELSE 0
      /\ \A i \in 1 .. Len(q) - (n + 1) + 1 : t[i] = q[n + 1 + i - 1]
  BY SubSeqProperties
<1>2. Len(t) = Len(q) - n /\ \A i \in 1 .. Len(q) - n : t[i] = q[n + i]
  BY <1>1
<1>3. Range(t) = {t[i] : i \in 1 .. Len(q) - n}
  <2>1. t \in Seq(S) /\ Len(t) = Len(q) - n
    BY <1>1, <1>2
  <2> HIDE DEF t
  <2>2. Range(t) = {t[i] : i \in 1 .. Len(t)}
    BY <2>1, RangeEquality
  <2> QED BY <2>1, <2>2
<1>4. {t[i] : i \in 1 .. Len(q) - n} = {q[i] : i \in n + 1 .. Len(q)}
  <2>1. ASSUME NEW i \in 1 .. Len(q) - n
        PROVE  t[i] = q[n + i] /\ n + i \in n + 1 .. Len(q)
    BY <1>2
  <2>2. ASSUME NEW i \in n + 1 .. Len(q)
        PROVE  t[i - n] = q[i] /\ i - n \in 1 .. Len(q) - n
    BY <1>2
  <2> HIDE DEF t
  <2>3. {t[i] : i \in 1 .. Len(q) - n} \subseteq {q[i] : i \in n + 1 .. Len(q)}
    BY <2>1
  <2>4. {q[i] : i \in n + 1 .. Len(q)} \subseteq {t[i] : i \in 1 .. Len(q) - n}
    BY <2>2
  <2> QED BY <2>3, <2>4
<1> QED BY <1>1, <1>2, <1>3, <1>4

LEMMA RangeAppend ==
  ASSUME NEW S, NEW q \in Seq(S), NEW m \in S
  PROVE  Range(Append(q, m)) = Range(q) \cup {m}
<1> DEFINE t == Append(q, m)
<1>1. /\ t \in Seq(S) /\ Len(t) = Len(q) + 1 /\ Len(q) \in Nat
      /\ \A i \in 1 .. Len(q) : t[i] = q[i]
      /\ t[Len(q) + 1] = m
  BY AppendProperties
<1>2. /\ DOMAIN q = 1 .. Len(q) /\ DOMAIN t = 1 .. Len(t)
      /\ 1 .. Len(t) = (1 .. Len(q)) \cup {Len(q) + 1}
  BY <1>1
<1> HIDE DEF t
<1>3. Range(t) \subseteq Range(q) \cup {m}
  BY <1>1, <1>2 DEF Range
<1>4. Range(q) \cup {m} \subseteq Range(t)
  BY <1>1, <1>2 DEF Range
<1>5. Range(t) = Range(q) \cup {m}
  BY <1>3, <1>4
<1> QED BY <1>5 DEF t

-----------------------------------------------------------------------------
(* The stores.                                                             *)

\* What changes a list, the archive or the debt.
LEMMA StoreMoves ==
  ASSUME [Next]_vars
  PROVE  \/ \E a \in Authors : Push(a)
         \/ \E s \in Sweepers : Trim(s) \/ Save(s) \/ SaveFails(s)
         \/ \E c \in Channels : Expire(c)
         \/ UNCHANGED <<store, debt>>
<1>1. ASSUME NEW a \in Authors, (\E c \in Channels : Say(a, c)) \/ Tell(a) \/ SayFails(a)
      PROVE  UNCHANGED <<store, debt>>
  BY <1>1 DEF Say, Tell, SayFails
<1>2. ASSUME NEW s \in Sweepers, Start(s) \/ Read(s) \/ SweepFails(s)
      PROVE  UNCHANGED <<store, debt>>
  BY <1>2 DEF Start, Read, SweepFails
<1>3. ASSUME NEW r \in Readers,
             Join(r) \/ Count(r) \/ Take(r) \/ Query(r) \/ More(r) \/ ReadFails(r)
      PROVE  UNCHANGED <<store, debt>>
  BY <1>3 DEF Join, Count, Take, Query, More, ReadFails
<1>4. Crash \/ UNCHANGED vars => UNCHANGED <<store, debt>>
  BY DEF Crash, vars
<1> QED BY <1>1, <1>2, <1>3, <1>4 DEF Next, SweepStep

\* Chats are only added.
LEMMA ChatsGrow ==
  ASSUME TypeOK, [Next]_vars
  PROVE  /\ chan' \in Seq(Channels) /\ Len(chan) \in Nat /\ Len(chan') \in Nat
         /\ Len(chan) <= Len(chan') /\ Chats \subseteq Chats'
         /\ Seq(Chats) \subseteq Seq(Chats')
<1>1. chan \in Seq(Channels) /\ topic \in [Authors -> Channels]
  BY DEF TypeOK
<1>2. /\ chan' \in Seq(Channels) /\ Len(chan) \in Nat /\ Len(chan') \in Nat
      /\ Len(chan) <= Len(chan')
  <2>1. CASE \E a \in Authors : Push(a)
    <3>1. PICK a \in Authors : chan' = Append(chan, topic[a]) /\ topic[a] \in Channels
      BY <1>1, <2>1 DEF Push
    <3> QED BY <1>1, <3>1
  <2>2. CASE chan' = chan
    BY <1>1, <2>2
  <2> QED BY <2>1, <2>2, StoreMoves DEF Trim, Save, SaveFails, Expire, store
<1>3. Chats \subseteq Chats'
  BY <1>2 DEF Chats
<1>4. Seq(Chats) \subseteq Seq(Chats')
  <2> DEFINE A == Chats
             B == Chats'
  <2>1. A \subseteq B
    BY <1>3
  <2> HIDE DEF A, B
  <2>2. Seq(A) \subseteq Seq(B)
    BY <2>1
  <2> QED BY <2>2 DEF A, B
<1> QED BY <1>2, <1>3, <1>4

Increasing(q) == \A i, j \in DOMAIN q : i < j => q[i] < q[j]

\* What a trim takes off a list, and what it leaves.
TrimmedOff(q) == {q[i] : i \in {j \in DOMAIN q : j + Retain <= Len(q)}}

Kept(q) == IF Len(q) > Retain THEN SubSeq(q, Len(q) - Retain + 1, Len(q)) ELSE q

LEMMA KeptType ==
  ASSUME NEW S \in SUBSET Nat, NEW q \in Seq(S)
  PROVE  /\ Kept(q) \in Seq(S) /\ Len(Kept(q)) <= Retain
         /\ Increasing(q) => Increasing(Kept(q))
         /\ Range(q) = Range(Kept(q)) \cup TrimmedOff(q) /\ TrimmedOff(Kept(q)) = {}
<1> DEFINE n == Len(q) - Retain
<1>0. Len(q) \in Nat /\ DOMAIN q = 1 .. Len(q) /\ Retain \in Nat
  OBVIOUS
<1>1. CASE Len(q) > Retain
  <2>1. n \in 0 .. Len(q) /\ n \in Nat /\ Len(q) - n = Retain
    BY <1>0, <1>1
  <2>2. Kept(q) = SubSeq(q, n + 1, Len(q))
    BY <1>1 DEF Kept
  <2>3. /\ Kept(q) \in Seq(S) /\ Len(Kept(q)) = Retain
        /\ \A i \in 1 .. Retain : Kept(q)[i] = q[n + i]
        /\ Range(Kept(q)) = {q[i] : i \in n + 1 .. Len(q)}
    <3> HIDE DEF n
    <3>1. /\ SubSeq(q, n + 1, Len(q)) \in Seq(S) /\ Len(SubSeq(q, n + 1, Len(q))) = Len(q) - n
          /\ \A i \in 1 .. Len(q) - n : SubSeq(q, n + 1, Len(q))[i] = q[n + i]
          /\ Range(SubSeq(q, n + 1, Len(q))) = {q[i] : i \in n + 1 .. Len(q)}
      BY <2>1, SuffixType
    <3> QED BY <2>1, <2>2, <3>1
  <2>4. ASSUME Increasing(q) PROVE Increasing(Kept(q))
    <3>1. DOMAIN Kept(q) = 1 .. Retain
      BY <2>3
    <3>2. ASSUME NEW i \in 1 .. Retain, NEW j \in 1 .. Retain, i < j
          PROVE  Kept(q)[i] < Kept(q)[j]
      <4>1. n + i \in DOMAIN q /\ n + j \in DOMAIN q /\ n + i < n + j
        BY <1>0, <2>1, <3>2
      <4>2. q[n + i] < q[n + j]
        BY <2>4, <4>1 DEF Increasing
      <4> QED BY <2>3, <4>2
    <3> QED BY <3>1, <3>2 DEF Increasing
  <2>5. Range(q) = {q[i] : i \in 1 .. Len(q)}
    BY RangeEquality
  <2>6. 1 .. Len(q) = (n + 1 .. Len(q)) \cup {j \in DOMAIN q : j + Retain <= Len(q)}
    BY <1>0, <2>1
  <2> HIDE DEF n
  <2>7. Range(q) = Range(Kept(q)) \cup TrimmedOff(q)
    BY <2>3, <2>5, <2>6 DEF TrimmedOff
  <2>8. Len(Kept(q)) <= Retain
    BY <1>0, <2>3
  <2>9. TrimmedOff(Kept(q)) = {}
    <3>1. DOMAIN Kept(q) = 1 .. Retain /\ Len(Kept(q)) = Retain
      BY <1>0, <2>3
    <3>2. {j \in DOMAIN Kept(q) : j + Retain <= Len(Kept(q))} = {}
      BY <1>0, <3>1
    <3> QED BY <3>2 DEF TrimmedOff
  <2> QED BY <2>3, <2>4, <2>7, <2>8, <2>9
<1>2. CASE ~(Len(q) > Retain)
  <2>2. Kept(q) = q /\ Len(q) <= Retain
    BY <1>0, <1>2 DEF Kept
  <2>3. {j \in DOMAIN q : j + Retain <= Len(q)} = {}
    <3>1. Retain # 0
      OBVIOUS
    <3> QED BY <1>0, <2>2, <3>1
  <2>4. TrimmedOff(q) = {}
    BY <2>3 DEF TrimmedOff
  <2> QED BY <2>2, <2>4
<1> QED BY <1>1, <1>2

LEMMA ListTypes ==
  ASSUME TypeOK, [Next]_vars
  PROVE  /\ list' \in [Channels -> Seq(Chats')]
         /\ \A c \in Channels : Increasing(list'[c])
<1> DEFINE S == Chats'
<1>z. list \in [Channels -> Seq(Chats)] /\ \A c \in Channels : Increasing(list[c])
  BY DEF TypeOK, Increasing
<1>y. Seq(Chats) \subseteq Seq(S) /\ S \in SUBSET Nat
  BY ChatsGrow DEF Chats
<1>0. /\ list \in [Channels -> Seq(S)] /\ \A c \in Channels : Increasing(list[c])
      /\ \A c \in Channels : list[c] \in Seq(Chats)
      /\ S \in SUBSET Nat /\ topic \in [Authors -> Channels]
      /\ SweepOrder \in Seq(Channels) /\ spos \in [Sweepers -> 1 .. Len(SweepOrder)]
  <2> HIDE DEF S
  <2>1. /\ topic \in [Authors -> Channels] /\ SweepOrder \in Seq(Channels)
        /\ spos \in [Sweepers -> 1 .. Len(SweepOrder)]
    BY DEF TypeOK
  <2> QED BY <1>z, <1>y, <2>1
<1>a. ASSUME NEW d \in Channels, NEW q \in Seq(S), Increasing(q), list' = [list EXCEPT ![d] = q]
      PROVE  /\ list' \in [Channels -> Seq(S)]
             /\ \A c \in Channels : Increasing(list'[c])
  <2> HIDE DEF S
  <2>1. \A c \in Channels : list'[c] = IF c = d THEN q ELSE list[c]
    BY <1>0, <1>a
  <2> QED BY <1>0, <1>a, <2>1
<1>1. ASSUME NEW a \in Authors, Push(a)
      PROVE  /\ list' \in [Channels -> Seq(S)]
             /\ \A c \in Channels : Increasing(list'[c])
  <2> DEFINE d == topic[a]
             m == Len(chan) + 1
             q == Append(list[d], m)
  <2>1. d \in Channels /\ list' = [list EXCEPT ![d] = q]
    BY <1>0, <1>1 DEF Push
  <2>2. m \in S /\ m \in Nat
    BY <1>1, ChatsGrow DEF Push, TypeOK, Chats
  <2>3. q \in Seq(S)
    <3> HIDE DEF S, m, d
    <3> QED BY <1>0, <2>1, <2>2
  <2>4. Increasing(q)
    <3>1. list[d] \in Seq(Chats) /\ Increasing(list[d])
      BY <1>0, <2>1
    <3>2. \A x \in Chats : x \in Nat /\ x < m
      BY ChatsGrow DEF Chats
    <3>3. \A i \in DOMAIN list[d] : list[d][i] < m
      BY <3>1, <3>2
    <3> HIDE DEF m, d
    <3> QED BY <3>1, <3>3 DEF Increasing
  <2> HIDE DEF S, d, q
  <2> QED BY <1>a, <2>1, <2>3, <2>4
<1>2. ASSUME NEW s \in Sweepers, Trim(s)
      PROVE  /\ list' \in [Channels -> Seq(S)]
             /\ \A c \in Channels : Increasing(list'[c])
  <2> DEFINE d == SweepOrder[spos[s]]
  <2>1. d \in Channels
    BY <1>0
  <2>2. list' = [list EXCEPT ![d] = Kept(list[d])]
    BY <1>0, <1>2, <2>1 DEF Trim, Kept
  <2> HIDE DEF S, d
  <2>3. Kept(list[d]) \in Seq(S) /\ Increasing(Kept(list[d]))
    BY <1>0, <2>1, KeptType
  <2> QED BY <1>a, <2>1, <2>2, <2>3
<1>3. ASSUME NEW d \in Channels, Expire(d)
      PROVE  /\ list' \in [Channels -> Seq(S)]
             /\ \A c \in Channels : Increasing(list'[c])
  <2>1. list' = [list EXCEPT ![d] = <<>>]
    BY <1>3 DEF Expire
  <2> HIDE DEF S
  <2>2. <<>> \in Seq(S) /\ Increasing(<<>>)
    BY DEF Increasing
  <2> QED BY <1>a, <2>1, <2>2
<1>4. ASSUME list' = list
      PROVE  /\ list' \in [Channels -> Seq(S)]
             /\ \A c \in Channels : Increasing(list'[c])
  <2> HIDE DEF S
  <2> QED BY <1>0, <1>4
<1> HIDE DEF S
<1>5. /\ list' \in [Channels -> Seq(S)]
      /\ \A c \in Channels : Increasing(list'[c])
  <2>1. \/ \E a \in Authors : Push(a)
        \/ \E s \in Sweepers : Trim(s)
        \/ \E c \in Channels : Expire(c)
        \/ list' = list
    BY StoreMoves DEF Save, SaveFails, store
  <2> QED BY <1>1, <1>2, <1>3, <1>4, <2>1
<1> QED BY <1>5 DEF S

\* What a sweep inserts is of the archive's type.
LEMMA ArchiveType ==
  ASSUME TypeOK, [Next]_vars PROVE archive' \in Seq(Chats')
<1>1. archive \in Seq(Chats) /\ batch \in [Sweepers -> Seq(Chats)]
  BY DEF TypeOK
<1>2. archive' \in Seq(Chats)
  <2> DEFINE S == Chats
  <2>1. ASSUME NEW s \in Sweepers, Save(s) PROVE archive' \in Seq(S)
    <3>1. archive' = archive \o batch[s] /\ batch[s] \in Seq(S) /\ archive \in Seq(S)
      BY <1>1, <2>1 DEF Save
    <3> HIDE DEF S
    <3> QED BY <3>1
  <2>2. ASSUME NEW s \in Sweepers, SaveFails(s) PROVE archive' \in Seq(S)
    <3>1. PICK n \in 0 .. Len(batch[s]) - 1 : archive' = archive \o Prefix(batch[s], n)
      BY <2>2 DEF SaveFails
    <3>2. batch[s] \in Seq(S) /\ archive \in Seq(S)
      BY <1>1
    <3> HIDE DEF S
    <3>3. n \in 0 .. Len(batch[s])
      BY <3>1, <3>2
    <3>4. Prefix(batch[s], n) \in Seq(S)
      BY <3>2, <3>3, PrefixType
    <3> QED BY <3>1, <3>2, <3>4
  <2>3. archive' = archive \/ \E s \in Sweepers : Save(s) \/ SaveFails(s)
    BY StoreMoves DEF Push, Trim, Expire, store
  <2> QED BY <1>1, <2>1, <2>2, <2>3
<1> QED BY <1>2, ChatsGrow

-----------------------------------------------------------------------------
(* The sweeps.                                                             *)

\* What a step does to the sweeps: nothing, or something to one, or Crash.
LEMMA SweepMoves ==
  ASSUME [Next]_vars
  PROVE  (\E s \in Sweepers : SweepStep(s)) \/ Crash \/ UNCHANGED sweeps
<1>1. ASSUME NEW a \in Authors, (\E c \in Channels : Say(a, c)) \/ Push(a) \/ Tell(a) \/ SayFails(a)
      PROVE  UNCHANGED sweeps
  BY <1>1 DEF Say, Push, Tell, SayFails
<1>2. ASSUME NEW r \in Readers,
             Join(r) \/ Count(r) \/ Take(r) \/ Query(r) \/ More(r) \/ ReadFails(r)
      PROVE  UNCHANGED sweeps
  BY <1>2 DEF Join, Count, Take, Query, More, ReadFails
<1>3. ASSUME NEW c \in Channels, Expire(c) PROVE UNCHANGED sweeps
  BY <1>3 DEF Expire
<1> QED BY <1>1, <1>2, <1>3 DEF Next, vars

LEMMA AdvanceTypes ==
  ASSUME TypeOK, NEW s \in Sweepers, Advance(s)
  PROVE  /\ spc' \in [Sweepers -> {"idle", "read", "save", "trim"}]
         /\ spos' \in [Sweepers -> 1 .. Len(SweepOrder)]
         /\ \A t \in Sweepers \ {s} : spc'[t] = spc[t] /\ spos'[t] = spos[t]
         /\ spc'[s] \in {"idle", "read"}
<1>1. /\ spc \in [Sweepers -> {"idle", "read", "save", "trim"}]
      /\ spos \in [Sweepers -> 1 .. Len(SweepOrder)] /\ Len(SweepOrder) \in Nat
  BY DEF TypeOK
<1>2. CASE spos[s] = Len(SweepOrder)
  BY <1>1, <1>2 DEF Advance
<1>3. CASE spos[s] # Len(SweepOrder)
  <2>1. spos[s] + 1 \in 1 .. Len(SweepOrder)
    BY <1>1, <1>3
  <2> QED BY <1>1, <1>3, <2>1 DEF Advance
<1> QED BY <1>2, <1>3

\* A sweep reads all but the newest Retain chats of the list of its channel.
LEMMA ReadBatch ==
  ASSUME TypeOK, NEW s \in Sweepers, Read(s)
  PROVE  \/ Advance(s) /\ batch' = batch
         \/ LET q == list[SweepOrder[spos[s]]]
            IN  /\ batch' = [batch EXCEPT ![s] = Prefix(q, Len(q) - Retain)]
                /\ spc' = [spc EXCEPT ![s] = "save"] /\ spos' = spos
                /\ Len(q) - Retain \in 1 .. Len(q) /\ q \in Seq(Chats)
<1> DEFINE q == list[SweepOrder[spos[s]]]
<1>1. SweepOrder[spos[s]] \in Channels
  BY DEF TypeOK
<1>2. q \in Seq(Chats)
  BY <1>1 DEF TypeOK
<1>3. Len(q) > Retain => Len(q) - Retain \in 1 .. Len(q)
  <2> HIDE DEF q
  <2> QED BY <1>2
<1> QED BY <1>2, <1>3 DEF Read

LEMMA SweepTypes ==
  ASSUME TypeOK, [Next]_vars
  PROVE  /\ spc' \in [Sweepers -> {"idle", "read", "save", "trim"}]
         /\ spos' \in [Sweepers -> 1 .. Len(SweepOrder)]
         /\ batch' \in [Sweepers -> Seq(Chats')]
<1> DEFINE S == Chats
           Goal == /\ spc' \in [Sweepers -> {"idle", "read", "save", "trim"}]
                   /\ spos' \in [Sweepers -> 1 .. Len(SweepOrder)]
                   /\ batch' \in [Sweepers -> Seq(S)]
<1>0. /\ spc \in [Sweepers -> {"idle", "read", "save", "trim"}]
      /\ spos \in [Sweepers -> 1 .. Len(SweepOrder)]
      /\ batch \in [Sweepers -> Seq(S)]
      /\ <<>> \in Seq(S) /\ 1 \in 1 .. Len(SweepOrder)
  <2>1. Len(SweepOrder) \in Nat /\ Len(SweepOrder) # 0
    OBVIOUS
  <2>2. <<>> \in Seq(S)
    <3> HIDE DEF S
    <3> QED OBVIOUS
  <2> QED BY <2>1, <2>2 DEF TypeOK
<1>1. ASSUME NEW s \in Sweepers, Read(s) PROVE Goal
  <2>1. CASE Advance(s) /\ batch' = batch
    <3> HIDE DEF S
    <3> QED BY <1>0, <2>1, AdvanceTypes
  <2>2. CASE ~(Advance(s) /\ batch' = batch)
    <3> DEFINE q == list[SweepOrder[spos[s]]]
    <3>1. /\ batch' = [batch EXCEPT ![s] = Prefix(q, Len(q) - Retain)]
          /\ spc' = [spc EXCEPT ![s] = "save"] /\ spos' = spos
          /\ Len(q) - Retain \in 0 .. Len(q) /\ q \in Seq(S)
      BY <1>1, <2>2, ReadBatch
    <3> HIDE DEF S, q
    <3>2. Prefix(q, Len(q) - Retain) \in Seq(S)
      BY <3>1, PrefixType
    <3> QED BY <1>0, <3>1, <3>2
  <2> QED BY <2>1, <2>2
<1>2. ASSUME NEW s \in Sweepers, Trim(s) PROVE Goal
  <2>1. Advance(s) /\ batch' = [batch EXCEPT ![s] = <<>>]
    BY <1>2 DEF Trim
  <2> HIDE DEF S
  <2> QED BY <1>0, <2>1, AdvanceTypes
<1>3. ASSUME NEW s \in Sweepers, Start(s) \/ Save(s) \/ SaveFails(s) \/ SweepFails(s) PROVE Goal
  <2> HIDE DEF S
  <2> QED BY <1>0, <1>3 DEF Start, Save, SaveFails, SweepFails
<1>4. ASSUME Crash \/ UNCHANGED sweeps PROVE Goal
  <2>1. \/ /\ spc' = [s \in Sweepers |-> "idle"] /\ spos' = spos
           /\ batch' = [s \in Sweepers |-> <<>>]
        \/ spc' = spc /\ spos' = spos /\ batch' = batch
    BY <1>4 DEF Crash, sweeps
  <2> HIDE DEF S
  <2>2. spc' \in [Sweepers -> {"idle", "read", "save", "trim"}]
    BY <1>0, <2>1
  <2>3. spos' \in [Sweepers -> 1 .. Len(SweepOrder)]
    BY <1>0, <2>1
  <2>4. batch' \in [Sweepers -> Seq(S)]
    BY <1>0, <2>1
  <2> QED BY <2>2, <2>3, <2>4
<1>5. Goal
  <2> HIDE DEF Goal
  <2> QED BY <1>1, <1>2, <1>3, <1>4, SweepMoves DEF SweepStep
<1>6. Seq(Chats) \subseteq Seq(Chats')
  BY ChatsGrow
<1> DEFINE T == Seq(Chats')
<1>7. Seq(S) \subseteq T
  BY <1>6
<1>8. batch' \in [Sweepers -> T]
  <2> HIDE DEF S, T
  <2> QED BY <1>5, <1>7
<1> QED BY <1>5, <1>8

-----------------------------------------------------------------------------
(* Authors, readers and counters.                                          *)

LEMMA AuthorTypes ==
  ASSUME TypeOK, TellersPushed, [Next]_vars
  PROVE  /\ apc' \in [Authors -> {"idle", "push", "tell"}]
         /\ topic' \in [Authors -> Channels] /\ mine' \in [Authors -> 0 .. Len(chan')]
         /\ TellersPushed' /\ refused' \subseteq Chats'
<1> DEFINE C == Chats'
           M == 0 .. Len(chan')
           Goal == /\ apc' \in [Authors -> {"idle", "push", "tell"}]
                   /\ topic' \in [Authors -> Channels] /\ mine' \in [Authors -> M]
                   /\ \A a \in Authors : apc'[a] = "tell" => mine'[a] \in C
                   /\ refused' \subseteq C
<1>0. /\ apc \in [Authors -> {"idle", "push", "tell"}]
      /\ topic \in [Authors -> Channels]
      /\ \A a \in Authors : apc[a] = "tell" => mine[a] \in Chats
      /\ refused \subseteq Chats /\ Chats \subseteq C
  BY ChatsGrow DEF TypeOK, TellersPushed
<1>a. mine \in [Authors -> M]
  <2>1. mine \in [Authors -> 0 .. Len(chan)]
    BY DEF TypeOK
  <2>2. 0 .. Len(chan) \subseteq M
    BY ChatsGrow
  <2> HIDE DEF M
  <2> QED BY <2>1, <2>2
<1>1. ASSUME NEW a \in Authors, Push(a) PROVE Goal
  <2>1. Len(chan) + 1 \in C /\ Len(chan) + 1 \in M
    BY <1>1, ChatsGrow DEF Push, TypeOK, Chats
  <2> HIDE DEF C, M
  <2>2. /\ apc' = [apc EXCEPT ![a] = "tell"] /\ topic' = topic /\ refused' = refused
        /\ mine' = [mine EXCEPT ![a] = Len(chan) + 1]
    BY <1>1 DEF Push, AGoto
  <2> QED BY <1>0, <1>a, <2>1, <2>2
<1>2. ASSUME NEW a \in Authors, (\E c \in Channels : Say(a, c)) \/ Tell(a) \/ SayFails(a) PROVE Goal
  <2> HIDE DEF C, M
  <2> QED BY <1>0, <1>a, <1>2 DEF Say, Tell, SayFails, AGoto
<1>3. ASSUME \/ \E s \in Sweepers : SweepStep(s)
             \/ \E r \in Readers :
                  Join(r) \/ Count(r) \/ Take(r) \/ Query(r) \/ More(r) \/ ReadFails(r)
             \/ \E c \in Channels : Expire(c)
             \/ UNCHANGED vars
      PROVE  Goal
  <2>1. UNCHANGED <<authors, refused>>
    BY <1>3 DEF SweepStep, Start, Read, Save, SaveFails, Trim, SweepFails, Join, Count, Take,
                Query, More, ReadFails, Expire, vars
  <2> HIDE DEF C, M
  <2> QED BY <1>0, <1>a, <2>1 DEF authors
<1>4. ASSUME Crash PROVE Goal
  <2> HIDE DEF C, M
  <2> QED BY <1>0, <1>a, <1>4 DEF Crash
<1>5. Goal
  <2> HIDE DEF Goal
  <2> QED BY <1>1, <1>2, <1>3, <1>4 DEF Next
<1> QED BY <1>5 DEF TellersPushed

LEMMA FoundType == ASSUME TypeOK, NEW r \in Readers PROVE Found(r) \subseteq Chats
<1>1. Range(archive) \subseteq Chats
  <2> DEFINE S == Chats
  <2>1. archive \in Seq(S)
    BY DEF TypeOK
  <2> HIDE DEF S
  <2>2. Range(archive) \subseteq S
    BY <2>1, RangeOfSeq
  <2> QED BY <2>2 DEF S
<1> QED BY <1>1 DEF Found

LEMMA ReaderTypes ==
  ASSUME TypeOK, TellersPushed, [Next]_vars
  PROVE  /\ rpc' \in [Readers -> {"idle", "count", "take", "query", "more", "done", "failed"}]
         /\ page' \in [Readers -> Nat] /\ count' \in [Readers -> Nat]
         /\ seen' \in [Readers -> SUBSET Chats'] /\ heard' \in [Readers -> SUBSET Chats']
         /\ joined' \subseteq Readers
<1> DEFINE C == Chats
           Labels == {"idle", "count", "take", "query", "more", "done", "failed"}
           Goal == /\ rpc' \in [Readers -> Labels]
                   /\ page' \in [Readers -> Nat] /\ count' \in [Readers -> Nat]
                   /\ seen' \in [Readers -> SUBSET C] /\ heard' \in [Readers -> SUBSET C]
                   /\ joined' \subseteq Readers
<1>0. /\ rpc \in [Readers -> Labels] /\ page \in [Readers -> Nat] /\ count \in [Readers -> Nat]
      /\ seen \in [Readers -> SUBSET C] /\ heard \in [Readers -> SUBSET C]
      /\ joined \subseteq Readers
      /\ \A a \in Authors : apc[a] = "tell" => mine[a] \in C
  BY DEF TypeOK, TellersPushed
<1>1. ASSUME NEW r \in Readers, Join(r) \/ More(r) \/ ReadFails(r) PROVE Goal
  <2> HIDE DEF C
  <2>1. CASE Join(r)
    BY <1>0, <2>1 DEF Join, RGoto
  <2>2. CASE More(r)
    <3>1. /\ rpc' = [rpc EXCEPT ![r] = "count"] /\ page' = [page EXCEPT ![r] = @ + 1]
          /\ UNCHANGED <<count, seen, heard, joined>>
      BY <2>2 DEF More, RGoto
    <3> QED BY <1>0, <3>1
  <2>3. CASE ReadFails(r)
    <3>1. rpc' = [rpc EXCEPT ![r] = "failed"] /\ UNCHANGED <<page, count, seen, heard, joined>>
      BY <2>3 DEF ReadFails, RGoto
    <3> QED BY <1>0, <3>1
  <2> QED BY <1>1, <2>1, <2>2, <2>3
<1>2. ASSUME NEW r \in Readers, Count(r) PROVE Goal
  <2>1. Len(list[ReadChannel]) \in Nat
    BY DEF TypeOK
  <2> HIDE DEF C
  <2> QED BY <1>0, <1>2, <2>1 DEF Count, RGoto
<1>3. ASSUME NEW r \in Readers, NEW A \in SUBSET C, NEW l \in Labels, RGoto(r, l),
             seen' = [seen EXCEPT ![r] = @ \cup A], UNCHANGED <<page, count, joined, heard>>
      PROVE  Goal
  <2> HIDE DEF C
  <2> QED BY <1>0, <1>3 DEF RGoto
<1>4. ASSUME NEW r \in Readers, Take(r) PROVE Goal
  <2>1. list[ReadChannel] \in Seq(C)
    BY DEF TypeOK
  <2>2. Range(list[ReadChannel]) \in SUBSET C
    <3> HIDE DEF C
    <3> QED BY <2>1, RangeOfSeq
  <2> HIDE DEF Goal, C
  <2> QED BY <1>3, <1>4, <2>2 DEF Take
<1>5. ASSUME NEW r \in Readers, Query(r) PROVE Goal
  <2>1. Found(r) \in SUBSET C
    BY FoundType
  <2> HIDE DEF Goal, C
  <2> QED BY <1>3, <1>5, <2>1 DEF Query
<1>6. ASSUME NEW a \in Authors, Tell(a) PROVE Goal
  <2>1. /\ mine[a] \in C /\ UNCHANGED <<rpc, page, count, seen, joined>>
        /\ heard' = [r \in Readers |-> IF r \in joined /\ topic[a] = ReadChannel
                                       THEN heard[r] \cup {mine[a]} ELSE heard[r]]
    BY <1>0, <1>6 DEF Tell
  <2> HIDE DEF C
  <2>2. \A r \in Readers : heard'[r] \in SUBSET C
    BY <1>0, <2>1
  <2> QED BY <1>0, <2>1, <2>2
<1>7. ASSUME \/ \E a \in Authors : (\E c \in Channels : Say(a, c)) \/ Push(a) \/ SayFails(a)
             \/ \E s \in Sweepers : SweepStep(s)
             \/ \E c \in Channels : Expire(c)
             \/ UNCHANGED vars
      PROVE  Goal
  <2>1. UNCHANGED readers
    BY <1>7 DEF SweepStep, Start, Read, Save, SaveFails, Trim, SweepFails, Say, Push, SayFails,
                Expire, vars
  <2> HIDE DEF C
  <2> QED BY <1>0, <2>1 DEF readers
<1>8. ASSUME Crash PROVE Goal
  <2> HIDE DEF C
  <2> QED BY <1>0, <1>8 DEF Crash
<1>9. Goal
  <2> HIDE DEF Goal
  <2> QED BY <1>1, <1>2, <1>4, <1>5, <1>6, <1>7, <1>8 DEF Next
<1> DEFINE D == Chats'
<1>10. C \subseteq D
  BY ChatsGrow
<1>11. seen' \in [Readers -> SUBSET D] /\ heard' \in [Readers -> SUBSET D]
  <2> HIDE DEF C, D
  <2> QED BY <1>9, <1>10
<1> QED BY <1>9, <1>11

LEMMA DebtTypes ==
  ASSUME TypeOK, [Next]_vars
  PROVE  /\ debt' \in [Channels -> Nat]
         /\ expiries' \in Nat /\ crashes' \in Nat /\ faults' \in Nat
<1>0. /\ debt \in [Channels -> Nat] /\ expiries \in Nat /\ crashes \in Nat /\ faults \in Nat
      /\ topic \in [Authors -> Channels]
  BY DEF TypeOK
<1> DEFINE Goal == debt' \in [Channels -> Nat]
<1>1. Goal
  <2>1. ASSUME NEW a \in Authors, Push(a) PROVE Goal
    BY <1>0, <2>1 DEF Push
  <2>2. ASSUME NEW s \in Sweepers, SaveFails(s) PROVE Goal
    <3>1. PICK n \in 0 .. Len(batch[s]) - 1 :
            debt' = [debt EXCEPT ![SweepOrder[spos[s]]] = @ + (Len(batch[s]) - n)]
      BY <2>2 DEF SaveFails
    <3>2. Len(batch[s]) \in Nat
      BY DEF TypeOK
    <3>3. Len(batch[s]) - n \in Nat
      BY <3>1, <3>2
    <3> DEFINE k == Len(batch[s]) - n
               c == SweepOrder[spos[s]]
    <3>4. debt' = [debt EXCEPT ![c] = @ + k] /\ k \in Nat
      BY <3>1, <3>3
    <3>5. c \in Channels
      BY DEF TypeOK
    <3> HIDE DEF k, c
    <3>6. debt[c] + k \in Nat
      BY <1>0, <3>4, <3>5
    <3> QED BY <1>0, <3>4, <3>6
  <2>3. ASSUME NEW c \in Channels, Expire(c) PROVE Goal
    <3>1. Len(list[c]) \in Nat
      BY DEF TypeOK
    <3> QED BY <1>0, <2>3, <3>1 DEF Expire
  <2>4. ASSUME UNCHANGED debt PROVE Goal
    BY <1>0, <2>4
  <2>5. \/ \E a \in Authors : Push(a)
        \/ \E s \in Sweepers : SaveFails(s)
        \/ \E c \in Channels : Expire(c)
        \/ UNCHANGED debt
    BY StoreMoves DEF Trim, Save
  <2> HIDE DEF Goal
  <2> QED BY <2>1, <2>2, <2>3, <2>4, <2>5
<1>2. expiries' \in Nat /\ crashes' \in Nat /\ faults' \in Nat
  <2>1. ASSUME NEW a \in Authors, (\E c \in Channels : Say(a, c)) \/ Push(a) \/ Tell(a)
        PROVE  UNCHANGED bounds
    BY <2>1 DEF Say, Push, Tell
  <2>2. ASSUME NEW a \in Authors, SayFails(a) PROVE Fault
    BY <2>2 DEF SayFails
  <2>3. ASSUME NEW s \in Sweepers, SweepStep(s) PROVE UNCHANGED bounds \/ Fault
    BY <2>3 DEF SweepStep, Start, Read, Save, SaveFails, Trim, SweepFails
  <2>4. ASSUME NEW r \in Readers,
               Join(r) \/ Count(r) \/ Take(r) \/ Query(r) \/ More(r) \/ ReadFails(r)
        PROVE  UNCHANGED bounds \/ Fault
    BY <2>4 DEF Join, Count, Take, Query, More, ReadFails
  <2>5. ASSUME \/ \E c \in Channels : Expire(c)
               \/ Crash
        PROVE  expiries' \in Nat /\ crashes' \in Nat /\ faults' \in Nat
    BY <1>0, <2>5 DEF Expire, Crash
  <2>6. ASSUME UNCHANGED bounds \/ Fault
        PROVE  expiries' \in Nat /\ crashes' \in Nat /\ faults' \in Nat
    BY <1>0, <2>6 DEF Fault, bounds
  <2>7. UNCHANGED vars => UNCHANGED bounds
    BY DEF vars
  <2> QED BY <2>1, <2>2, <2>3, <2>4, <2>5, <2>6, <2>7 DEF Next
<1> QED BY <1>1, <1>2

LEMMA TypeStep ==
  ASSUME TypeOK, TellersPushed, [Next]_vars PROVE TypeOK' /\ TellersPushed'
<1>1. /\ list' \in [Channels -> Seq(Chats')]
      /\ \A c \in Channels : \A i, j \in DOMAIN list'[c] : i < j => list'[c][i] < list'[c][j]
  BY ListTypes DEF Increasing
<1> QED BY <1>1, ChatsGrow, ArchiveType, SweepTypes, AuthorTypes, ReaderTypes, DebtTypes DEF TypeOK

-----------------------------------------------------------------------------
(* What is lost.                                                           *)

LEMMA FiniteParts ==
  ASSUME TypeOK, NEW c \in Channels
  PROVE  /\ IsFiniteSet(Lost(c)) /\ IsFiniteSet(Surplus(c))
         /\ Lost(c) \subseteq Chats /\ Surplus(c) \subseteq Range(list[c])
         /\ \A s \in Sweepers : IsFiniteSet(Due(c, s))
<1>1. IsFiniteSet(Chats)
  <2>1. 1 \in Int /\ Len(chan) \in Int
    BY DEF TypeOK
  <2> QED BY <2>1, FS_Interval DEF Chats
<1>2. list[c] \in Seq(Chats)
  BY DEF TypeOK
<1>3. Range(list[c]) \subseteq Chats
  <2> DEFINE C == Chats
  <2> HIDE DEF C
  <2>1. list[c] \in Seq(C) => Range(list[c]) \subseteq C
    BY RangeOfSeq
  <2> QED BY <1>2, <2>1 DEF C
<1>4. Surplus(c) \subseteq Range(list[c])
  BY DEF Surplus, Range
<1>5. Lost(c) \subseteq Chats
  BY DEF Lost, ChatsOf
<1>6. ASSUME NEW s \in Sweepers PROVE IsFiniteSet(Due(c, s))
  <2>1. Due(c, s) \in SUBSET Chats
    BY <1>3, <1>4, <1>5 DEF Due
  <2> QED BY <1>1, <2>1, FS_Subset
<1>7. Lost(c) \in SUBSET Chats /\ Surplus(c) \in SUBSET Chats
  BY <1>3, <1>4, <1>5
<1> QED BY <1>1, <1>4, <1>5, <1>6, <1>7, FS_Subset

\* The invariant, channel by channel.
LossOf(c) ==
  /\ AtMostOf(Lost(c), debt[c])
  /\ \A s \in Sweepers :
       spc[s] \in {"save", "trim"} /\ SweepOrder[spos[s]] = c => AtMostOf(Due(c, s), debt[c])

LossOfAll == \A c \in Channels : LossOf(c)

LEMMA LossByChannel == TypeOK => (LossBounded /\ FlushesAccounted <=> LossOfAll)
<1> SUFFICES ASSUME TypeOK PROVE LossBounded /\ FlushesAccounted <=> LossOfAll
  OBVIOUS
<1>1. \A c \in Channels : IsFiniteSet(Lost(c)) /\ \A s \in Sweepers : IsFiniteSet(Due(c, s))
  BY FiniteParts
<1>2. \A s \in Sweepers : SweepOrder[spos[s]] \in Channels
  BY DEF TypeOK
<1> QED BY <1>1, <1>2 DEF LossBounded, FlushesAccounted, LossOfAll, LossOf, AtMostOf

\* A channel whose list, archive and debt a step leaves alone, but for a sweep
\* that reads it, starts or ends.
LEMMA ChannelStays ==
  ASSUME TypeOK, NEW c \in Channels, LossOf(c),
         Lost(c)' \subseteq Lost(c), Surplus(c)' \subseteq Surplus(c),
         Range(archive) \subseteq Range(archive'), debt'[c] = debt[c],
         \A s \in Sweepers :
           spc'[s] \in {"save", "trim"} /\ SweepOrder[spos'[s]] = c =>
             \/ /\ spc[s] \in {"save", "trim"} /\ SweepOrder[spos[s]] = c
                /\ Unsaved(s) \subseteq Range(archive') \cup Unsaved(s)'
             \/ Surplus(c)' \subseteq Range(archive') \cup Unsaved(s)'
  PROVE  LossOf(c)'
<1>1. debt[c] \in Nat
  BY DEF TypeOK
<1>2. AtMostOf(Lost(c)', debt'[c])
  BY <1>1, Smaller DEF LossOf
<1>3. ASSUME NEW s \in Sweepers, spc'[s] \in {"save", "trim"}, SweepOrder[spos'[s]] = c
      PROVE  AtMostOf(Due(c, s)', debt'[c])
  <2>1. CASE /\ spc[s] \in {"save", "trim"} /\ SweepOrder[spos[s]] = c
             /\ Unsaved(s) \subseteq Range(archive') \cup Unsaved(s)'
    <3>1. Due(c, s)' \subseteq Due(c, s)
      BY <2>1 DEF Due
    <3> QED BY <1>1, <2>1, <3>1, Smaller DEF LossOf
  <2>2. CASE Surplus(c)' \subseteq Range(archive') \cup Unsaved(s)'
    <3>1. Due(c, s)' \subseteq Lost(c)
      BY <2>2 DEF Due
    <3> QED BY <1>1, <3>1, Smaller DEF LossOf
  <2> QED BY <1>3, <2>1, <2>2
<1> QED BY <1>2, <1>3 DEF LossOf

\* A sweep that a step leaves alone.
Alone(s) == spc'[s] = spc[s] /\ spos'[s] = spos[s] /\ batch'[s] = batch[s]

LEMMA AloneUnsaved == ASSUME NEW s, Alone(s) PROVE Unsaved(s)' = Unsaved(s)
BY DEF Alone, Unsaved, Range

LEMMA SurplusOfList ==
  ASSUME NEW c PROVE Surplus(c) = TrimmedOff(list[c]) /\ Surplus(c)' = TrimmedOff(list'[c])
BY DEF Surplus, TrimmedOff

LEMMA SameSurplus ==
  ASSUME NEW c, list'[c] = list[c] PROVE Surplus(c)' = Surplus(c)
BY SurplusOfList

LEMMA SeqWider ==
  ASSUME NEW A, NEW B, A \subseteq B, NEW q \in Seq(A) PROVE q \in Seq(B)
OBVIOUS

\* Nothing is lost while the lists stay and the archive grows.
LEMMA LostShrinks ==
  ASSUME NEW c, chan' = chan, list'[c] = list[c], Range(archive) \subseteq Range(archive')
  PROVE  Lost(c)' \subseteq Lost(c)
<1>1. ChatsOf(c)' = ChatsOf(c)
  BY DEF ChatsOf, Chats
<1> QED BY <1>1 DEF Lost

\* The longest a list grows in one step, seen from the head.
LEMMA PushSurplus ==
  ASSUME NEW S, NEW q \in Seq(S), NEW m \in S
  PROVE  TrimmedOff(Append(q, m)) \subseteq TrimmedOff(q) \cup {q[Len(q) + 1 - Retain]}
<1> DEFINE t == Append(q, m)
<1>1. /\ Len(q) \in Nat /\ DOMAIN q = 1 .. Len(q) /\ Retain \in Nat /\ Retain # 0
      /\ Len(t) = Len(q) + 1 /\ DOMAIN t = 1 .. Len(q) + 1
      /\ \A i \in 1 .. Len(q) : t[i] = q[i]
  OBVIOUS
<1>2. ASSUME NEW i \in DOMAIN t, i + Retain <= Len(t)
      PROVE  /\ i \in DOMAIN q /\ t[i] = q[i]
             /\ i + Retain <= Len(q) \/ i = Len(q) + 1 - Retain
  <2> HIDE DEF t
  <2> QED BY <1>1, <1>2
<1> HIDE DEF t
<1>3. TrimmedOff(t) \subseteq TrimmedOff(q) \cup {q[Len(q) + 1 - Retain]}
  BY <1>2 DEF TrimmedOff
<1> QED BY <1>3 DEF t

LEMMA PushLoss ==
  ASSUME TypeOK, \A c \in Channels : LossOf(c), NEW a \in Authors, Push(a), NEW d \in Channels
  PROVE  LossOf(d)'
<1> DEFINE c == topic[a]
           m == Len(chan) + 1
<1>1. /\ c \in Channels /\ chan' = Append(chan, c) /\ list' = [list EXCEPT ![c] = Append(@, m)]
      /\ debt' = [debt EXCEPT ![c] = IF Flushing(c) THEN @ + 1 ELSE @]
      /\ archive' = archive /\ UNCHANGED sweeps
  BY DEF Push, TypeOK
<1>2. /\ list \in [Channels -> Seq(Chats)] /\ debt \in [Channels -> Nat]
      /\ chan \in Seq(Channels) /\ Len(chan) \in Nat
  BY DEF TypeOK
<1>3. \A s \in Sweepers : Alone(s)
  BY <1>1 DEF Alone, sweeps
<1>4. /\ Chats' = Chats \cup {m} /\ \A n \in Chats : chan'[n] = chan[n]
      /\ chan'[m] = c
  <2>1. /\ Len(chan') = Len(chan) + 1 /\ \A n \in 1 .. Len(chan) : chan'[n] = chan[n]
        /\ chan'[Len(chan) + 1] = c
    <3> HIDE DEF c
    <3> QED BY <1>1, <1>2
  <2>2. 1 .. Len(chan') = (1 .. Len(chan)) \cup {m}
    BY <1>2, <2>1
  <2> QED BY <2>1, <2>2 DEF Chats
<1>5. list'[c] = Append(list[c], m) /\ \A e \in Channels \ {c} : list'[e] = list[e]
  BY <1>1, <1>2
<1>6. Range(list'[c]) = Range(list[c]) \cup {m}
  <2> DEFINE C == Chats
             N == C \cup {m}
             q == list[c]
  <2>1. q \in Seq(C) /\ C \subseteq N /\ m \in N
    BY <1>1, <1>2
  <2> HIDE DEF C, N, q, m
  <2>2. q \in Seq(N)
    BY <2>1, SeqWider
  <2>3. Range(Append(q, m)) = Range(q) \cup {m}
    BY <2>1, <2>2, RangeAppend
  <2> QED BY <1>5, <2>3 DEF q
<1>7. Lost(d)' \subseteq Lost(d)
  <2>1. ASSUME NEW n \in Lost(d)' PROVE n \in Lost(d)
    <3>1. n \in Chats' /\ chan'[n] = d /\ n \notin Range(list'[d]) /\ n \notin Range(archive)
      BY <1>1, <2>1 DEF Lost, ChatsOf
    <3>2. n # m
      BY <1>4, <1>6, <3>1
    <3>3. n \in Chats /\ chan[n] = d
      BY <1>4, <3>1, <3>2
    <3>4. n \notin Range(list[d])
      BY <1>5, <1>6, <3>1
    <3> QED BY <3>1, <3>3, <3>4 DEF Lost, ChatsOf
  <2> QED BY <2>1
<1>8. CASE d # c
  <2>1. list'[d] = list[d] /\ debt'[d] = debt[d]
    BY <1>1, <1>2, <1>5, <1>8
  <2>2. Surplus(d)' = Surplus(d)
    BY <2>1, SameSurplus
  <2> QED BY <1>1, <1>3, <1>7, <2>1, <2>2, AloneUnsaved, ChannelStays DEF Alone
<1>9. CASE d = c /\ ~Flushing(c)
  <2>1. debt'[d] = debt[d]
    BY <1>1, <1>2, <1>9
  <2>2. AtMostOf(Lost(d)', debt'[d])
    BY <1>2, <1>7, <2>1, Smaller DEF LossOf
  <2>3. \A s \in Sweepers : ~(spc'[s] \in {"save", "trim"} /\ SweepOrder[spos'[s]] = d)
    BY <1>3, <1>9 DEF Alone, Flushing
  <2> QED BY <2>2, <2>3 DEF LossOf
<1>10. CASE d = c /\ Flushing(c)
  <2>1. debt'[d] = debt[d] + 1 /\ debt[d] \in Nat
    BY <1>1, <1>2, <1>10
  <2>2. AtMostOf(Lost(d)', debt'[d])
    <3>1. Lost(d)' \subseteq Lost(d) \cup {m}
      BY <1>7
    <3> HIDE DEF m
    <3> QED BY <2>1, <3>1, OneMore DEF LossOf
  <2>3. PICK x : Surplus(d)' \subseteq Surplus(d) \cup {x}
    <3> DEFINE q == list[c]
    <3>0. q \in Seq(Chats)
      BY <1>1, <1>2
    <3>1. q \in Seq(Chats) /\ Chats \subseteq Nat
      BY <1>2, <3>0 DEF Chats
    <3>2. q \in Seq(Nat) /\ m \in Nat
      <4> DEFINE C == Chats
      <4>1. q \in Seq(C) /\ C \subseteq Nat
        BY <3>1
      <4> HIDE DEF C, q
      <4>2. q \in Seq(Nat)
        BY <4>1, SeqWider
      <4> QED BY <1>2, <4>2
    <3>3. list'[c] = Append(q, m)
      BY <1>5
    <3> HIDE DEF m
    <3>4. TrimmedOff(Append(q, m)) \subseteq TrimmedOff(q) \cup {q[Len(q) + 1 - Retain]}
      BY <3>2, PushSurplus
    <3>5. Surplus(d) = TrimmedOff(q) /\ Surplus(d)' = TrimmedOff(Append(q, m))
      BY <1>10, <3>3, SurplusOfList
    <3> HIDE DEF q
    <3> QED BY <3>4, <3>5
  <2>4. ASSUME NEW s \in Sweepers, spc'[s] \in {"save", "trim"}, SweepOrder[spos'[s]] = d
        PROVE  AtMostOf(Due(d, s)', debt'[d])
    <3>1. AtMostOf(Due(d, s), debt[d])
      BY <1>3, <2>4 DEF LossOf, Alone
    <3>2. Unsaved(s)' = Unsaved(s)
      BY <1>3, AloneUnsaved
    <3>3. Due(d, s)' \subseteq Due(d, s) \cup {x}
      BY <1>1, <1>7, <2>3, <3>2 DEF Due
    <3> QED BY <2>1, <3>1, <3>3, OneMore
  <2> QED BY <2>2, <2>4 DEF LossOf
<1> QED BY <1>8, <1>9, <1>10

LEMMA ArchiveLonger ==
  ASSUME TypeOK, NEW q \in Seq(Chats), archive' = archive \o q
  PROVE  Range(archive') = Range(archive) \cup Range(q)
<1> DEFINE C == Chats
<1>1. archive \in Seq(C) /\ q \in Seq(C)
  BY DEF TypeOK
<1> HIDE DEF C
<1> QED BY <1>1, RangeConcatenation

LEMMA SaveLoss ==
  ASSUME TypeOK, NEW s \in Sweepers, Save(s), NEW d \in Channels, LossOf(d)
  PROVE  LossOf(d)'
<1>1. /\ spc[s] = "save" /\ archive' = archive \o batch[s]
      /\ spc' = [spc EXCEPT ![s] = "trim"]
      /\ UNCHANGED <<chan, list, spos, batch, debt>>
      /\ batch[s] \in Seq(Chats) /\ spc \in [Sweepers -> {"idle", "read", "save", "trim"}]
  BY DEF Save, TypeOK
<1>2. Range(archive') = Range(archive) \cup Range(batch[s])
  BY <1>1, ArchiveLonger
<1>3. Lost(d)' \subseteq Lost(d) /\ Surplus(d)' = Surplus(d)
  BY <1>1, <1>2, LostShrinks, SameSurplus
<1>4. ASSUME NEW t \in Sweepers, spc'[t] \in {"save", "trim"}, SweepOrder[spos'[t]] = d
      PROVE  /\ spc[t] \in {"save", "trim"} /\ SweepOrder[spos[t]] = d
             /\ Unsaved(t) \subseteq Range(archive') \cup Unsaved(t)'
  <2>1. CASE t = s
    BY <1>1, <1>2, <1>4, <2>1 DEF Unsaved
  <2>2. CASE t # s
    <3>1. Alone(t)
      BY <1>1, <2>2 DEF Alone
    <3> QED BY <1>4, <3>1, AloneUnsaved DEF Alone
  <2> QED BY <2>1, <2>2
<1> QED BY <1>1, <1>2, <1>3, <1>4, ChannelStays

LEMMA SaveFailsLoss ==
  ASSUME TypeOK, NEW s \in Sweepers, SaveFails(s), NEW d \in Channels, LossOf(d)
  PROVE  LossOf(d)'
<1> DEFINE b == batch[s]
           c == SweepOrder[spos[s]]
<1>1. PICK n \in 0 .. Len(b) - 1 :
        archive' = archive \o Prefix(b, n) /\ debt' = [debt EXCEPT ![c] = @ + (Len(b) - n)]
  BY DEF SaveFails
<1>2. /\ spc[s] = "save" /\ spc' = [spc EXCEPT ![s] = "trim"]
      /\ UNCHANGED <<chan, list, spos, batch>>
      /\ b \in Seq(Chats) /\ spc \in [Sweepers -> {"idle", "read", "save", "trim"}]
      /\ debt \in [Channels -> Nat] /\ c \in Channels
  <2>1. /\ spc[s] = "save" /\ spc' = [spc EXCEPT ![s] = "trim"]
        /\ UNCHANGED <<chan, list, spos, batch>>
    BY DEF SaveFails
  <2>2. b \in Seq(Chats)
    BY DEF TypeOK
  <2>3. spc \in [Sweepers -> {"idle", "read", "save", "trim"}] /\ debt \in [Channels -> Nat]
    BY DEF TypeOK
  <2>4. c \in Channels
    BY DEF TypeOK
  <2> QED BY <2>1, <2>2, <2>3, <2>4
<1>3. /\ n \in 0 .. Len(b) /\ n \in Nat /\ Len(b) \in Nat /\ n <= Len(b) /\ Len(b) - n \in Nat
      /\ Prefix(b, n) \in Seq(Chats) /\ Range(Prefix(b, n)) = {b[i] : i \in 1 .. n}
  <2> DEFINE C == Chats
  <2>1. b \in Seq(C)
    BY <1>2
  <2> HIDE DEF b, C
  <2>2. Len(b) \in Nat
    BY <2>1
  <2>3. n \in 0 .. Len(b) /\ n \in Nat /\ n <= Len(b) /\ Len(b) - n \in Nat
    BY <1>1, <2>2
  <2>4. Prefix(b, n) \in Seq(C) /\ Range(Prefix(b, n)) = {b[i] : i \in 1 .. n}
    BY <2>1, <2>3, PrefixType
  <2> QED BY <2>2, <2>3, <2>4 DEF C
<1>4. Range(archive') = Range(archive) \cup {b[i] : i \in 1 .. n}
  BY <1>1, <1>3, ArchiveLonger
<1>5. Lost(d)' \subseteq Lost(d) /\ Surplus(d)' = Surplus(d)
  BY <1>2, <1>4, LostShrinks, SameSurplus
<1>6. \A t \in Sweepers \ {s} : Alone(t)
  BY <1>2 DEF Alone
<1>7. CASE d # c
  <2>1. debt'[d] = debt[d]
    BY <1>1, <1>2, <1>7
  <2>2. ASSUME NEW t \in Sweepers, spc'[t] \in {"save", "trim"}, SweepOrder[spos'[t]] = d
        PROVE  /\ spc[t] \in {"save", "trim"} /\ SweepOrder[spos[t]] = d
               /\ Unsaved(t) \subseteq Range(archive') \cup Unsaved(t)'
    <3>1. t # s
      BY <1>2, <1>7, <2>2
    <3> QED BY <1>6, <2>2, <3>1, AloneUnsaved DEF Alone
  <2> QED BY <1>4, <1>5, <2>1, <2>2, ChannelStays
<1>8. CASE d = c
  <2> DEFINE k == Len(b) - n
             rest == {b[i] : i \in n + 1 .. Len(b)}
  <2>1. debt'[d] = debt[d] + k /\ debt[d] \in Nat /\ k \in Nat
    BY <1>1, <1>2, <1>3, <1>8
  <2>2. AtMostOf(rest, k)
    BY <1>3, Stretch
  <2>3. Range(b) \subseteq Range(archive') \cup rest
    <3>1. Range(b) = {b[i] : i \in 1 .. Len(b)}
      BY <1>2, RangeEquality
    <3>2. 1 .. Len(b) \subseteq (1 .. n) \cup (n + 1 .. Len(b))
      BY <1>3
    <3> QED BY <1>4, <3>1, <3>2
  <2>4. AtMostOf(Lost(d)', debt'[d])
    <3>1. Lost(d)' \subseteq Lost(d) \cup rest
      BY <1>5
    <3> HIDE DEF k, rest
    <3> QED BY <2>1, <2>2, <3>1, Together DEF LossOf
  <2>5. ASSUME NEW t \in Sweepers, spc'[t] \in {"save", "trim"}, SweepOrder[spos'[t]] = d
        PROVE  AtMostOf(Due(d, t)', debt'[d])
    <3>1. spc[t] \in {"save", "trim"} /\ SweepOrder[spos[t]] = d
      BY <1>2, <1>6, <2>5 DEF Alone
    <3>2. Unsaved(t) \subseteq Range(archive') \cup Unsaved(t)' \cup rest
      <4>1. CASE t = s
        BY <1>2, <2>3, <4>1 DEF Unsaved
      <4>2. CASE t # s
        BY <1>6, <4>2, AloneUnsaved
      <4> QED BY <4>1, <4>2
    <3>3. Due(d, t)' \subseteq Due(d, t) \cup rest
      <4> HIDE DEF rest
      <4> QED BY <1>4, <1>5, <3>2 DEF Due
    <3>4. AtMostOf(Due(d, t), debt[d])
      BY <3>1 DEF LossOf
    <3> HIDE DEF k, rest
    <3> QED BY <2>1, <2>2, <3>3, <3>4, Together
  <2> QED BY <2>4, <2>5 DEF LossOf
<1> QED BY <1>7, <1>8

LEMMA TrimLoss ==
  ASSUME TypeOK, NEW s \in Sweepers, Trim(s), NEW d \in Channels, LossOf(d)
  PROVE  LossOf(d)'
<1> DEFINE c == SweepOrder[spos[s]]
<1>1. /\ spc[s] = "trim" /\ list' = [list EXCEPT ![c] = Kept(list[c])]
      /\ batch' = [batch EXCEPT ![s] = <<>>] /\ Advance(s)
      /\ UNCHANGED <<chan, archive, debt>>
      /\ c \in Channels /\ list \in [Channels -> Seq(Chats)] /\ debt \in [Channels -> Nat]
      /\ batch \in [Sweepers -> Seq(Chats)]
  <2>1. /\ spc[s] = "trim" /\ list' = [list EXCEPT ![c] = Kept(list[c])]
        /\ batch' = [batch EXCEPT ![s] = <<>>] /\ Advance(s)
    BY DEF Trim, Kept
  <2>2. UNCHANGED <<chan, archive, debt>>
    BY DEF Trim
  <2>3. c \in Channels
    BY DEF TypeOK
  <2>4. /\ list \in [Channels -> Seq(Chats)] /\ debt \in [Channels -> Nat]
        /\ batch \in [Sweepers -> Seq(Chats)]
    BY DEF TypeOK
  <2> QED BY <2>1, <2>2, <2>3, <2>4
<1>2. /\ \A t \in Sweepers \ {s} : Alone(t)
      /\ spc'[s] \in {"idle", "read"}
  BY <1>1, AdvanceTypes DEF Alone
<1>3. CASE d # c
  <2>1. list'[d] = list[d]
    BY <1>1, <1>3
  <2>2. Lost(d)' \subseteq Lost(d) /\ Surplus(d)' = Surplus(d)
    BY <1>1, <2>1, LostShrinks, SameSurplus
  <2>3. ASSUME NEW t \in Sweepers, spc'[t] \in {"save", "trim"}, SweepOrder[spos'[t]] = d
        PROVE  /\ spc[t] \in {"save", "trim"} /\ SweepOrder[spos[t]] = d
               /\ Unsaved(t) \subseteq Range(archive') \cup Unsaved(t)'
    <3>1. t # s
      BY <1>2, <2>3
    <3> QED BY <1>2, <2>3, <3>1, AloneUnsaved DEF Alone
  <2> QED BY <1>1, <2>2, <2>3, ChannelStays
<1>4. CASE d = c
  <2>1. list'[d] = Kept(list[d]) /\ list[d] \in Seq(Chats) /\ Chats \in SUBSET Nat
    BY <1>1, <1>4 DEF Chats
  <2>2. Range(list[d]) = Range(list'[d]) \cup TrimmedOff(list[d]) /\ TrimmedOff(list'[d]) = {}
    <3> DEFINE C == Chats
    <3>1. list[d] \in Seq(C) /\ C \in SUBSET Nat
      BY <2>1
    <3> HIDE DEF C
    <3> QED BY <2>1, <3>1, KeptType
  <2>3. Surplus(d) = TrimmedOff(list[d]) /\ Surplus(d)' = {}
    BY <2>2, SurplusOfList
  <2>4. Unsaved(s) = {}
    BY <1>1 DEF Unsaved
  <2>5. Lost(d)' \subseteq Due(d, s)
    <3>1. ChatsOf(d)' = ChatsOf(d)
      BY <1>1 DEF ChatsOf, Chats
    <3> QED BY <1>1, <2>2, <2>3, <2>4, <3>1 DEF Lost, Due
  <2>6. AtMostOf(Due(d, s), debt[d]) /\ debt[d] \in Nat /\ debt'[d] = debt[d]
    BY <1>1, <1>4 DEF LossOf
  <2>7. AtMostOf(Lost(d)', debt'[d])
    BY <2>5, <2>6, Smaller
  <2>8. \A t \in Sweepers : Due(d, t)' = Lost(d)'
    BY <2>3 DEF Due
  <2> QED BY <2>7, <2>8 DEF LossOf
<1> QED BY <1>3, <1>4

LEMMA ExpireLoss ==
  ASSUME TypeOK, NEW c \in Channels, Expire(c), NEW d \in Channels, LossOf(d)
  PROVE  LossOf(d)'
<1>1. /\ list' = [list EXCEPT ![c] = <<>>] /\ debt' = [debt EXCEPT ![c] = @ + Len(list[c])]
      /\ UNCHANGED <<chan, archive, sweeps>>
      /\ list \in [Channels -> Seq(Chats)] /\ debt \in [Channels -> Nat]
  BY DEF Expire, TypeOK
<1>2. \A t \in Sweepers : Alone(t)
  BY <1>1 DEF Alone, sweeps
<1>3. CASE d # c
  <2>1. list'[d] = list[d] /\ debt'[d] = debt[d]
    BY <1>1, <1>3
  <2>2. Lost(d)' \subseteq Lost(d) /\ Surplus(d)' = Surplus(d)
    BY <1>1, <2>1, LostShrinks, SameSurplus
  <2>3. ASSUME NEW t \in Sweepers, spc'[t] \in {"save", "trim"}, SweepOrder[spos'[t]] = d
        PROVE  /\ spc[t] \in {"save", "trim"} /\ SweepOrder[spos[t]] = d
               /\ Unsaved(t) \subseteq Range(archive') \cup Unsaved(t)'
    BY <1>2, <2>3, AloneUnsaved DEF Alone
  <2>4. Range(archive) \subseteq Range(archive')
    BY <1>1
  <2> QED BY <2>1, <2>2, <2>3, <2>4, ChannelStays
<1>4. CASE d = c
  <2> DEFINE q == list[d]
             k == Len(q)
  <2>1. list'[d] = <<>> /\ debt'[d] = debt[d] + k /\ q \in Seq(Chats) /\ debt[d] \in Nat
    BY <1>1, <1>4
  <2>2. k \in Nat /\ AtMostOf(Range(q), k)
    <3> DEFINE C == Chats
    <3>1. q \in Seq(C)
      BY <2>1
    <3> HIDE DEF C, q
    <3> QED BY <3>1, WholeRange
  <2>3. Lost(d)' \subseteq Lost(d) \cup Range(q)
    <3>1. ChatsOf(d)' = ChatsOf(d)
      BY <1>1 DEF ChatsOf, Chats
    <3> QED BY <1>1, <3>1 DEF Lost
  <2>4. AtMostOf(Lost(d)', debt'[d])
    <3> HIDE DEF q, k
    <3> QED BY <2>1, <2>2, <2>3, Together DEF LossOf
  <2>5. Surplus(d)' = {}
    <3>1. TrimmedOff(<<>>) = {}
      BY DEF TrimmedOff
    <3> QED BY <2>1, <3>1, SurplusOfList
  <2>6. \A t \in Sweepers : Due(d, t)' = Lost(d)'
    BY <2>5 DEF Due
  <2> QED BY <2>4, <2>6 DEF LossOf
<1> QED BY <1>3, <1>4

\* A sweep that has just read has all of the surplus.
LEMMA ReadLoss ==
  ASSUME TypeOK, NEW s \in Sweepers, Read(s), NEW d \in Channels, LossOf(d)
  PROVE  LossOf(d)'
<1> DEFINE q == list[SweepOrder[spos[s]]]
           n == Len(q) - Retain
<1>1. UNCHANGED <<chan, list, archive, debt>> /\ spc[s] = "read"
  BY DEF Read, store
<1>2. Lost(d)' \subseteq Lost(d) /\ Surplus(d)' = Surplus(d)
  BY <1>1, LostShrinks, SameSurplus
<1>3. \A t \in Sweepers \ {s} : Alone(t)
  <2>1. batch \in [Sweepers -> Seq(Chats)] /\ spc \in [Sweepers -> {"idle", "read", "save", "trim"}]
    BY DEF TypeOK
  <2> QED BY <2>1, ReadBatch, AdvanceTypes DEF Alone
<1>4. ASSUME spc'[s] \in {"save", "trim"}, SweepOrder[spos'[s]] = d
      PROVE  Surplus(d)' \subseteq Range(archive') \cup Unsaved(s)'
  <2>1. ~Advance(s)
    BY <1>4, AdvanceTypes
  <2>2. /\ batch' = [batch EXCEPT ![s] = Prefix(q, n)]
        /\ spc' = [spc EXCEPT ![s] = "save"] /\ spos' = spos
        /\ n \in 1 .. Len(q) /\ q \in Seq(Chats)
    BY <2>1, ReadBatch
  <2>3. batch'[s] = Prefix(q, n) /\ spc'[s] = "save" /\ q = list[d]
    BY <1>4, <2>2 DEF TypeOK
  <2>4. Range(Prefix(q, n)) = {q[i] : i \in 1 .. n}
    <3> DEFINE C == Chats
    <3>1. q \in Seq(C) /\ n \in 0 .. Len(q)
      BY <2>2
    <3> HIDE DEF C, q, n
    <3> QED BY <3>1, PrefixType
  <2>5. TrimmedOff(q) \subseteq {q[i] : i \in 1 .. n}
    <3>1. Len(q) \in Nat /\ DOMAIN q = 1 .. Len(q) /\ Retain \in Nat
      BY <2>2
    <3>2. \A j \in DOMAIN q : j + Retain <= Len(q) => j \in 1 .. n
      <4> HIDE DEF q
      <4> QED BY <3>1
    <3> QED BY <3>2 DEF TrimmedOff
  <2>6. Unsaved(s)' = Range(Prefix(q, n))
    BY <2>3 DEF Unsaved
  <2> QED BY <1>2, <2>3, <2>4, <2>5, <2>6, SurplusOfList
<1>5. ASSUME NEW t \in Sweepers, spc'[t] \in {"save", "trim"}, SweepOrder[spos'[t]] = d
      PROVE  \/ /\ spc[t] \in {"save", "trim"} /\ SweepOrder[spos[t]] = d
                /\ Unsaved(t) \subseteq Range(archive') \cup Unsaved(t)'
             \/ Surplus(d)' \subseteq Range(archive') \cup Unsaved(t)'
  <2>1. CASE t = s
    BY <1>4, <1>5, <2>1
  <2>2. CASE t # s
    BY <1>3, <1>5, <2>2, AloneUnsaved DEF Alone
  <2> QED BY <2>1, <2>2
<1> QED BY <1>1, <1>2, <1>5, ChannelStays

\* Whatever leaves the stores alone, and no sweep further than it was.
LEMMA QuietLoss ==
  ASSUME TypeOK, UNCHANGED <<store, debt>>, NEW d \in Channels, LossOf(d),
         \A t \in Sweepers : Alone(t) \/ spc'[t] \in {"idle", "read"}
  PROVE  LossOf(d)'
<1>1. chan' = chan /\ list'[d] = list[d] /\ debt'[d] = debt[d] /\ archive' = archive
  BY DEF store
<1>2. Range(archive) \subseteq Range(archive')
  BY <1>1
<1>3. Lost(d)' \subseteq Lost(d) /\ Surplus(d)' = Surplus(d)
  BY <1>1, <1>2, LostShrinks, SameSurplus
<1>4. ASSUME NEW t \in Sweepers, spc'[t] \in {"save", "trim"}, SweepOrder[spos'[t]] = d
      PROVE  /\ spc[t] \in {"save", "trim"} /\ SweepOrder[spos[t]] = d
             /\ Unsaved(t) \subseteq Range(archive') \cup Unsaved(t)'
  <2>1. Alone(t)
    BY <1>4
  <2> QED BY <1>4, <2>1, AloneUnsaved DEF Alone
<1> QED BY <1>1, <1>2, <1>3, <1>4, ChannelStays

\* A sweep that starts, fails or dies with the process has nothing to trim.
LEMMA QuietSweeps ==
  ASSUME TypeOK, NEW s \in Sweepers, Start(s) \/ SweepFails(s)
  PROVE  \A t \in Sweepers : Alone(t) \/ spc'[t] \in {"idle", "read"}
<1>1. /\ spc \in [Sweepers -> {"idle", "read", "save", "trim"}]
      /\ spos \in [Sweepers -> 1 .. Len(SweepOrder)] /\ batch \in [Sweepers -> Seq(Chats)]
  BY DEF TypeOK
<1>2. CASE Start(s)
  BY <1>1, <1>2 DEF Start, Alone
<1>3. CASE SweepFails(s)
  BY <1>1, <1>3 DEF SweepFails, Alone
<1> QED BY <1>2, <1>3

LEMMA LossStep ==
  ASSUME TypeOK, [Next]_vars, \A c \in Channels : LossOf(c), NEW d \in Channels
  PROVE  LossOf(d)'
<1>1. ASSUME NEW a \in Authors, Push(a) PROVE LossOf(d)'
  BY <1>1, PushLoss
<1>2. ASSUME NEW c \in Channels, Expire(c) PROVE LossOf(d)'
  BY <1>2, ExpireLoss
<1>3. ASSUME NEW s \in Sweepers, SweepStep(s) PROVE LossOf(d)'
  <2>1. CASE Save(s)
    BY <2>1, SaveLoss
  <2>2. CASE SaveFails(s)
    BY <2>2, SaveFailsLoss
  <2>3. CASE Trim(s)
    BY <2>3, TrimLoss
  <2>4. CASE Read(s)
    BY <2>4, ReadLoss
  <2>5. CASE Start(s) \/ SweepFails(s)
    <3>1. UNCHANGED <<store, debt>>
      BY <2>5 DEF Start, SweepFails
    <3> QED BY <2>5, <3>1, QuietSweeps, QuietLoss
  <2> QED BY <1>3, <2>1, <2>2, <2>3, <2>4, <2>5 DEF SweepStep
<1>4. ASSUME Crash PROVE LossOf(d)'
  <2>1. UNCHANGED <<store, debt>>
    BY <1>4 DEF Crash
  <2>2. \A t \in Sweepers : spc'[t] \in {"idle", "read"}
    BY <1>4 DEF Crash
  <2> QED BY <2>1, <2>2, QuietLoss
<1>5. ASSUME UNCHANGED <<store, debt>>, UNCHANGED sweeps PROVE LossOf(d)'
  <2>1. \A t \in Sweepers : Alone(t)
    BY <1>5 DEF Alone, sweeps
  <2> QED BY <1>5, <2>1, QuietLoss
<1>6. \/ \E a \in Authors : Push(a)
      \/ \E c \in Channels : Expire(c)
      \/ \E s \in Sweepers : SweepStep(s)
      \/ Crash
      \/ UNCHANGED <<store, debt>> /\ UNCHANGED sweeps
  BY StoreMoves, SweepMoves DEF SweepStep
<1> QED BY <1>1, <1>2, <1>3, <1>4, <1>5, <1>6

LEMMA LossInvStep == LossInv /\ [Next]_vars => LossInv'
<1> SUFFICES ASSUME LossInv, [Next]_vars PROVE LossInv'
  OBVIOUS
<1>1. TypeOK /\ TellersPushed /\ TypeOK' /\ TellersPushed'
  BY TypeStep DEF LossInv
<1>2. LossOfAll
  BY <1>1, LossByChannel DEF LossInv
<1>3. LossOfAll'
  BY <1>1, <1>2, LossStep DEF LossOfAll
<1>4. LossBounded' /\ FlushesAccounted'
  BY <1>1, <1>3, LossByChannel, PTL
<1> QED BY <1>1, <1>4 DEF LossInv

LEMMA LossInvInit == Init => LossInv
<1> SUFFICES ASSUME Init PROVE LossInv
  OBVIOUS
<1>1. Chats = {}
  BY DEF Init, Chats
<1>2. TypeOK
  <2>1. Len(SweepOrder) \in Nat /\ Len(SweepOrder) # 0
    BY ChannelAssumption
  <2>2. /\ chan \in Seq(Channels) /\ archive \in Seq(Chats) /\ Len(chan) = 0
        /\ list \in [Channels -> Seq(Chats)] /\ batch \in [Sweepers -> Seq(Chats)]
    BY DEF Init
  <2>3. \A c \in Channels : DOMAIN list[c] = {}
    BY DEF Init
  <2>4. spos \in [Sweepers -> 1 .. Len(SweepOrder)]
    BY <2>1 DEF Init
  <2>5. /\ seen \in [Readers -> SUBSET Chats] /\ heard \in [Readers -> SUBSET Chats]
        /\ mine \in [Authors -> 0 .. Len(chan)] /\ debt \in [Channels -> Nat]
        /\ topic \in [Authors -> Channels]
        /\ page \in [Readers -> Nat] /\ count \in [Readers -> Nat]
    BY <2>2 DEF Init
  <2>6. /\ apc \in [Authors -> {"idle", "push", "tell"}]
        /\ spc \in [Sweepers -> {"idle", "read", "save", "trim"}]
        /\ rpc \in [Readers -> {"idle", "count", "take", "query", "more", "done", "failed"}]
        /\ joined \subseteq Readers /\ refused \subseteq Chats
        /\ expiries \in Nat /\ crashes \in Nat /\ faults \in Nat
    BY DEF Init
  <2>7. \A c \in Channels : \A i, j \in DOMAIN list[c] : i < j => list[c][i] < list[c][j]
    BY <2>3
  <2> QED BY <2>2, <2>4, <2>5, <2>6, <2>7 DEF TypeOK
<1>3. TellersPushed
  BY DEF Init, TellersPushed
<1>4. LossBounded
  <2>1. \A c \in Channels : Lost(c) = {} /\ debt[c] = 0
    BY <1>1 DEF Init, Lost, ChatsOf
  <2> QED BY <2>1, FS_EmptySet DEF LossBounded
<1>5. FlushesAccounted
  BY DEF Init, FlushesAccounted
<1> QED BY <1>2, <1>3, <1>4, <1>5 DEF LossInv

-----------------------------------------------------------------------------
(* The theorems.                                                           *)

\* The inductive invariant of handleScheduledTasks among pushes, expiries,
\* failures and crashes.
THEOREM LossInvAlways == Spec => []LossInv
BY LossInvInit, LossInvStep, PTL DEF Spec

\* What the lists, the archive and the sweeps hold are chats that createChat
\* pushed, and every list is in the order of the pushes.
THEOREM ChatTypeCorrect == Spec => []TypeOK
<1>1. LossInv => TypeOK
  BY DEF LossInv
<1> QED BY <1>1, LossInvAlways, PTL

\* However many sweeps overlap, fail between LRANGE, insertMany and LTRIM or die
\* there, the chats gone from both stores are at most those that arrived during a
\* flush, were turned down by insertMany or expired.
THEOREM LossBoundedAlways == Spec => []LossBounded
<1>1. LossInv => LossBounded
  BY DEF LossInv
<1> QED BY <1>1, LossInvAlways, PTL

\* The same of the specification the runs check, whose sweeps are fair.
THEOREM FairLossBounded == FairSpec => []TypeOK /\ []LossBounded
BY ChatTypeCorrect, LossBoundedAlways, PTL DEF FairSpec

-----------------------------------------------------------------------------
(* The order of the archive.                                               *)

LEMMA Least ==
  ASSUME NEW T \in SUBSET Nat, T # {}
  PROVE  \E n \in T : \A k \in T : n <= k
<1> DEFINE R == {p \in Nat \X Nat : p[1] < p[2]}
<1>1. IsWellFoundedOn(R, Nat)
  BY NatLessThanWellFounded DEF OpToRel
<1>2. \A x, y \in Nat : x < y => <<x, y>> \in R
  OBVIOUS
<1> HIDE DEF R
<1>3. PICK n \in T : \A k \in T : ~(<<k, n>> \in R)
  BY <1>1, WFMin
<1>4. ASSUME NEW k \in T PROVE n <= k
  <2>1. k \in Nat /\ n \in Nat /\ ~(k < n)
    BY <1>2, <1>3
  <2> QED BY <2>1
<1> QED BY <1>3, <1>4

LEMMA ArchiveEntries ==
  ASSUME TypeOK
  PROVE  /\ DOMAIN archive = 1 .. Len(archive) /\ Len(archive) \in Nat
         /\ \A i \in DOMAIN archive : archive[i] \in Nat /\ archive[i] >= 1
         /\ Range(archive) \subseteq Chats
<1>1. archive \in Seq(Chats)
  BY DEF TypeOK
<1>2. \A i \in DOMAIN archive : archive[i] \in 1 .. Len(chan)
  BY <1>1 DEF Chats
<1>3. Len(chan) \in Nat
  BY DEF TypeOK
<1>4. \A i \in DOMAIN archive : archive[i] \in Nat /\ archive[i] >= 1
  BY <1>2, <1>3
<1>5. Range(archive) \subseteq Chats
  BY <1>2 DEF Range, Chats
<1> QED BY <1>1, <1>4, <1>5

LEMMA Places ==
  ASSUME TypeOK, NEW m
  PROVE  /\ IsFiniteSet({i \in DOMAIN archive : archive[i] <= m})
         /\ IsFiniteSet({i \in DOMAIN archive : archive[i] < m})
         /\ UpTo(m) \in Nat /\ Before(m) \in Nat
<1>1. IsFiniteSet(DOMAIN archive)
  <2>1. 1 \in Int /\ Len(archive) \in Int /\ DOMAIN archive = 1 .. Len(archive)
    BY ArchiveEntries
  <2> QED BY <2>1, FS_Interval
<1>2. ASSUME NEW A \in SUBSET DOMAIN archive PROVE IsFiniteSet(A) /\ Cardinality(A) \in Nat
  BY <1>1, FS_Subset, FS_CardinalityType
<1> QED BY <1>2 DEF UpTo, Before

\* A document comes after those before it.
LEMMA ComesAfter ==
  ASSUME TypeOK, NEW m \in Range(archive)
  PROVE  Before(m) + 1 <= UpTo(m)
<1> DEFINE B == {i \in DOMAIN archive : archive[i] < m}
           U == {i \in DOMAIN archive : archive[i] <= m}
<1>1. PICK j \in DOMAIN archive : archive[j] = m
  BY DEF Range
<1>2. \A i \in DOMAIN archive : archive[i] \in Nat
  BY ArchiveEntries
<1>3. B \cup {j} \subseteq U /\ j \notin B
  BY <1>1, <1>2
<1>4. IsFiniteSet(B) /\ IsFiniteSet(U) /\ Before(m) = Cardinality(B) /\ UpTo(m) = Cardinality(U)
  BY Places DEF Before, UpTo
<1>5. Before(m) \in Nat /\ UpTo(m) \in Nat
  BY Places
<1> HIDE DEF B, U
<1>6. Cardinality(B \cup {j}) = Cardinality(B) + 1
  BY <1>3, <1>4, FS_AddElement
<1>7. Cardinality(B \cup {j}) <= Cardinality(U)
  BY <1>3, <1>4, FS_Subset
<1> QED BY <1>4, <1>5, <1>6, <1>7

\* Whatever is not yet at the end of the archive, the next document is there.
LEMMA NextDocument ==
  ASSUME TypeOK, NEW m \in Range(archive), NEW k \in Nat, k < UpTo(m)
  PROVE  \E x \in Range(archive) : k < UpTo(x) /\ Before(x) <= k
<1> DEFINE T == {n \in Nat : k < UpTo(n)}
<1>1. m \in T
  <2>1. m \in Nat
    BY ArchiveEntries DEF Range
  <2> QED BY <2>1
<1>2. PICK n \in T : \A j \in T : n <= j
  <2> HIDE DEF T
  <2>1. T \subseteq Nat
    BY DEF T
  <2> QED BY <1>1, <2>1, Least
<1>3. n \in Nat /\ k < UpTo(n) /\ UpTo(n) \in Nat /\ Before(n) \in Nat
  BY Places
<1>4. \A i \in DOMAIN archive : archive[i] \in Nat /\ archive[i] >= 1
  BY ArchiveEntries
<1>5. n # 0
  <2> SUFFICES ASSUME n = 0 PROVE FALSE
    OBVIOUS
  <2>1. {i \in DOMAIN archive : archive[i] <= n} = {}
    BY <1>4
  <2>2. UpTo(n) = 0
    BY <2>1, FS_EmptySet DEF UpTo
  <2> QED BY <1>3, <2>2
<1>6. n - 1 \in Nat /\ ~(n <= n - 1)
  BY <1>3, <1>5
<1>7. UpTo(n - 1) <= k
  <2>1. n - 1 \notin T
    BY <1>2, <1>6
  <2>2. UpTo(n - 1) \in Nat
    BY Places
  <2> QED BY <1>6, <2>1, <2>2
<1>8. Before(n) = UpTo(n - 1)
  <2>1. {i \in DOMAIN archive : archive[i] < n} = {i \in DOMAIN archive : archive[i] <= n - 1}
    BY <1>3, <1>4
  <2> QED BY <2>1 DEF Before, UpTo
<1>9. n \in Range(archive)
  <2> SUFFICES ASSUME n \notin Range(archive) PROVE FALSE
    OBVIOUS
  <2>1. \A i \in DOMAIN archive : archive[i] # n
    BY DEF Range
  <2>2. {i \in DOMAIN archive : archive[i] < n} = {i \in DOMAIN archive : archive[i] <= n}
    BY <1>3, <1>4, <2>1
  <2>3. Before(n) = UpTo(n)
    BY <2>2 DEF Before, UpTo
  <2> QED BY <1>3, <1>7, <1>8, <2>3
<1> QED BY <1>3, <1>7, <1>8, <1>9

\* Documents only move back while the archive grows.
LEMMA UpToGrows ==
  ASSUME TypeOK, NEW q \in Seq(Chats), archive' = archive \o q, TypeOK', NEW m
  PROVE  UpTo(m) <= UpTo(m)'
<1> DEFINE U == {i \in DOMAIN archive : archive[i] <= m}
           V == {i \in DOMAIN archive' : archive'[i] <= m}
<1>1. archive \in Seq(Chats)
  BY DEF TypeOK
<1>2. DOMAIN archive \subseteq DOMAIN archive' /\ \A i \in DOMAIN archive : archive'[i] = archive[i]
  <2> DEFINE C == Chats
  <2>1. archive \in Seq(C) /\ q \in Seq(C)
    BY <1>1
  <2> HIDE DEF C
  <2> QED BY <2>1
<1>3. U \subseteq V
  BY <1>2
<1>4. IsFiniteSet(V)
  <2>1. archive' \in Seq(Chats')
    BY DEF TypeOK
  <2>2. 1 \in Int /\ Len(archive') \in Int /\ DOMAIN archive' = 1 .. Len(archive')
    BY <2>1
  <2>3. IsFiniteSet(DOMAIN archive')
    BY <2>2, FS_Interval
  <2>4. V \subseteq DOMAIN archive'
    OBVIOUS
  <2> QED BY <2>3, <2>4, FS_Subset
<1>5. UpTo(m) = Cardinality(U) /\ UpTo(m)' = Cardinality(V)
  BY DEF UpTo
<1> HIDE DEF U, V
<1> QED BY <1>3, <1>4, <1>5, FS_Subset

-----------------------------------------------------------------------------
(* The pages of a reader.                                                  *)

LEMMA PageProducts ==
  ASSUME NEW p \in Nat
  PROVE  /\ p * Limit \in Nat /\ (p + 1) * Limit = p * Limit + Limit
         /\ p # 0 => p * Limit >= Limit
<1>1. Limit \in Nat
  OBVIOUS
<1>2. \A k \in Nat : k * Limit \in Nat /\ (k + 1) * Limit = k * Limit + Limit
  BY <1>1
<1>3. ASSUME p # 0 PROVE p * Limit >= Limit
  <2>1. p - 1 \in Nat /\ (p - 1) + 1 = p
    BY <1>3
  <2>2. (p - 1) * Limit \in Nat /\ p * Limit = (p - 1) * Limit + Limit
    BY <1>2, <2>1
  <2> QED BY <1>1, <2>2
<1> QED BY <1>2, <1>3

LEMMA AtMostType ==
  ASSUME NEW n \in Nat
  PROVE  AtMost(n, Limit) \in Nat /\ AtMost(n, Limit) <= Limit /\ AtMost(n, Limit) <= n /\ Limit \in Nat
BY DEF AtMost

LEMMA SkipType ==
  ASSUME TypeOK, NEW r \in Readers
  PROVE  Skip(r) \in Nat
<1>1. page[r] \in Nat /\ count[r] \in Nat
  BY DEF TypeOK
<1>2. page[r] * Limit \in Nat /\ (page[r] # 0 => page[r] * Limit >= Limit)
  BY <1>1, PageProducts
<1>3. AtMost(count[r], Limit) \in Nat /\ AtMost(count[r], Limit) <= Limit /\ Limit \in Nat
  BY <1>1, AtMostType
<1> QED BY <1>2, <1>3 DEF Skip

\* A chat past the skip is on the page, or past the page, which is not empty.
LEMMA PageOrLater ==
  ASSUME TypeOK, NEW r \in Readers, NEW m \in Range(archive), Skip(r) < UpTo(m), m \notin Found(r)
  PROVE  Skip(r) + Limit < UpTo(m) /\ Found(r) # {}
<1>0. Limit \in Nat /\ Limit # 0
  OBVIOUS
<1>1. Skip(r) \in Nat /\ UpTo(m) \in Nat /\ Before(m) \in Nat
  BY SkipType, Places
<1>2. ~(Before(m) < Skip(r) + Limit)
  BY DEF Found
<1>3. Before(m) + 1 <= UpTo(m)
  BY ComesAfter
<1>4. PICK x \in Range(archive) : Skip(r) < UpTo(x) /\ Before(x) <= Skip(r)
  BY <1>1, NextDocument
<1>5. x \in Found(r)
  <2>1. Before(x) \in Nat
    BY Places
  <2>2. Before(x) < Skip(r) + Limit
    BY <1>0, <1>1, <1>4, <2>1
  <2> QED BY <1>4, <2>2 DEF Found
<1> QED BY <1>0, <1>1, <1>2, <1>3, <1>5

-----------------------------------------------------------------------------
(* The parts of the invariant.                                             *)

LEMMA TellersStep ==
  ASSUME TypeOK, TellersTold, [Next]_vars
  PROVE  TellersTold'
<1> DEFINE Goal == \A a \in Authors : apc'[a] = "tell" => mine'[a] \in Chats' /\ chan'[mine'[a]] = topic'[a]
<1>0. /\ apc \in [Authors -> {"idle", "push", "tell"}] /\ topic \in [Authors -> Channels]
      /\ mine \in [Authors -> 0 .. Len(chan)] /\ chan \in Seq(Channels) /\ Len(chan) \in Nat
      /\ \A a \in Authors : apc[a] = "tell" => mine[a] \in Chats /\ chan[mine[a]] = topic[a]
  BY DEF TypeOK, TellersTold
<1>1. ASSUME NEW a \in Authors, Push(a) PROVE Goal
  <2> DEFINE n == Len(chan) + 1
  <2>1. /\ apc' = [apc EXCEPT ![a] = "tell"] /\ topic' = topic
        /\ mine' = [mine EXCEPT ![a] = n] /\ chan' = Append(chan, topic[a])
    BY <1>1 DEF Push, AGoto
  <2>2. n \in Chats' /\ chan'[n] = topic[a]
    BY <1>0, <2>1 DEF Chats
  <2>3. \A m \in Chats : m \in Chats' /\ chan'[m] = chan[m]
    BY <1>0, <2>1 DEF Chats
  <2> HIDE DEF n
  <2> QED BY <1>0, <2>1, <2>2, <2>3
<1>2. ASSUME chan' = chan,
             \A a \in Authors : apc'[a] = "tell" =>
               apc[a] = "tell" /\ mine'[a] = mine[a] /\ topic'[a] = topic[a]
      PROVE  Goal
  BY <1>0, <1>2 DEF Chats
<1>3. ASSUME NEW a \in Authors, (\E c \in Channels : Say(a, c)) \/ Tell(a) \/ SayFails(a) PROVE Goal
  <2>1. chan' = chan
    BY <1>3 DEF Say, Tell, SayFails, store
  <2>2. \A b \in Authors : apc'[b] = "tell" =>
          apc[b] = "tell" /\ mine'[b] = mine[b] /\ topic'[b] = topic[b]
    BY <1>0, <1>3 DEF Say, Tell, SayFails, AGoto
  <2> HIDE DEF Goal
  <2> QED BY <1>2, <2>1, <2>2
<1>4. ASSUME \/ \E s \in Sweepers : SweepStep(s)
             \/ \E r \in Readers :
                  Join(r) \/ Count(r) \/ Take(r) \/ Query(r) \/ More(r) \/ ReadFails(r)
             \/ \E c \in Channels : Expire(c)
             \/ Crash
             \/ UNCHANGED vars
      PROVE  Goal
  <2>1. chan' = chan
    BY <1>4 DEF SweepStep, Start, Read, Save, SaveFails, Trim, SweepFails, Join, Count, Take,
                Query, More, ReadFails, Expire, Crash, vars, store
  <2>2. UNCHANGED authors \/ Crash
    BY <1>4 DEF SweepStep, Start, Read, Save, SaveFails, Trim, SweepFails, Join, Count, Take,
                Query, More, ReadFails, Expire, vars
  <2>3. \A b \in Authors : apc'[b] = "tell" =>
          apc[b] = "tell" /\ mine'[b] = mine[b] /\ topic'[b] = topic[b]
    BY <2>2 DEF authors, Crash
  <2> HIDE DEF Goal
  <2> QED BY <1>2, <2>1, <2>3
<1>5. Goal
  <2> HIDE DEF Goal
  <2> QED BY <1>1, <1>3, <1>4 DEF Next
<1> QED BY <1>5 DEF TellersTold, Chats

\* What a step does to a reader that it is not about.
LEMMA ReaderMoves ==
  ASSUME TypeOK, [Next]_vars, NEW r \in Readers
  PROVE  \/ Join(r) \/ Count(r) \/ Take(r) \/ Query(r) \/ More(r) \/ ReadFails(r)
         \/ Crash
         \/ /\ rpc'[r] = rpc[r] /\ page'[r] = page[r] /\ count'[r] = count[r]
            /\ seen'[r] = seen[r] /\ joined \subseteq joined'
<1>0. /\ rpc \in [Readers -> {"idle", "count", "take", "query", "more", "done", "failed"}]
      /\ page \in [Readers -> Nat] /\ count \in [Readers -> Nat]
      /\ seen \in [Readers -> SUBSET Chats]
  BY DEF TypeOK
<1> DEFINE Goal == /\ rpc'[r] = rpc[r] /\ page'[r] = page[r] /\ count'[r] = count[r]
                   /\ seen'[r] = seen[r] /\ joined \subseteq joined'
<1>1. ASSUME NEW t \in Readers, t # r,
             Join(t) \/ Count(t) \/ Take(t) \/ Query(t) \/ More(t) \/ ReadFails(t)
      PROVE  Goal
  BY <1>0, <1>1 DEF Join, Count, Take, Query, More, ReadFails, RGoto
<1>2. ASSUME \/ \E a \in Authors : (\E c \in Channels : Say(a, c)) \/ Push(a) \/ Tell(a) \/ SayFails(a)
             \/ \E s \in Sweepers : SweepStep(s)
             \/ \E c \in Channels : Expire(c)
             \/ UNCHANGED vars
      PROVE  Goal
  <2>1. UNCHANGED <<rpc, page, count, seen, joined>>
    BY <1>2 DEF Say, Push, Tell, SayFails, SweepStep, Start, Read, Save, SaveFails, Trim,
                SweepFails, Expire, vars, readers
  <2> QED BY <2>1
<1> HIDE DEF Goal
<1>3. \/ Join(r) \/ Count(r) \/ Take(r) \/ Query(r) \/ More(r) \/ ReadFails(r)
      \/ Crash \/ Goal
  BY <1>1, <1>2 DEF Next
<1> QED BY <1>3 DEF Goal

LEMMA ListenStep ==
  ASSUME TypeOK, ReadersListen, [Next]_vars
  PROVE  ReadersListen'
<1>0. /\ rpc \in [Readers -> {"idle", "count", "take", "query", "more", "done", "failed"}]
      /\ page \in [Readers -> Nat] /\ joined \subseteq Readers
  BY DEF TypeOK
<1> SUFFICES ASSUME NEW r \in Readers
             PROVE  /\ rpc'[r] \in {"count", "take", "query", "more"} => r \in joined'
                    /\ rpc'[r] \in {"idle", "take"} => page'[r] = 0
  BY DEF ReadersListen
<1>1. /\ rpc[r] \in {"count", "take", "query", "more"} => r \in joined
      /\ rpc[r] \in {"idle", "take"} => page[r] = 0
  BY DEF ReadersListen
<1>2. CASE Join(r) \/ Count(r)
  BY <1>0, <1>1, <1>2 DEF Join, Count, RGoto
<1>3. CASE Take(r) \/ Query(r) \/ More(r) \/ ReadFails(r)
  BY <1>0, <1>1, <1>3 DEF Take, Query, More, ReadFails, RGoto
<1>4. CASE Crash
  BY <1>4 DEF Crash
<1>5. CASE rpc'[r] = rpc[r] /\ page'[r] = page[r] /\ joined \subseteq joined'
  BY <1>1, <1>5
<1> QED BY <1>2, <1>3, <1>4, <1>5, ReaderMoves

\* Lists: a push adds to one, a trim and an expiry take away.
LEMMA ListMoves ==
  ASSUME TypeOK, [Next]_vars
  PROVE  \/ \E a \in Authors : Push(a)
         \/ \E s \in Sweepers : Trim(s)
         \/ \E c \in Channels : Expire(c)
         \/ UNCHANGED <<chan, list>>
BY StoreMoves DEF Save, SaveFails, store

LEMMA PushedList ==
  ASSUME TypeOK, NEW a \in Authors, Push(a)
  PROVE  LET c == topic[a] m == Len(chan) + 1
         IN  /\ c \in Channels /\ m \in Nat /\ Chats' = Chats \cup {m} /\ m \notin Chats
             /\ chan'[m] = c /\ \A n \in Chats : chan'[n] = chan[n]
             /\ Range(list'[c]) = Range(list[c]) \cup {m}
             /\ Len(list'[c]) = Len(list[c]) + 1
             /\ \A e \in Channels \ {c} : list'[e] = list[e]
<1> DEFINE c == topic[a]
           m == Len(chan) + 1
           q == list[c]
<1>1. /\ c \in Channels /\ chan' = Append(chan, c) /\ list' = [list EXCEPT ![c] = Append(@, m)]
  BY DEF Push, TypeOK
<1>2. /\ list \in [Channels -> Seq(Chats)] /\ chan \in Seq(Channels) /\ Len(chan) \in Nat
  BY DEF TypeOK
<1>3. /\ m \in Nat /\ Chats' = Chats \cup {m} /\ m \notin Chats
      /\ chan'[m] = c /\ \A n \in Chats : chan'[n] = chan[n]
  <2>1. /\ Len(chan') = Len(chan) + 1 /\ \A n \in 1 .. Len(chan) : chan'[n] = chan[n]
        /\ chan'[Len(chan) + 1] = c
    <3> HIDE DEF c
    <3> QED BY <1>1, <1>2
  <2>2. 1 .. Len(chan') = (1 .. Len(chan)) \cup {m}
    BY <1>2, <2>1
  <2> QED BY <1>2, <2>1, <2>2 DEF Chats
<1>4. q \in Seq(Nat) /\ m \in Nat
  <2> DEFINE C == Chats
  <2>1. q \in Seq(C) /\ C \subseteq Nat
    BY <1>1, <1>2 DEF Chats
  <2> HIDE DEF C, q
  <2> QED BY <1>3, <2>1, SeqWider
<1>5. list'[c] = Append(q, m) /\ \A e \in Channels \ {c} : list'[e] = list[e]
  BY <1>1, <1>2
<1>6. Range(Append(q, m)) = Range(q) \cup {m} /\ Len(Append(q, m)) = Len(q) + 1
  <2> HIDE DEF q, m
  <2>1. Len(Append(q, m)) = Len(q) + 1
    BY <1>4
  <2> QED BY <1>4, <2>1, RangeAppend
<1> HIDE DEF m, c
<1>7. /\ c \in Channels /\ m \in Nat /\ Chats' = Chats \cup {m} /\ m \notin Chats
      /\ chan'[m] = c /\ \A n \in Chats : chan'[n] = chan[n]
      /\ Range(list'[c]) = Range(list[c]) \cup {m} /\ Len(list'[c]) = Len(list[c]) + 1
      /\ \A e \in Channels \ {c} : list'[e] = list[e]
  BY <1>1, <1>3, <1>5, <1>6
<1> QED BY <1>7 DEF m, c

LEMMA TrimmedList ==
  ASSUME TypeOK, NEW s \in Sweepers, Trim(s)
  PROVE  LET c == SweepOrder[spos[s]]
         IN  /\ c \in Channels /\ chan' = chan
             /\ Range(list'[c]) \subseteq Range(list[c])
             /\ Len(list'[c]) >= Retain \/ list'[c] = list[c]
             /\ \A e \in Channels \ {c} : list'[e] = list[e]
<1> DEFINE c == SweepOrder[spos[s]]
<1>1. c \in Channels
  BY DEF TypeOK
<1>2. list \in [Channels -> Seq(Chats)]
  BY DEF TypeOK
<1>3. list' = [list EXCEPT ![c] = Kept(list[c])] /\ chan' = chan
  BY DEF Trim, Kept
<1> HIDE DEF c
<1>4. list'[c] = Kept(list[c]) /\ \A e \in Channels \ {c} : list'[e] = list[e]
  BY <1>1, <1>2, <1>3
<1>5. /\ Range(Kept(list[c])) \subseteq Range(list[c])
      /\ Len(Kept(list[c])) >= Retain \/ Kept(list[c]) = list[c]
  <2> DEFINE C == Chats
             q == list[c]
  <2>1. q \in Seq(C) /\ C \in SUBSET Nat
    BY <1>1, <1>2 DEF Chats
  <2> HIDE DEF C, q
  <2>2. Range(q) = Range(Kept(q)) \cup TrimmedOff(q)
    BY <2>1, KeptType
  <2>3. Len(Kept(q)) >= Retain \/ Kept(q) = q
    <3>1. CASE Len(q) > Retain
      <4> DEFINE n == Len(q) - Retain
      <4>1. Len(q) \in Nat /\ Retain \in Nat /\ n \in 0 .. Len(q) /\ Len(q) - n = Retain
        BY <2>1, <3>1
      <4>2. Kept(q) = SubSeq(q, n + 1, Len(q))
        BY <3>1 DEF Kept
      <4> HIDE DEF n
      <4>3. Len(Kept(q)) = Retain
        BY <2>1, <4>1, <4>2, SuffixType
      <4> QED BY <4>1, <4>3
    <3>2. CASE ~(Len(q) > Retain)
      BY <3>2 DEF Kept
    <3> QED BY <3>1, <3>2
  <2> QED BY <2>2, <2>3 DEF q
<1>6. /\ c \in Channels /\ chan' = chan
      /\ Range(list'[c]) \subseteq Range(list[c])
      /\ Len(list'[c]) >= Retain \/ list'[c] = list[c]
      /\ \A e \in Channels \ {c} : list'[e] = list[e]
  BY <1>1, <1>3, <1>4, <1>5
<1> QED BY <1>6 DEF c

LEMMA ChannelStep ==
  ASSUME TypeOK, ListsByChannel, [Next]_vars
  PROVE  ListsByChannel'
<1> SUFFICES ASSUME NEW d \in Channels, NEW n \in Range(list'[d])
             PROVE  n \in Chats' /\ chan'[n] = d
  BY DEF ListsByChannel, ChatsOf, Chats
<1>1. \A e \in Channels : \A k \in Range(list[e]) : k \in Chats /\ chan[k] = e
  BY DEF ListsByChannel, ChatsOf
<1>2. ASSUME NEW a \in Authors, Push(a) PROVE n \in Chats' /\ chan'[n] = d
  <2> DEFINE c == topic[a]
             m == Len(chan) + 1
  <2>1. /\ c \in Channels /\ Chats' = Chats \cup {m}
        /\ chan'[m] = c /\ \A k \in Chats : chan'[k] = chan[k]
        /\ Range(list'[c]) = Range(list[c]) \cup {m}
        /\ \A e \in Channels \ {c} : list'[e] = list[e]
    BY <1>2, PushedList
  <2> HIDE DEF c, m
  <2> QED BY <1>1, <2>1
<1>3. ASSUME NEW s \in Sweepers, Trim(s) PROVE n \in Chats' /\ chan'[n] = d
  <2> DEFINE c == SweepOrder[spos[s]]
  <2>1. /\ c \in Channels /\ chan' = chan /\ Range(list'[c]) \subseteq Range(list[c])
        /\ \A e \in Channels \ {c} : list'[e] = list[e]
    BY <1>3, TrimmedList
  <2> HIDE DEF c
  <2> QED BY <1>1, <2>1 DEF Chats
<1>4. ASSUME NEW c \in Channels, Expire(c) PROVE n \in Chats' /\ chan'[n] = d
  <2>1. chan' = chan /\ list' = [list EXCEPT ![c] = <<>>]
    BY <1>4 DEF Expire
  <2>2. d # c
    <3>1. Range(<<>>) = {}
      BY DEF Range
    <3> QED BY <2>1, <3>1 DEF TypeOK
  <2>3. list'[d] = list[d]
    BY <2>1, <2>2 DEF TypeOK
  <2> QED BY <1>1, <2>1, <2>3 DEF Chats
<1>5. CASE UNCHANGED <<chan, list>>
  BY <1>1, <1>5 DEF Chats
<1> QED BY <1>2, <1>3, <1>4, <1>5, ListMoves

\* While nothing expires.
LEMMA CountsStep ==
  ASSUME TypeOK, CountsLow, [Next]_vars, expiries' = 0, expiries = 0
  PROVE  CountsLow'
<1> SUFFICES ASSUME NEW r \in Readers PROVE AtMost(count'[r], Limit) <= Len(list'[ReadChannel])
  BY DEF CountsLow, AtMost
<1>1. /\ count \in [Readers -> Nat] /\ Len(list[ReadChannel]) \in Nat
      /\ AtMost(count[r], Limit) <= Len(list[ReadChannel])
      /\ AtMost(count[r], Limit) \in Nat /\ AtMost(count[r], Limit) <= Limit
      /\ Limit \in Nat /\ Limit <= Retain /\ Retain \in Nat
  <2>1. Len(list[ReadChannel]) \in Nat /\ count \in [Readers -> Nat]
    BY DEF TypeOK
  <2>2. AtMost(count[r], Limit) \in Nat /\ AtMost(count[r], Limit) <= Limit
    BY <2>1, AtMostType
  <2>3. Limit \in Nat /\ Limit <= Retain /\ Retain \in Nat
    OBVIOUS
  <2> QED BY <2>1, <2>2, <2>3 DEF CountsLow
<1>2. CASE Count(r)
  <2>1. count'[r] = Len(list[ReadChannel]) /\ list' = list
    BY <1>1, <1>2 DEF Count, store
  <2> QED BY <1>1, <2>1, AtMostType
<1>3. CASE count'[r] = count[r]
  <2>1. ASSUME NEW a \in Authors, Push(a) PROVE Len(list'[ReadChannel]) >= Len(list[ReadChannel])
    <3> DEFINE c == topic[a]
    <3>1. Len(list'[c]) = Len(list[c]) + 1 /\ \A e \in Channels \ {c} : list'[e] = list[e]
      BY <2>1, PushedList
    <3> HIDE DEF c
    <3> QED BY <1>1, <3>1
  <2>2. ASSUME NEW s \in Sweepers, Trim(s)
        PROVE  Len(list'[ReadChannel]) >= Retain \/ list'[ReadChannel] = list[ReadChannel]
    <3> DEFINE c == SweepOrder[spos[s]]
    <3>1. /\ Len(list'[c]) >= Retain \/ list'[c] = list[c]
          /\ \A e \in Channels \ {c} : list'[e] = list[e]
      BY <2>2, TrimmedList
    <3> HIDE DEF c
    <3> QED BY <3>1
  <2>3. \A c \in Channels : ~Expire(c)
    BY DEF Expire
  <2>4. Len(list'[ReadChannel]) \in Nat
    BY ListTypes
  <2>5. CASE Len(list'[ReadChannel]) >= Len(list[ReadChannel])
    BY <1>1, <1>3, <2>4, <2>5
  <2>6. CASE Len(list'[ReadChannel]) >= Retain
    BY <1>1, <1>3, <2>4, <2>6
  <2>7. UNCHANGED list => Len(list'[ReadChannel]) >= Len(list[ReadChannel])
    BY <1>1
  <2> QED BY <1>1, <2>1, <2>2, <2>3, <2>5, <2>6, <2>7, ListMoves
<1>4. count'[r] = count[r] \/ Count(r)
  BY ReaderMoves DEF Join, Take, Query, More, ReadFails, Crash
<1> QED BY <1>2, <1>3, <1>4

LEMMA BatchStep ==
  ASSUME OneSweeper, TypeOK, BatchOnList, [Next]_vars, expiries' = 0, expiries = 0
  PROVE  BatchOnList'
<1> SUFFICES ASSUME NEW t \in Sweepers, spc'[t] = "save"
             PROVE  Range(batch'[t]) \subseteq Range(list'[SweepOrder[spos'[t]]])
  BY DEF BatchOnList
<1>1. \A c \in Channels : ~Expire(c)
  BY DEF Expire
<1>2. /\ spc \in [Sweepers -> {"idle", "read", "save", "trim"}]
      /\ spos \in [Sweepers -> 1 .. Len(SweepOrder)] /\ batch \in [Sweepers -> Seq(Chats)]
      /\ \A s \in Sweepers : SweepOrder[spos[s]] \in Channels
  <2>1. /\ spc \in [Sweepers -> {"idle", "read", "save", "trim"}]
        /\ spos \in [Sweepers -> 1 .. Len(SweepOrder)] /\ batch \in [Sweepers -> Seq(Chats)]
    BY DEF TypeOK
  <2>2. SweepOrder \in Seq(Channels)
    OBVIOUS
  <2> QED BY <2>1, <2>2
<1>3. \A s \in Sweepers : s = t
  BY DEF OneSweeper
<1>4. CASE Read(t)
  <2> DEFINE q == list[SweepOrder[spos[t]]]
             n == Len(q) - Retain
  <2>1. ~Advance(t)
    BY AdvanceTypes
  <2>2. /\ batch' = [batch EXCEPT ![t] = Prefix(q, n)] /\ spos' = spos
        /\ n \in 1 .. Len(q) /\ q \in Seq(Chats)
    BY <1>4, <2>1, ReadBatch
  <2>3. list' = list
    BY <1>4 DEF Read, store
  <2>4. Range(Prefix(q, n)) \subseteq Range(q)
    <3> DEFINE C == Chats
    <3>1. q \in Seq(C) /\ n \in 0 .. Len(q)
      BY <2>2
    <3> HIDE DEF C, q, n
    <3>2. Range(Prefix(q, n)) = {q[i] : i \in 1 .. n}
      BY <3>1, PrefixType
    <3>3. Range(q) = {q[i] : i \in 1 .. Len(q)} /\ 1 .. n \subseteq 1 .. Len(q)
      BY <3>1, RangeEquality
    <3> QED BY <3>2, <3>3
  <2>5. batch'[t] = Prefix(q, n)
    BY <1>2, <2>2
  <2> QED BY <2>2, <2>3, <2>4, <2>5
<1>5. CASE UNCHANGED sweeps
  <2>1. spc[t] = "save" /\ batch'[t] = batch[t] /\ spos'[t] = spos[t]
    BY <1>5 DEF sweeps
  <2> DEFINE d == SweepOrder[spos[t]]
  <2>2. Range(batch[t]) \subseteq Range(list[d]) /\ d \in Channels
    BY <1>2, <2>1 DEF BatchOnList
  <2>3. Range(list[d]) \subseteq Range(list'[d])
    <3>1. ASSUME NEW a \in Authors, Push(a) PROVE Range(list[d]) \subseteq Range(list'[d])
      <4> DEFINE c == topic[a]
                 m == Len(chan) + 1
      <4>1. /\ Range(list'[c]) = Range(list[c]) \cup {m}
            /\ \A e \in Channels \ {c} : list'[e] = list[e]
        BY <3>1, PushedList
      <4> HIDE DEF c, m, d
      <4> QED BY <2>2, <4>1
    <3>2. ASSUME NEW s \in Sweepers, Trim(s) PROVE FALSE
      BY <1>3, <2>1, <3>2 DEF Trim
    <3> QED BY <1>1, <3>1, <3>2, ListMoves
  <2> QED BY <2>1, <2>2, <2>3
<1>6. ~Crash
  BY DEF Crash
<1>7. ~Start(t) /\ ~Save(t) /\ ~SaveFails(t) /\ ~SweepFails(t)
  BY <1>2 DEF Start, Save, SaveFails, SweepFails
<1>8. ~Trim(t)
  BY AdvanceTypes DEF Trim
<1> QED BY <1>3, <1>4, <1>5, <1>6, <1>7, <1>8, SweepMoves DEF SweepStep

-----------------------------------------------------------------------------
(* What only grows while nothing expires.                                  *)

LEMMA ArchiveMoves ==
  ASSUME TypeOK, [Next]_vars
  PROVE  \/ archive' = archive
         \/ \E s \in Sweepers : \E q \in Seq(Chats) :
              /\ spc[s] = "save" /\ Range(q) \subseteq Range(batch[s])
              /\ archive' = archive \o q /\ UNCHANGED <<chan, list>>
<1> DEFINE C == Chats
           Goal == \E s \in Sweepers : \E q \in Seq(C) :
                     /\ spc[s] = "save" /\ Range(q) \subseteq Range(batch[s])
                     /\ archive' = archive \o q /\ UNCHANGED <<chan, list>>
<1>0. batch \in [Sweepers -> Seq(C)]
  BY DEF TypeOK
<1>1. ASSUME NEW s \in Sweepers, Save(s) PROVE Goal
  <2>1. /\ spc[s] = "save" /\ archive' = archive \o batch[s] /\ UNCHANGED <<chan, list>>
    BY <1>1 DEF Save
  <2> HIDE DEF C
  <2> QED BY <1>0, <2>1
<1>2. ASSUME NEW s \in Sweepers, SaveFails(s) PROVE Goal
  <2>1. PICK n \in 0 .. Len(batch[s]) - 1 : archive' = archive \o Prefix(batch[s], n)
    BY <1>2 DEF SaveFails
  <2>2. spc[s] = "save" /\ UNCHANGED <<chan, list>>
    BY <1>2 DEF SaveFails
  <2> DEFINE b == batch[s]
  <2>3. b \in Seq(C)
    BY <1>0
  <2>4. Prefix(b, n) \in Seq(C) /\ Range(Prefix(b, n)) \subseteq Range(b)
    <3> HIDE DEF C, b
    <3>1. Len(b) \in Nat
      BY <2>3
    <3>2. n \in 0 .. Len(b) /\ 1 .. n \subseteq 1 .. Len(b)
      BY <3>1, <2>1 DEF b
    <3>3. Prefix(b, n) \in Seq(C) /\ Range(Prefix(b, n)) = {b[i] : i \in 1 .. n}
      BY <2>3, <3>2, PrefixType
    <3>4. Range(b) = {b[i] : i \in 1 .. Len(b)}
      BY <2>3, RangeEquality
    <3> QED BY <3>2, <3>3, <3>4
  <2> HIDE DEF C
  <2> QED BY <2>1, <2>2, <2>4
<1>3. ASSUME \/ \E a \in Authors : Push(a)
             \/ \E s \in Sweepers : Trim(s)
             \/ \E c \in Channels : Expire(c)
             \/ UNCHANGED <<store, debt>>
      PROVE  archive' = archive
  BY <1>3 DEF Push, Trim, Expire, store
<1>4. archive' = archive \/ Goal
  <2> HIDE DEF Goal
  <2> QED BY <1>1, <1>2, <1>3, StoreMoves
<1> QED BY <1>4

LEMMA PlacesGrow ==
  ASSUME TypeOK, TypeOK', [Next]_vars, NEW m
  PROVE  /\ UpTo(m) <= UpTo(m)' /\ UpTo(m) \in Nat /\ UpTo(m)' \in Nat
         /\ Range(archive) \subseteq Range(archive')
<1>1. UpTo(m) \in Nat
  BY Places
<1>2. UpTo(m)' \in Nat
  <2>1. IsFiniteSet(DOMAIN archive')
    <3>1. archive' \in Seq(Chats')
      BY DEF TypeOK
    <3>2. 1 \in Int /\ Len(archive') \in Int /\ DOMAIN archive' = 1 .. Len(archive')
      BY <3>1
    <3> QED BY <3>2, FS_Interval
  <2>2. {i \in DOMAIN archive' : archive'[i] <= m} \in SUBSET DOMAIN archive'
    OBVIOUS
  <2> QED BY <2>1, <2>2, FS_Subset, FS_CardinalityType DEF UpTo
<1>3. CASE archive' = archive
  <2>1. UpTo(m)' = UpTo(m)
    BY <1>3 DEF UpTo
  <2> QED BY <1>1, <1>3, <2>1
<1>4. CASE \E q \in Seq(Chats) : archive' = archive \o q
  <2>1. PICK q \in Seq(Chats) : archive' = archive \o q
    BY <1>4
  <2>2. UpTo(m) <= UpTo(m)'
    BY <2>1, UpToGrows
  <2>3. Range(archive) \subseteq Range(archive')
    <3> DEFINE C == Chats
    <3>1. archive \in Seq(C) /\ q \in Seq(C)
      BY DEF TypeOK
    <3> HIDE DEF C
    <3>2. Range(archive \o q) = Range(archive) \cup Range(q)
      BY <3>1, RangeConcatenation
    <3> QED BY <2>1, <3>2
  <2> QED BY <1>1, <1>2, <2>2, <2>3
<1> QED BY <1>3, <1>4, ArchiveMoves

LEMMA ShownGrows ==
  ASSUME TypeOK, [Next]_vars, NEW r \in Readers
  PROVE  seen[r] \subseteq seen'[r] /\ heard[r] \subseteq heard'[r] /\ refused \subseteq refused'
<1>0. seen \in [Readers -> SUBSET Chats] /\ heard \in [Readers -> SUBSET Chats]
  BY DEF TypeOK
<1>1. seen[r] \subseteq seen'[r]
  <2>1. Take(r) \/ Query(r) => seen[r] \subseteq seen'[r]
    BY <1>0 DEF Take, Query
  <2>2. Join(r) \/ Count(r) \/ More(r) \/ ReadFails(r) \/ Crash => seen' = seen
    BY DEF Join, Count, More, ReadFails, Crash
  <2> QED BY <2>1, <2>2, ReaderMoves
<1>2. ASSUME NEW a \in Authors, Tell(a)
      PROVE  heard[r] \subseteq heard'[r] /\ refused \subseteq refused'
  BY <1>2 DEF Tell
<1>3. ASSUME NEW a \in Authors, SayFails(a)
      PROVE  heard[r] \subseteq heard'[r] /\ refused \subseteq refused'
  BY <1>3 DEF SayFails, readers
<1>4. ASSUME \/ \E a \in Authors : (\E c \in Channels : Say(a, c)) \/ Push(a)
             \/ \E s \in Sweepers : SweepStep(s)
             \/ \E t \in Readers :
                  Join(t) \/ Count(t) \/ Take(t) \/ Query(t) \/ More(t) \/ ReadFails(t)
             \/ \E c \in Channels : Expire(c)
             \/ Crash
             \/ UNCHANGED vars
      PROVE  UNCHANGED <<heard, refused>>
  BY <1>4 DEF Say, Push, SweepStep, Start, Read, Save, SaveFails, Trim, SweepFails, Join, Count,
              Take, Query, More, ReadFails, Expire, Crash, vars, readers
<1>5. heard[r] \subseteq heard'[r] /\ refused \subseteq refused'
  BY <1>2, <1>3, <1>4 DEF Next
<1> QED BY <1>1, <1>5

\* With one sweep at a time, a chat that is in neither store stays so.
LEMMA LostStays ==
  ASSUME TypeOK, ListsByChannel, BatchOnList, [Next]_vars, expiries' = expiries,
         NEW c \in Channels, NEW m \in Lost(c)
  PROVE  m \in Lost(c)'
<1>1. m \in Chats /\ chan[m] = c /\ m \notin Range(list[c]) /\ m \notin Range(archive)
  BY DEF Lost, ChatsOf
<1>2. \A d \in Channels : ~Expire(d)
  BY DEF Expire, TypeOK
<1>3. m \in Chats' /\ chan'[m] = c /\ m \notin Range(list'[c])
  <2>1. ASSUME NEW a \in Authors, Push(a)
        PROVE  m \in Chats' /\ chan'[m] = c /\ m \notin Range(list'[c])
    <3> DEFINE d == topic[a]
               n == Len(chan) + 1
    <3>1. /\ Chats' = Chats \cup {n} /\ n \notin Chats /\ \A k \in Chats : chan'[k] = chan[k]
          /\ Range(list'[d]) = Range(list[d]) \cup {n}
          /\ \A e \in Channels \ {d} : list'[e] = list[e]
      BY <2>1, PushedList
    <3> HIDE DEF d, n
    <3> QED BY <1>1, <3>1
  <2>2. ASSUME NEW s \in Sweepers, Trim(s)
        PROVE  m \in Chats' /\ chan'[m] = c /\ m \notin Range(list'[c])
    <3> DEFINE d == SweepOrder[spos[s]]
    <3>1. /\ chan' = chan /\ Range(list'[d]) \subseteq Range(list[d])
          /\ \A e \in Channels \ {d} : list'[e] = list[e]
      BY <2>2, TrimmedList
    <3> HIDE DEF d
    <3> QED BY <1>1, <3>1 DEF Chats
  <2>3. UNCHANGED <<chan, list>> => m \in Chats' /\ chan'[m] = c /\ m \notin Range(list'[c])
    BY <1>1 DEF Chats
  <2> QED BY <1>2, <2>1, <2>2, <2>3, ListMoves
<1>4. m \notin Range(archive')
  <2>1. ASSUME NEW s \in Sweepers, NEW q \in Seq(Chats), spc[s] = "save",
               Range(q) \subseteq Range(batch[s]), archive' = archive \o q
        PROVE  m \notin Range(archive')
    <3> DEFINE d == SweepOrder[spos[s]]
    <3>a. d \in Channels
      <4>1. spos[s] \in 1 .. Len(SweepOrder) /\ SweepOrder \in Seq(Channels)
        BY DEF TypeOK
      <4> QED BY <4>1
    <3>b. Range(batch[s]) \subseteq Range(list[d])
      BY <2>1 DEF BatchOnList
    <3>1. d \in Channels /\ Range(q) \subseteq Range(list[d])
      BY <2>1, <3>a, <3>b
    <3>2. m \notin Range(list[d])
      BY <1>1, <3>1 DEF ListsByChannel, ChatsOf
    <3>3. Range(archive') = Range(archive) \cup Range(q)
      <4> DEFINE C == Chats
      <4>1. archive \in Seq(C) /\ q \in Seq(C)
        BY DEF TypeOK
      <4> HIDE DEF C
      <4>2. Range(archive \o q) = Range(archive) \cup Range(q)
        BY <4>1, RangeConcatenation
      <4> QED BY <2>1, <4>2
    <3> QED BY <1>1, <3>1, <3>2, <3>3
  <2> QED BY <1>1, <2>1, ArchiveMoves
<1> QED BY <1>3, <1>4 DEF Lost, ChatsOf

-----------------------------------------------------------------------------
(* Every chat of the channel is shown, cannot be, or is still ahead.       *)

\* What an author has pushed and not told is told to every paging reader, or
\* its author hears that it failed.
LEMMA ToldStep ==
  ASSUME TypeOK, TellersTold, ReadersListen, [Next]_vars, NEW r \in Readers,
         Paging(r), Paging(r)', NEW m \in ChatsOf(ReadChannel), m \in BeingTold
  PROVE  m \in BeingTold' \cup heard'[r] \cup refused'
<1>1. PICK a \in Authors : apc[a] = "tell" /\ mine[a] = m
  BY DEF BeingTold
<1>2. r \in joined
  BY DEF Paging, ReadersListen
<1>3. topic[a] = ReadChannel
  BY <1>1 DEF TellersTold, ChatsOf
<1>4. Tell(a) => m \in heard'[r]
  BY <1>1, <1>2, <1>3 DEF Tell
<1>5. SayFails(a) => m \in refused'
  BY <1>1 DEF SayFails
<1>6. ~Crash
  BY DEF Paging, Crash
<1>7. ASSUME apc'[a] = "tell", mine'[a] = m PROVE m \in BeingTold'
  BY <1>7 DEF BeingTold
<1>8. ASSUME NEW b \in Authors, b # a,
             (\E c \in Channels : Say(b, c)) \/ Push(b) \/ Tell(b) \/ SayFails(b)
      PROVE  apc'[a] = "tell" /\ mine'[a] = m
  BY <1>1, <1>8 DEF Say, Push, Tell, SayFails, AGoto, TypeOK
<1>9. ASSUME \/ \E s \in Sweepers : SweepStep(s)
             \/ \E t \in Readers :
                  Join(t) \/ Count(t) \/ Take(t) \/ Query(t) \/ More(t) \/ ReadFails(t)
             \/ \E c \in Channels : Expire(c)
             \/ UNCHANGED vars
      PROVE  apc'[a] = "tell" /\ mine'[a] = m
  <2>1. UNCHANGED authors
    BY <1>9 DEF SweepStep, Start, Read, Save, SaveFails, Trim, SweepFails, Join, Count, Take,
                Query, More, ReadFails, Expire, vars
  <2> QED BY <1>1, <2>1 DEF authors
<1>10. ~Push(a) /\ \A c \in Channels : ~Say(a, c)
  BY <1>1 DEF Push, Say
<1> QED BY <1>4, <1>5, <1>6, <1>7, <1>8, <1>9, <1>10 DEF Next

\* A reader's pages are never sure to have passed more than they show.
LEMMA PassedStep ==
  ASSUME TypeOK, CountsLow, [Next]_vars, NEW r \in Readers, Paging(r), Paging(r)', ~Query(r)
  PROVE  Passed(r) \in Nat /\ Passed(r)' \in Nat /\ Passed(r)' <= Passed(r)
<1> DEFINE k == AtMost(count[r], Limit)
           l == AtMost(Len(list[ReadChannel]), Limit)
           p == page[r]
<1>1. /\ rpc \in [Readers -> {"idle", "count", "take", "query", "more", "done", "failed"}]
      /\ page \in [Readers -> Nat] /\ count \in [Readers -> Nat] /\ p \in Nat
      /\ Len(list[ReadChannel]) \in Nat
  BY DEF TypeOK
<1>2. /\ k \in Nat /\ k <= Limit /\ l \in Nat /\ l <= Limit /\ Limit \in Nat
      /\ k <= Len(list[ReadChannel])
  BY <1>1, AtMostType DEF CountsLow
<1>3. k <= l
  BY <1>1, <1>2 DEF AtMost
<1>4. /\ p * Limit \in Nat /\ (p + 1) * Limit = p * Limit + Limit
      /\ p # 0 => p * Limit >= Limit
  BY <1>1, PageProducts
<1>5. CASE Count(r)
  <2>1. rpc[r] = "count" /\ p # 0
    BY <1>5 DEF Paging, Count
  <2>2. count'[r] = Len(list[ReadChannel]) /\ page'[r] = p /\ rpc'[r] = "query"
    BY <1>1, <1>5, <2>1 DEF Count, RGoto
  <2>3. Passed(r) = p * Limit - k
    BY <2>1 DEF Passed, Skip
  <2>4. Passed(r)' = p * Limit - l
    BY <2>1, <2>2 DEF Passed, Skip, AtMost
  <2> HIDE DEF k, l, p
  <2> QED BY <1>2, <1>3, <1>4, <2>1, <2>3, <2>4
<1>6. CASE More(r)
  <2>1. rpc[r] = "more" /\ rpc'[r] = "count" /\ page'[r] = p + 1 /\ count'[r] = count[r]
    BY <1>1, <1>6 DEF More, RGoto
  <2>2. Passed(r) = (p + 1) * Limit - k
    BY <2>1 DEF Passed
  <2>3. p + 1 # 0
    BY <1>1
  <2>4. Passed(r)' = (p + 1) * Limit - k
    BY <2>1, <2>3 DEF Passed, Skip, AtMost
  <2> HIDE DEF k, l, p
  <2> QED BY <1>2, <1>4, <2>2, <2>4
<1>7. CASE rpc'[r] = rpc[r] /\ page'[r] = page[r] /\ count'[r] = count[r]
  <2>1. Passed(r)' = Passed(r)
    BY <1>7 DEF Passed, Skip, AtMost
  <2>2. Passed(r) \in Nat
    <3>1. CASE rpc[r] = "more"
      <4>1. Passed(r) = (p + 1) * Limit - k
        BY <3>1 DEF Passed
      <4> HIDE DEF k, p
      <4> QED BY <1>2, <1>4, <4>1
    <3>2. CASE rpc[r] # "more"
      BY <3>2, SkipType DEF Passed
    <3> QED BY <3>1, <3>2
  <2> QED BY <2>1, <2>2
<1>8. ~Join(r) /\ ~Take(r) /\ ~ReadFails(r) /\ ~Crash
  BY <1>1 DEF Paging, Join, Take, ReadFails, Crash, RGoto
<1> QED BY <1>5, <1>6, <1>7, <1>8, ReaderMoves

LEMMA AheadStep ==
  ASSUME TypeOK, TypeOK', CountsLow, [Next]_vars, NEW r \in Readers, Paging(r), Paging(r)',
         NEW m \in Ahead(r)
  PROVE  m \in seen'[r] \cup Ahead(r)'
<1>1. /\ UpTo(m) \in Nat /\ UpTo(m)' \in Nat /\ UpTo(m) <= UpTo(m)'
      /\ m \in Range(archive) /\ m \in Range(archive') /\ Passed(r) < UpTo(m)
  BY PlacesGrow DEF Ahead
<1>2. CASE ~Query(r)
  <2>1. Passed(r) \in Nat /\ Passed(r)' \in Nat /\ Passed(r)' <= Passed(r)
    BY <1>2, PassedStep
  <2>2. Passed(r)' < UpTo(m)'
    BY <1>1, <2>1
  <2> QED BY <1>1, <2>2 DEF Ahead
<1>3. CASE Query(r)
  <2>1. /\ rpc[r] = "query" /\ rpc'[r] = "more" /\ page' = page /\ count' = count
        /\ seen'[r] = seen[r] \cup Found(r)
    BY <1>3 DEF Query, RGoto, Paging, TypeOK
  <2>2. Passed(r) = Skip(r)
    BY <2>1 DEF Passed
  <2>3. CASE m \in Found(r)
    BY <2>1, <2>3
  <2>4. CASE m \notin Found(r)
    <3> DEFINE k == AtMost(count[r], Limit)
               p == page[r]
    <3>1. Skip(r) + Limit < UpTo(m) /\ Skip(r) \in Nat
      BY <1>1, <2>2, <2>4, PageOrLater, SkipType
    <3>2. p \in Nat /\ k \in Nat /\ k <= Limit /\ Limit \in Nat
      BY AtMostType DEF TypeOK
    <3>3. p * Limit \in Nat /\ (p + 1) * Limit = p * Limit + Limit
      BY <3>2, PageProducts
    <3>4. Skip(r) = IF p = 0 THEN 0 ELSE p * Limit - k
      BY DEF Skip
    <3>5. Passed(r)' = (p + 1) * Limit - k
      BY <2>1 DEF Passed, AtMost
    <3>6. p = 0 => p * Limit = 0
      BY <3>2
    <3>7. Passed(r)' < UpTo(m)'
      <4> HIDE DEF k, p
      <4> QED BY <1>1, <3>1, <3>2, <3>3, <3>4, <3>5, <3>6
    <3> QED BY <1>1, <3>7 DEF Ahead
  <2> QED BY <2>3, <2>4
<1> QED BY <1>2, <1>3

\* Page 0 shows the list, and the archive is all ahead.
LEMMA TakeStep ==
  ASSUME TypeOK, ReadersListen, NEW r \in Readers, Take(r),
         NEW m \in ChatsOf(ReadChannel), m \notin Lost(ReadChannel)
  PROVE  m \in seen'[r] \cup Ahead(r)'
<1>1. /\ rpc[r] = "take" /\ page[r] = 0 /\ page' = page /\ count' = count /\ archive' = archive
      /\ seen'[r] = seen[r] \cup Range(list[ReadChannel])
      /\ rpc'[r] = IF count[r] < Limit THEN "query" ELSE "more"
  BY DEF Take, RGoto, ReadersListen, TypeOK, store
<1>2. CASE m \in Range(list[ReadChannel])
  BY <1>1, <1>2
<1>3. CASE m \in Range(archive)
  <2>1. Before(m) + 1 <= UpTo(m) /\ Before(m) \in Nat /\ UpTo(m) \in Nat
    BY <1>3, ComesAfter, Places
  <2>2. UpTo(m)' = UpTo(m)
    BY <1>1 DEF UpTo
  <2>3. Passed(r)' = 0
    <3>1. CASE count[r] < Limit
      BY <1>1, <3>1 DEF Passed, Skip
    <3>2. CASE ~(count[r] < Limit)
      <4>1. AtMost(count[r], Limit) = Limit /\ Limit \in Nat
        BY <3>2 DEF AtMost
      <4>2. Passed(r)' = (0 + 1) * Limit - Limit
        BY <1>1, <3>2, <4>1 DEF Passed, AtMost
      <4> QED BY <4>1, <4>2
    <3> QED BY <3>1, <3>2
  <2> QED BY <1>1, <1>3, <2>1, <2>2, <2>3 DEF Ahead
<1> QED BY <1>2, <1>3 DEF Lost

LEMMA ExpiriesGrow == TypeOK /\ [Next]_vars /\ expiries' = 0 => expiries = 0
<1> SUFFICES ASSUME TypeOK, [Next]_vars, expiries' = 0 PROVE expiries = 0
  OBVIOUS
<1>1. ASSUME NEW c \in Channels, Expire(c) PROVE FALSE
  BY <1>1 DEF Expire, TypeOK
<1>2. ASSUME \E a \in Authors : (\E c \in Channels : Say(a, c)) \/ Push(a) \/ Tell(a) \/ SayFails(a)
      PROVE  expiries' = expiries
  BY <1>2 DEF Say, Push, Tell, SayFails, Fault, bounds
<1>3. ASSUME \E s \in Sweepers : SweepStep(s) PROVE expiries' = expiries
  BY <1>3 DEF SweepStep, Start, Read, Save, SaveFails, Trim, SweepFails, Fault, bounds
<1>4. ASSUME \/ \E t \in Readers :
                  Join(t) \/ Count(t) \/ Take(t) \/ Query(t) \/ More(t) \/ ReadFails(t)
             \/ Crash
             \/ UNCHANGED vars
      PROVE  expiries' = expiries
  BY <1>4 DEF Join, Count, Take, Query, More, ReadFails, Crash, Fault, vars, bounds
<1> QED BY <1>1, <1>2, <1>3, <1>4 DEF Next

LEMMA CoveredStep ==
  ASSUME PagesInv, TypeOK', [Next]_vars, expiries = 0, expiries' = 0,
         NEW r \in Readers, Paging(r)', NEW m \in ChatsOf(ReadChannel)'
  PROVE  m \in Covered(r)'
<1>1. /\ TypeOK /\ TellersTold /\ ReadersListen /\ ListsByChannel /\ BatchOnList /\ CountsLow
      /\ Paging(r) => ChatsOf(ReadChannel) \subseteq Covered(r)
  BY DEF PagesInv
<1>2. CASE m \notin ChatsOf(ReadChannel)
  <2>1. PICK a \in Authors : Push(a)
    <3>1. UNCHANGED <<chan, list>> \/ (\E s \in Sweepers : Trim(s)) \/ (\E c \in Channels : Expire(c))
             => ChatsOf(ReadChannel)' = ChatsOf(ReadChannel)
      BY DEF ChatsOf, Chats, Trim, Expire
    <3> QED BY <1>1, <1>2, <3>1, ListMoves
  <2>2. m = Len(chan) + 1
    BY <1>1, <1>2, <2>1, PushedList DEF ChatsOf
  <2>3. apc'[a] = "tell" /\ mine'[a] = m
    BY <1>1, <2>1, <2>2 DEF Push, AGoto, TypeOK
  <2> QED BY <2>3 DEF Covered, BeingTold
<1>3. CASE m \in Lost(ReadChannel)
  BY <1>1, <1>3, LostStays DEF Covered
<1>4. CASE m \in ChatsOf(ReadChannel) /\ m \notin Lost(ReadChannel) /\ ~Paging(r)
  <2>1. Take(r)
    <3>1. rpc \in [Readers -> {"idle", "count", "take", "query", "more", "done", "failed"}]
      BY <1>1 DEF TypeOK
    <3>2. /\ rpc'[r] \in {"query", "more"} \/ (rpc'[r] = "count" /\ page'[r] > 0)
          /\ ~(rpc[r] \in {"query", "more"} \/ (rpc[r] = "count" /\ page[r] > 0))
      BY <1>4 DEF Paging
    <3>3. page[r] \in Nat /\ (rpc[r] = "idle" => page[r] = 0)
      BY <1>1 DEF TypeOK, ReadersListen
    <3>4. ~Join(r)
      BY <3>1, <3>2, <3>3 DEF Join, RGoto
    <3>5. ~Count(r)
      BY <3>1, <3>2, <3>3 DEF Count, RGoto
    <3>6. ~Query(r) /\ ~More(r)
      BY <3>2 DEF Query, More
    <3>7. ~ReadFails(r) /\ ~Crash
      BY <3>1, <3>2 DEF ReadFails, Crash, RGoto
    <3> QED BY <1>1, <3>2, <3>4, <3>5, <3>6, <3>7, ReaderMoves
  <2> QED BY <1>1, <1>4, <2>1, TakeStep DEF Covered
<1>5. CASE m \in ChatsOf(ReadChannel) /\ m \notin Lost(ReadChannel) /\ Paging(r)
  <2>1. m \in seen[r] \cup heard[r] \cup refused => m \in Covered(r)'
    BY <1>1, ShownGrows DEF Covered
  <2>2. m \in BeingTold => m \in Covered(r)'
    BY <1>1, <1>5, ToldStep DEF Covered
  <2>3. m \in Ahead(r) => m \in Covered(r)'
    BY <1>1, <1>5, AheadStep DEF Covered
  <2> QED BY <1>1, <1>5, <2>1, <2>2, <2>3 DEF Covered
<1> QED BY <1>2, <1>3, <1>4, <1>5

LEMMA PagesInvStep == OneSweeper /\ PagesInv /\ [Next]_vars => PagesInv'
<1> SUFFICES ASSUME OneSweeper, PagesInv, [Next]_vars PROVE PagesInv'
  OBVIOUS
<1>1. TypeOK /\ TellersTold /\ ReadersListen /\ ListsByChannel
  BY DEF PagesInv
<1>2. TypeOK'
  <2>1. TellersPushed
    BY <1>1 DEF TellersTold, TellersPushed
  <2> QED BY <1>1, <2>1, TypeStep
<1>3. TellersTold' /\ ReadersListen' /\ ListsByChannel'
  BY <1>1, TellersStep, ListenStep, ChannelStep
<1>4. ASSUME expiries' = 0
      PROVE  /\ BatchOnList' /\ CountsLow'
             /\ \A r \in Readers : Paging(r)' => ChatsOf(ReadChannel)' \subseteq Covered(r)'
  <2>1. expiries = 0
    BY <1>1, <1>4, ExpiriesGrow
  <2>2. BatchOnList /\ CountsLow
    BY <2>1 DEF PagesInv
  <2>3. BatchOnList' /\ CountsLow'
    BY <1>1, <1>4, <2>1, <2>2, BatchStep, CountsStep
  <2>4. ASSUME NEW r \in Readers, Paging(r)' PROVE ChatsOf(ReadChannel)' \subseteq Covered(r)'
    BY <1>2, <1>4, <2>1, <2>4, CoveredStep
  <2> QED BY <2>3, <2>4
<1> QED BY <1>2, <1>3, <1>4 DEF PagesInv

LEMMA PagesInvInit == Init => PagesInv
<1> SUFFICES ASSUME Init PROVE PagesInv
  OBVIOUS
<1>1. TypeOK
  BY LossInvInit DEF LossInv
<1>2. TellersTold /\ ReadersListen /\ BatchOnList
  BY DEF Init, TellersTold, ReadersListen, BatchOnList
<1>3. ListsByChannel
  <2>1. Range(<<>>) = {}
    BY DEF Range
  <2> QED BY <2>1 DEF Init, ListsByChannel
<1>4. CountsLow
  <2>1. \A r \in Readers : count[r] = 0
    BY DEF Init
  <2>2. Len(list[ReadChannel]) = 0
    BY DEF Init
  <2>3. AtMost(0, Limit) = 0
    BY DEF AtMost
  <2> QED BY <2>1, <2>2, <2>3 DEF CountsLow
<1>5. \A r \in Readers : ~Paging(r)
  BY DEF Init, Paging
<1> QED BY <1>1, <1>2, <1>3, <1>4, <1>5 DEF PagesInv

LEMMA LastPage ==
  PagesInv /\ [Next]_vars =>
    \A r \in Readers :
      rpc[r] = "query" /\ rpc'[r] = "done" /\ expiries = 0 =>
        ChatsOf(ReadChannel) \ (Lost(ReadChannel) \cup refused \cup BeingTold)
          \subseteq seen'[r] \cup heard[r]
<1> SUFFICES ASSUME PagesInv, [Next]_vars, NEW r \in Readers,
                    rpc[r] = "query", rpc'[r] = "done", expiries = 0,
                    NEW m \in ChatsOf(ReadChannel),
                    m \notin Lost(ReadChannel) \cup refused \cup BeingTold
             PROVE  m \in seen'[r] \cup heard[r]
  OBVIOUS
<1>1. TypeOK /\ m \in Covered(r)
  BY DEF PagesInv, Paging
<1>2. Query(r)
  BY <1>1, ReaderMoves DEF Join, Count, Take, More, ReadFails, Crash, RGoto, TypeOK
<1>3. Found(r) = {}
  BY <1>1, <1>2 DEF Query, RGoto, TypeOK
<1>4. m \notin Ahead(r)
  <2> SUFFICES ASSUME m \in Ahead(r) PROVE FALSE
    OBVIOUS
  <2>1. m \in Range(archive) /\ Skip(r) < UpTo(m)
    BY DEF Ahead, Passed
  <2> QED BY <1>1, <1>3, <2>1, PageOrLater
<1>5. seen[r] \subseteq seen'[r]
  BY <1>1, ShownGrows
<1> QED BY <1>1, <1>4, <1>5 DEF Covered

\* The inductive invariant of join and requestChannel.
THEOREM PagesInvAlways == ASSUME OneSweeper PROVE Spec => []PagesInv
<1>1. Init => PagesInv
  BY PagesInvInit
<1>2. PagesInv /\ [Next]_vars => PagesInv'
  BY PagesInvStep
<1> QED BY <1>1, <1>2, PTL DEF Spec

\* A reader whose last page is empty has been shown every chat of the channel
\* that the stores still have, whatever the sweep did meanwhile.
THEOREM PagesShowEverythingAlways == ASSUME OneSweeper PROVE Spec => PagesShowEverything
<1>1. PagesInv /\ [Next]_vars =>
        [\A r \in Readers :
           rpc[r] = "query" /\ rpc'[r] = "done" /\ expiries = 0 =>
             ChatsOf(ReadChannel) \ (Lost(ReadChannel) \cup refused \cup BeingTold)
               \subseteq seen'[r] \cup heard[r]]_vars
  BY LastPage
<1> QED BY <1>1, PagesInvAlways, PTL DEF Spec, PagesShowEverything
=============================================================================
