---------------------------- MODULE TrialsProofs ----------------------------
(***************************************************************************)
(* Theorems about Trials, for any number of handlers, requests, crashes    *)
(* and connections.  What makes NoTrialForgotten inductive is that a       *)
(* creation about to commit has its job somewhere already (Covered).       *)
(***************************************************************************)
EXTENDS Trials, FiniteSetTheorems, TLAPS

\* As much of the types as the arguments below need.
Shape ==
  /\ pc \in [Handlers -> Labels]
  /\ arg \in [Handlers -> [op : AllOps, id : Nat \ {0}, poll : Nat]]
  /\ serials \in [trial : Nat, poll : Nat]

Closing == over \cup queued \cup {running} \cup missed

\* A creation between AddJob and CommitTrial has its job.
Covered == \A h \in Handlers : pc[h] = "commitTrial" => arg[h].id \in Closing

\* Zero is no trial (running is 0 when no job is active).
ForgetInv == Shape /\ 0 \notin made /\ Covered /\ NoTrialForgotten

LEMMA ShapeInit == Init => Shape
BY DEF Init, Shape, Labels, AllOps

LEMMA ShapeStep == Shape /\ [Next]_vars => Shape'
<1> SUFFICES ASSUME Shape, [Next]_vars PROVE Shape'
  OBVIOUS
<1> USE DEF Labels, Creating, Guarded
<1>1. ASSUME NEW h \in Handlers, NEW op \in Ops, NEW id \in Ids(op), Request(h, op, id)
      PROVE  Shape'
  <2>1. op \in AllOps /\ id \in Nat \ {0}
    BY BoundAssumption DEF Ids, TrialIds
  <2>2. [op |-> op, id |-> id, poll |-> 1] \in [op : AllOps, id : Nat \ {0}, poll : Nat]
    BY <2>1
  <2> QED BY <1>1, <2>2 DEF Shape, Request, Goto
<1>2. ASSUME NEW h \in Handlers, Connect(h) PROVE Shape'
  <2>1. PICK label \in Labels : Goto(h, label)
    BY <1>2 DEF Connect
  <2> QED BY <1>2, <2>1 DEF Shape, Connect, Goto
<1>3. ASSUME NEW h \in Handlers, InsertTrial(h) PROVE Shape'
  BY <1>3 DEF Shape, InsertTrial, Goto
<1>4. ASSUME NEW h \in Handlers, InsertPoll(h) PROVE Shape'
  BY <1>4 DEF Shape, InsertPoll, Goto
<1>5. ASSUME NEW h \in Handlers,
             AddJob(h) \/ CommitTrial(h) \/ FindFails(h) \/ Find(h) \/ Save(h)
      PROVE  Shape'
  BY <1>5 DEF Shape, AddJob, CommitTrial, FindFails, Find, Save, Goto
<1>6. ASSUME NEW h \in Handlers,
             SoftDelete(h) \/ DeletePoll(h) \/ CommitDelete(h) \/ Reword(h)
               \/ DropPoll(h) \/ Fault(h)
      PROVE  Shape'
  BY <1>6 DEF Shape, SoftDelete, DeletePoll, CommitDelete, Reword, DropPoll,
              Fault, DrawInVain, Goto
<1>7. ASSUME NEW h \in Handlers, Guard(h) PROVE Shape'
  BY <1>7 DEF Shape, Guard, AfterGuard, Goto
<1>8. ASSUME NEW h \in Handlers, InsertSubject(h) PROVE Shape'
  BY <1>8 DEF Shape, InsertSubject, Goto
<1>9. CASE StartJob \/ UpdateTimeDone \/ FailJob \/ CastBallot \/ Replicate
           \/ UNCHANGED vars
  BY <1>9 DEF Shape, StartJob, UpdateTimeDone, FailJob, CastBallot, Replicate, vars
<1>10. CASE Crash
  BY <1>10 DEF Shape, Crash
<1> QED BY <1>1, <1>2, <1>3, <1>4, <1>5, <1>6, <1>7, <1>8, <1>9, <1>10
        DEF Next, Handle

-----------------------------------------------------------------------------
LEMMA ForgetInit == Init => 0 \notin made /\ Covered /\ NoTrialForgotten
BY DEF Init, Covered, NoTrialForgotten

\* A step that loses no job, commits no trial and brings no creation to its
\* COMMIT.
LEMMA Onward ==
  ASSUME ForgetInv, Closing \ {0} \subseteq Closing', made' = made,
         \A h \in Handlers : pc'[h] = "commitTrial" =>
           pc[h] = "commitTrial" /\ arg'[h].id = arg[h].id
  PROVE  0 \notin made' /\ Covered' /\ NoTrialForgotten'
BY DEF ForgetInv, Shape, Covered, NoTrialForgotten, Closing

LEMMA ForgetStep == ForgetInv /\ [Next]_vars => 0 \notin made' /\ Covered' /\ NoTrialForgotten'
<1> SUFFICES ASSUME ForgetInv, [Next]_vars PROVE 0 \notin made' /\ Covered' /\ NoTrialForgotten'
  OBVIOUS
<1>0. /\ pc \in [Handlers -> Labels] /\ DOMAIN arg = Handlers
      /\ Covered /\ NoTrialForgotten /\ 0 \notin made
      /\ \A g \in Handlers : arg[g].id # 0
  BY DEF ForgetInv, Shape
<1>a. ASSUME NEW h \in Handlers, NEW label, label # "commitTrial", Goto(h, label),
             \A g \in Handlers : g # h => arg'[g] = arg[g],
             made' = made, UNCHANGED <<over, queue>>
      PROVE  0 \notin made' /\ Covered' /\ NoTrialForgotten'
  <2>1. Closing' = Closing
    BY <1>a DEF Closing, queue
  <2>2. \A g \in Handlers : pc'[g] = IF g = h THEN label ELSE pc[g]
    BY <1>0, <1>a DEF Goto
  <2> QED BY <1>a, <2>1, <2>2, Onward
<1>1. ASSUME NEW h \in Handlers, NEW op \in Ops, NEW id \in Ids(op), Request(h, op, id)
      PROVE  0 \notin made' /\ Covered' /\ NoTrialForgotten'
  <2>1. PICK label \in {"guard", "connect"} : Goto(h, label)
    BY <1>1 DEF Request
  <2> QED BY <1>0, <1>1, <2>1, <1>a DEF Request, trials
<1>2. ASSUME NEW h \in Handlers, Connect(h)
      PROVE  0 \notin made' /\ Covered' /\ NoTrialForgotten'
  <2>1. PICK label \in {"insertTrial", "find", "softDelete"} : Goto(h, label)
    BY <1>2 DEF Connect
  <2> QED BY <1>2, <2>1, <1>a DEF Connect, trials
<1>3. ASSUME NEW h \in Handlers, InsertTrial(h) \/ InsertPoll(h)
      PROVE  0 \notin made' /\ Covered' /\ NoTrialForgotten'
  <2>1. \A g \in Handlers : g # h => arg'[g] = arg[g]
    BY <1>0, <1>3 DEF InsertTrial, InsertPoll
  <2> QED BY <1>3, <2>1, <1>a DEF InsertTrial, InsertPoll, trials
<1>4. ASSUME NEW h \in Handlers, AddJob(h)
      PROVE  0 \notin made' /\ Covered' /\ NoTrialForgotten'
  <2>1. /\ queued' = queued \cup {arg[h].id} /\ arg' = arg
        /\ made' = made /\ UNCHANGED <<over, running, missed>>
    BY <1>4 DEF AddJob, trials
  <2>2. \A g \in Handlers : pc'[g] = "commitTrial" => pc[g] = "commitTrial" \/ g = h
    BY <1>0, <1>4 DEF AddJob, Goto
  <2> QED BY <1>0, <2>1, <2>2 DEF Covered, NoTrialForgotten, Closing
<1>5. ASSUME NEW h \in Handlers, CommitTrial(h)
      PROVE  0 \notin made' /\ Covered' /\ NoTrialForgotten'
  <2>1. /\ made' = made \cup {arg[h].id} /\ arg' = arg
        /\ UNCHANGED <<over, queued, running, missed>> /\ pc[h] = "commitTrial"
    BY <1>5 DEF CommitTrial, queue
  <2>2. \A g \in Handlers : pc'[g] = "commitTrial" => pc[g] = "commitTrial"
    BY <1>0, <1>5 DEF CommitTrial, Goto
  <2> QED BY <1>0, <2>1, <2>2 DEF Covered, NoTrialForgotten, Closing
<1>6. ASSUME NEW h \in Handlers,
             \/ FindFails(h) \/ Find(h) \/ Save(h) \/ SoftDelete(h) \/ DeletePoll(h)
             \/ CommitDelete(h) \/ Reword(h) \/ DropPoll(h) \/ Fault(h)
             \/ Guard(h) \/ InsertSubject(h)
      PROVE  0 \notin made' /\ Covered' /\ NoTrialForgotten'
  <2>1. PICK label \in {"idle", "save", "deletePoll", "deletePollOnly",
                        "commitDelete", "insertSubject", "reword", "dropPoll"} :
          Goto(h, label)
    BY <1>6 DEF FindFails, Find, Save, SoftDelete, DeletePoll, CommitDelete,
            Reword, DropPoll, Fault, Guard, AfterGuard, InsertSubject
  <2>2. made' = made /\ UNCHANGED <<over, arg, queue>>
    BY <1>6 DEF FindFails, Find, Save, SoftDelete, DeletePoll, CommitDelete,
            Reword, DropPoll, Fault, Guard, InsertSubject, trials
  <2> QED BY <2>1, <2>2, <1>a
<1>7. CASE StartJob \/ UpdateTimeDone \/ FailJob
  <2>1. UNCHANGED <<made, pc, arg>>
    BY <1>7 DEF StartJob, UpdateTimeDone, FailJob, trials
  <2>2. Closing \ {0} \subseteq Closing'
    BY <1>7 DEF StartJob, UpdateTimeDone, FailJob, trials, Closing
  <2> QED BY <2>1, <2>2, Onward
<1>8. CASE Crash
  <2>1. UNCHANGED <<made, arg>> /\ \A g \in Handlers : pc'[g] # "commitTrial"
    BY <1>8 DEF Crash, trials
  <2>2. Closing \ {0} \subseteq Closing'
    BY <1>8 DEF Crash, trials, Closing
  <2> QED BY <2>1, <2>2, Onward
<1>9. CASE CastBallot \/ Replicate \/ UNCHANGED vars
  <2>1. UNCHANGED <<made, over, queued, running, missed, pc, arg>>
    BY <1>9 DEF CastBallot, Replicate, vars, trials, queue
  <2> QED BY <2>1, Onward DEF Closing
<1> QED BY <1>1, <1>2, <1>3, <1>4, <1>5, <1>6, <1>7, <1>8, <1>9 DEF Next, Handle

\* A committed trial is over, or has a job waiting or active, or its job has
\* ended in vain: createTrial adds the job before it commits.
THEOREM NoneForgotten == Spec => []NoTrialForgotten
<1>1. Init => ForgetInv
  BY ShapeInit, ForgetInit DEF ForgetInv
<1>2. ForgetInv /\ [Next]_vars => ForgetInv'
  BY ShapeStep, ForgetStep DEF ForgetInv
<1>3. ForgetInv => NoTrialForgotten
  BY DEF ForgetInv
<1> QED BY <1>1, <1>2, <1>3, PTL DEF Spec

\* No step takes a trial out of is_time_over.
THEOREM OverStays == Spec => OverIsForever
<1>1. [Next]_vars => [over \subseteq over']_over
  <2> SUFFICES ASSUME [Next]_vars, over' # over PROVE over \subseteq over'
    OBVIOUS
  <2>1. UpdateTimeDone
    BY DEF Next, Handle, Request, Connect, InsertTrial, InsertPoll, AddJob,
           CommitTrial, FindFails, Find, Save, SoftDelete, DeletePoll, CommitDelete,
           Guard, InsertSubject, Reword, DropPoll, Fault, StartJob, FailJob, Crash,
           CastBallot, Replicate, vars, trials
  <2> QED BY <2>1 DEF UpdateTimeDone, trials
<1> QED BY <1>1, PTL DEF Spec, OverIsForever

-----------------------------------------------------------------------------
(* Drift.  As long as the two sequences are in step, the creations between *)
(* their INSERTs hold exactly the trials that have no poll number yet.     *)

Saving(h) == pc[h] = "insertPoll"

InStep ==
  /\ serials.poll <= serials.trial
  /\ \A h \in Handlers : Saving(h) =>
       serials.poll < arg[h].id /\ arg[h].id <= serials.trial
  /\ \A g, h \in Handlers : Saving(g) /\ Saving(h) /\ arg[g].id = arg[h].id => g = h
  /\ \A n \in Nat : serials.poll < n /\ n <= serials.trial =>
       \E h \in Handlers : Saving(h) /\ arg[h].id = n

\* A trial and its poll have the same number.
SameNumber ==
  /\ \A h \in Handlers : pc[h] \in {"addJob", "commitTrial"} => arg[h].poll = arg[h].id
  /\ \A p \in PollIds : poll[p] \in {0, p}

Rows == poll \in [PollIds -> Nat]

DriftInv == Shape /\ Rows /\ drifted \in BOOLEAN /\ (drifted \/ (InStep /\ SameNumber))

LEMMA DriftInit == Init => Rows /\ drifted \in BOOLEAN /\ InStep /\ SameNumber
<1> SUFFICES ASSUME Init PROVE Rows /\ drifted \in BOOLEAN /\ InStep /\ SameNumber
  OBVIOUS
<1>1. Rows /\ drifted \in BOOLEAN
  BY DEF Init, Rows
<1>2. InStep
  <2>1. serials.poll = 0 /\ serials.trial = 0 /\ \A h \in Handlers : ~Saving(h)
    BY DEF Init, Saving
  <2> QED BY <2>1 DEF InStep
<1>3. SameNumber
  BY DEF Init, SameNumber
<1> QED BY <1>1, <1>2, <1>3

LEMMA RowsStep ==
  ASSUME Shape, Rows, drifted \in BOOLEAN, [Next]_vars
  PROVE  Rows' /\ drifted' \in BOOLEAN
<1>1. ASSUME NEW h \in Handlers, CommitTrial(h) PROVE Rows' /\ drifted' \in BOOLEAN
  <2>1. arg[h].id \in Nat
    BY DEF Shape
  <2> QED BY <1>1, <2>1 DEF CommitTrial, Rows
<1>2. ASSUME NEW h \in Handlers, InsertSubject(h) PROVE Rows' /\ drifted' \in BOOLEAN
  <2>1. arg[h].id \in Nat
    BY DEF Shape
  <2> QED BY <1>2, <2>1 DEF InsertSubject, Rows
<1>3. ASSUME NEW h \in Handlers, DeletePoll(h) \/ DropPoll(h)
      PROVE  Rows' /\ drifted' \in BOOLEAN
  BY <1>3 DEF DeletePoll, DropPoll, DropRow, Rows, polls
<1>4. ASSUME NEW h \in Handlers, InsertPoll(h) \/ Fault(h) \/ Reword(h)
      PROVE  Rows' /\ drifted' \in BOOLEAN
  BY <1>4 DEF InsertPoll, Fault, DrawInVain, Reword, Rows
<1>5. ASSUME NEW h \in Handlers, NEW op \in Ops, NEW id \in Ids(op), Request(h, op, id)
      PROVE  Rows' /\ drifted' \in BOOLEAN
  BY <1>5 DEF Request, polls, Rows
<1>6. ASSUME NEW h \in Handlers,
             \/ Connect(h) \/ InsertTrial(h) \/ AddJob(h) \/ FindFails(h) \/ Find(h)
             \/ Save(h) \/ SoftDelete(h) \/ CommitDelete(h) \/ Guard(h)
      PROVE  Rows' /\ drifted' \in BOOLEAN
  BY <1>6 DEF Connect, InsertTrial, AddJob, FindFails, Find, Save, SoftDelete,
              CommitDelete, Guard, polls, Rows
<1>7. CASE StartJob \/ UpdateTimeDone \/ FailJob \/ Replicate \/ UNCHANGED vars
  BY <1>7 DEF StartJob, UpdateTimeDone, FailJob, Replicate, polls, vars, Rows
<1>8. CASE Crash \/ CastBallot
  BY <1>8 DEF Crash, CastBallot, Rows
<1> QED BY <1>1, <1>2, <1>3, <1>4, <1>5, <1>6, <1>7, <1>8 DEF Next, Handle

\* A step that takes no number, with nobody at an INSERT or holding a new poll
\* who did not stand there before.
LEMMA StillInStep ==
  ASSUME InStep, SameNumber, serials' = serials,
         \A h \in Handlers : Saving(h)' <=> Saving(h),
         \A h \in Handlers : Saving(h) => arg'[h] = arg[h],
         \A h \in Handlers : pc'[h] \in {"addJob", "commitTrial"} =>
           pc[h] \in {"addJob", "commitTrial"} /\ arg'[h] = arg[h],
         \A p \in PollIds : poll'[p] \in {0, p}
  PROVE  InStep' /\ SameNumber'
<1>1. SameNumber'
  BY DEF SameNumber
<1>2. InStep'
  BY DEF InStep
<1> QED BY <1>1, <1>2

\* The creation that holds the lowest open trial draws the number of its poll.
LEMMA PollNumbered ==
  ASSUME InStep, SameNumber, Shape, NEW h \in Handlers, Saving(h), ~Crosses(h),
         serials'.poll = serials.poll + 1, serials'.trial = serials.trial,
         \A g \in Handlers : g # h => arg'[g] = arg[g], poll' = poll,
         NEW label \in {"addJob", "idle"},
         label = "addJob" => arg'[h].id = arg[h].id /\ arg'[h].poll = serials.poll + 1,
         \A g \in Handlers : pc'[g] = IF g = h THEN label ELSE pc[g]
  PROVE  InStep' /\ SameNumber'
<1> DEFINE n == serials.poll + 1
<1>0. InStep /\ SameNumber
  OBVIOUS
<1>1. /\ Saving(h) /\ serials'.poll = n /\ serials'.trial = serials.trial
      /\ label = "addJob" => arg'[h].id = arg[h].id /\ arg'[h].poll = n
      /\ \A g \in Handlers : g # h => arg'[g] = arg[g]
      /\ poll' = poll /\ ~Crosses(h)
  OBVIOUS
<1>2. \A g \in Handlers : pc'[g] = IF g = h THEN label ELSE pc[g]
  OBVIOUS
<1>3. serials.poll \in Nat /\ serials.trial \in Nat
      /\ \A g \in Handlers : arg[g].id \in Nat
  BY <1>0 DEF Shape
<1>4. arg[h].id = n
  <2>1. serials.poll < arg[h].id /\ arg[h].id <= serials.trial
    BY <1>0, <1>1 DEF InStep
  <2>a. n \in Nat /\ serials.poll < n /\ n <= serials.trial
    BY <1>3, <2>1
  <2>b. \A k \in Nat : serials.poll < k /\ k <= serials.trial =>
          \E g \in Handlers : Saving(g) /\ arg[g].id = k
    BY <1>0 DEF InStep
  <2>2. PICK g \in Handlers : Saving(g) /\ arg[g].id = n
    <3> HIDE DEF n
    <3> QED BY <2>a, <2>b
  <2>3. ~(arg[g].id < arg[h].id)
    BY <1>1, <2>2 DEF Crosses, Saving
  <2> QED BY <2>1, <2>2, <2>3, <1>3
<1>5. SameNumber'
  BY <1>0, <1>1, <1>2, <1>4 DEF SameNumber
<1>6. \A g \in Handlers : Saving(g)' <=> (g # h /\ Saving(g))
  BY <1>2 DEF Saving
<1>7. \A g \in Handlers : Saving(g)' =>
        serials'.poll < arg'[g].id /\ arg'[g].id <= serials'.trial
  <2> SUFFICES ASSUME NEW g \in Handlers, g # h, Saving(g)
               PROVE  serials'.poll < arg'[g].id /\ arg'[g].id <= serials'.trial
    BY <1>6
  <2>1. arg[g].id # n
    BY <1>0, <1>1, <1>4 DEF InStep
  <2>2. serials.poll < arg[g].id /\ arg[g].id <= serials.trial
    BY <1>0 DEF InStep
  <2> QED BY <2>1, <2>2, <1>1, <1>3
<1>8. \A g, k \in Handlers : Saving(g)' /\ Saving(k)' /\ arg'[g].id = arg'[k].id => g = k
  BY <1>0, <1>1, <1>6 DEF InStep
<1>9. \A k \in Nat : serials'.poll < k /\ k <= serials'.trial =>
        \E g \in Handlers : Saving(g)' /\ arg'[g].id = k
  <2> SUFFICES ASSUME NEW k \in Nat, serials'.poll < k, k <= serials'.trial
               PROVE  \E g \in Handlers : Saving(g)' /\ arg'[g].id = k
    OBVIOUS
  <2>a. serials.poll < k /\ k <= serials.trial
    BY <1>1, <1>3
  <2>b. \A j \in Nat : serials.poll < j /\ j <= serials.trial =>
          \E g \in Handlers : Saving(g) /\ arg[g].id = j
    BY <1>0 DEF InStep
  <2>1. PICK g \in Handlers : Saving(g) /\ arg[g].id = k
    BY <2>a, <2>b
  <2>2. g # h
    BY <2>1, <1>1, <1>3, <1>4
  <2> QED BY <2>1, <2>2, <1>1, <1>6
<1>10. serials'.poll <= serials'.trial
  BY <1>0, <1>1, <1>3, <1>4 DEF InStep
<1> QED BY <1>5, <1>7, <1>8, <1>9, <1>10 DEF InStep

LEMMA DriftStep ==
  ASSUME DriftInv, [Next]_vars
  PROVE  drifted' \/ (InStep' /\ SameNumber')
<1>d. CASE drifted = TRUE
  <2>1. ASSUME NEW h \in Handlers, NEW op \in Ops, NEW id \in Ids(op),
               Request(h, op, id)
        PROVE  drifted'
    BY <1>d, <2>1 DEF Request, polls
  <2>2. ASSUME NEW h \in Handlers, Handle(h) PROVE drifted'
    <3>1. CASE Connect(h) \/ InsertTrial(h) \/ InsertPoll(h) \/ AddJob(h)
      BY <1>d, <3>1 DEF Connect, InsertTrial, InsertPoll, AddJob, polls
    <3>2. CASE CommitTrial(h) \/ FindFails(h) \/ Find(h) \/ Save(h) \/ SoftDelete(h)
      BY <1>d, <3>2 DEF CommitTrial, FindFails, Find, Save, SoftDelete, polls
    <3>3. CASE DeletePoll(h) \/ CommitDelete(h) \/ Guard(h) \/ InsertSubject(h)
      BY <1>d, <3>3 DEF DeletePoll, CommitDelete, Guard, InsertSubject, DropRow, polls
    <3>4. CASE Reword(h) \/ DropPoll(h)
      BY <1>d, <3>4 DEF Reword, DropPoll, DropRow, polls
    <3> QED BY <2>2, <3>1, <3>2, <3>3, <3>4 DEF Handle
  <2>3. ASSUME NEW h \in Handlers, Fault(h) PROVE drifted'
    <3>1. DrawInVain(h)
      BY <2>3 DEF Fault
    <3> QED BY <1>d, <3>1 DEF DrawInVain
  <2>4. CASE StartJob \/ UpdateTimeDone \/ FailJob \/ Crash \/ CastBallot \/ Replicate
    BY <1>d, <2>4 DEF StartJob, UpdateTimeDone, FailJob, Crash, CastBallot,
                      Replicate, polls
  <2>5. CASE UNCHANGED vars
    BY <1>d, <2>5 DEF vars, polls
  <2> QED BY <2>1, <2>2, <2>3, <2>4, <2>5 DEF Next
<1> SUFFICES ASSUME drifted = FALSE, drifted' = FALSE PROVE InStep' /\ SameNumber'
  BY <1>d, RowsStep DEF DriftInv
<1>0. /\ InStep /\ SameNumber /\ Shape /\ Rows
      /\ pc \in [Handlers -> Labels] /\ DOMAIN arg = Handlers
  BY DEF DriftInv, Shape
<1>z. \A p \in PollIds : poll[p] \in {0, p}
  BY <1>0 DEF SameNumber
<1>a. ASSUME NEW h \in Handlers, NEW label, Goto(h, label), pc[h] # "insertPoll",
             label \notin {"insertPoll", "addJob"},
             label = "commitTrial" => pc[h] = "addJob" /\ arg' = arg,
             \A g \in Handlers : g # h => arg'[g] = arg[g],
             serials' = serials, \A p \in PollIds : poll'[p] \in {0, p}
      PROVE  InStep' /\ SameNumber'
  <2>1. \A g \in Handlers : pc'[g] = IF g = h THEN label ELSE pc[g]
    BY <1>0, <1>a DEF Goto
  <2>2. \A g \in Handlers : Saving(g)' <=> Saving(g)
    BY <1>a, <2>1 DEF Saving
  <2>3. \A g \in Handlers : Saving(g) => arg'[g] = arg[g]
    BY <1>a DEF Saving
  <2>4. \A g \in Handlers : pc'[g] \in {"addJob", "commitTrial"} =>
          pc[g] \in {"addJob", "commitTrial"} /\ arg'[g] = arg[g]
    BY <1>a, <2>1
  <2> QED BY <1>0, <1>a, <2>2, <2>3, <2>4, StillInStep
<1>1. ASSUME NEW h \in Handlers, NEW op \in Ops, NEW id \in Ids(op), Request(h, op, id)
      PROVE  InStep' /\ SameNumber'
  <2>1. PICK label \in {"guard", "connect"} : Goto(h, label)
    BY <1>1 DEF Request
  <2> QED BY <1>0, <1>z, <1>1, <2>1, <1>a DEF Request, polls
<1>2. ASSUME NEW h \in Handlers, Connect(h) PROVE InStep' /\ SameNumber'
  <2>1. PICK label \in {"insertTrial", "find", "softDelete"} : Goto(h, label)
    BY <1>2 DEF Connect
  <2> QED BY <1>z, <1>2, <2>1, <1>a DEF Connect, polls
<1>3. ASSUME NEW h \in Handlers, InsertTrial(h) PROVE InStep' /\ SameNumber'
  <2> DEFINE n == serials.trial + 1
  <2>1. /\ pc[h] = "insertTrial" /\ serials'.poll = serials.poll /\ serials'.trial = n
        /\ arg'[h].id = n /\ \A g \in Handlers : g # h => arg'[g] = arg[g]
        /\ poll' = poll
    BY <1>0, <1>3 DEF InsertTrial, Shape, polls
  <2>2. \A g \in Handlers : pc'[g] = IF g = h THEN "insertPoll" ELSE pc[g]
    BY <1>0, <1>3 DEF InsertTrial, Goto
  <2>3. SameNumber'
    BY <1>0, <2>1, <2>2 DEF SameNumber
  <2>4. serials.poll \in Nat /\ serials.trial \in Nat
        /\ \A g \in Handlers : arg[g].id \in Nat
    BY <1>0 DEF Shape
  <2>5. \A g \in Handlers : Saving(g)' <=> (g = h \/ Saving(g))
    BY <2>2 DEF Saving
  <2>6. ~Saving(h)
    BY <2>1 DEF Saving
  <2>7. \A g \in Handlers : Saving(g)' =>
          serials'.poll < arg'[g].id /\ arg'[g].id <= serials'.trial
    BY <1>0, <2>1, <2>4, <2>5 DEF InStep
  <2>8. \A g, k \in Handlers : Saving(g)' /\ Saving(k)' /\ arg'[g].id = arg'[k].id => g = k
    BY <1>0, <2>1, <2>4, <2>5 DEF InStep
  <2>9. \A k \in Nat : serials'.poll < k /\ k <= serials'.trial =>
          \E g \in Handlers : Saving(g)' /\ arg'[g].id = k
    <3> SUFFICES ASSUME NEW k \in Nat, serials'.poll < k, k <= serials'.trial
                 PROVE  \E g \in Handlers : Saving(g)' /\ arg'[g].id = k
      OBVIOUS
    <3>1. CASE k = n
      BY <3>1, <2>1, <2>5
    <3>2. CASE k # n
      <4>a. serials.poll < k /\ k <= serials.trial
        BY <3>2, <2>1, <2>4
      <4>b. \A j \in Nat : serials.poll < j /\ j <= serials.trial =>
              \E g \in Handlers : Saving(g) /\ arg[g].id = j
        BY <1>0 DEF InStep
      <4>1. PICK g \in Handlers : Saving(g) /\ arg[g].id = k
        BY <4>a, <4>b
      <4> QED BY <4>1, <2>1, <2>5, <2>6
    <3> QED BY <3>1, <3>2
  <2>10. serials'.poll <= serials'.trial
    BY <1>0, <2>1, <2>4 DEF InStep
  <2> QED BY <2>3, <2>7, <2>8, <2>9, <2>10 DEF InStep
<1>4. ASSUME NEW h \in Handlers, InsertPoll(h) PROVE InStep' /\ SameNumber'
  <2>1. /\ Saving(h) /\ ~Crosses(h) /\ poll' = poll
        /\ serials'.poll = serials.poll + 1 /\ serials'.trial = serials.trial
        /\ arg'[h].id = arg[h].id /\ arg'[h].poll = serials.poll + 1
        /\ \A g \in Handlers : g # h => arg'[g] = arg[g]
    BY <1>0, <1>4 DEF InsertPoll, Shape, Saving
  <2>2. \A g \in Handlers : pc'[g] = IF g = h THEN "addJob" ELSE pc[g]
    BY <1>0, <1>4 DEF InsertPoll, Goto
  <2> QED BY <1>0, <2>1, <2>2, PollNumbered
<1>5. ASSUME NEW h \in Handlers, AddJob(h) PROVE InStep' /\ SameNumber'
  BY <1>z, <1>5, <1>a DEF AddJob, polls
<1>6. ASSUME NEW h \in Handlers, CommitTrial(h) PROVE InStep' /\ SameNumber'
  <2>1. \A p \in PollIds : poll'[p] \in {0, p}
    BY <1>0, <1>z, <1>6 DEF CommitTrial, SameNumber, Rows
  <2> QED BY <2>1, <1>6, <1>a DEF CommitTrial
<1>7. ASSUME NEW h \in Handlers, DeletePoll(h) \/ DropPoll(h) PROVE InStep' /\ SameNumber'
  <2>1. \A p \in PollIds : poll'[p] \in {0, p}
    BY <1>0, <1>z, <1>7 DEF DeletePoll, DropPoll, DropRow, polls, Rows
  <2>2. PICK label \in {"idle", "commitDelete"} : Goto(h, label)
    BY <1>7 DEF DeletePoll, DropPoll
  <2> QED BY <2>1, <2>2, <1>7, <1>a DEF DeletePoll, DropPoll
<1>8. ASSUME NEW h \in Handlers,
             \/ FindFails(h) \/ Find(h) \/ Save(h) \/ SoftDelete(h) \/ CommitDelete(h)
             \/ Reword(h) \/ Guard(h)
      PROVE  InStep' /\ SameNumber'
  <2>1. PICK label \in {"idle", "save", "deletePoll", "deletePollOnly",
                        "insertSubject", "reword", "dropPoll"} : Goto(h, label)
    BY <1>8 DEF FindFails, Find, Save, SoftDelete, CommitDelete, Reword, Guard, AfterGuard
  <2>2. pc[h] # "insertPoll" /\ UNCHANGED <<poll, arg, serials>>
    BY <1>8 DEF FindFails, Find, Save, SoftDelete, CommitDelete, Reword, Guard, polls
  <2> QED BY <1>z, <2>1, <2>2, <1>a
<1>9. ASSUME NEW h \in Handlers, InsertSubject(h) PROVE InStep' /\ SameNumber'
  BY <1>9 DEF InsertSubject
<1>10. ASSUME NEW h \in Handlers, Fault(h) PROVE InStep' /\ SameNumber'
  <2>1. Goto(h, "idle") /\ UNCHANGED <<poll, arg>> /\ DrawInVain(h)
    BY <1>10 DEF Fault
  <2>2. CASE serials' = serials
    <3>1. ASSUME pc[h] = "insertPoll" PROVE FALSE
      <4>1. serials.poll \in Nat /\ serials'.poll = serials.poll
        BY <1>0, <2>2 DEF Shape
      <4>2. serials' = [serials EXCEPT !.poll = @ + 1]
        BY <2>1, <3>1 DEF DrawInVain
      <4>3. serials'.poll = serials.poll + 1
        BY <1>0, <4>2 DEF Shape
      <4> QED BY <4>1, <4>3
    <3> QED BY <1>z, <2>1, <2>2, <3>1, <1>a
  <2>3. CASE serials' # serials
    <3>1. /\ Saving(h) /\ ~Crosses(h)
          /\ serials'.poll = serials.poll + 1 /\ serials'.trial = serials.trial
      BY <1>0, <2>1, <2>3 DEF DrawInVain, Shape, Saving
    <3>2. \A g \in Handlers : pc'[g] = IF g = h THEN "idle" ELSE pc[g]
      BY <1>0, <2>1 DEF Goto
    <3> QED BY <1>0, <2>1, <3>1, <3>2, PollNumbered
  <2> QED BY <2>2, <2>3
<1>11. CASE StartJob \/ UpdateTimeDone \/ FailJob \/ CastBallot \/ Replicate
            \/ UNCHANGED vars
  <2>1. UNCHANGED <<poll, arg, serials, pc>>
    BY <1>11 DEF StartJob, UpdateTimeDone, FailJob, CastBallot, Replicate, polls, vars
  <2> QED BY <1>0, <1>z, <2>1, StillInStep DEF Saving
<1>12. CASE Crash
  <2>1. /\ \A h \in Handlers : ~Saving(h)
        /\ \A h \in Handlers : pc'[h] = "idle"
        /\ UNCHANGED <<poll, arg, serials>>
    BY <1>12 DEF Crash, Saving
  <2> QED BY <1>0, <1>z, <2>1, StillInStep DEF Saving
<1> QED BY <1>1, <1>2, <1>3, <1>4, <1>5, <1>6, <1>7, <1>8, <1>9, <1>10, <1>11, <1>12
        DEF Next, Handle

\* While every trial has drawn the number of its poll, deleteVote, called with
\* the number of the trial, takes the poll of that trial and no other.
THEOREM OwnPollLost == Spec => PollLostOnlyIfDrifted
<1> DEFINE Lost == \A p \in PollIds :
             poll[p] # 0 /\ poll'[p] = 0 /\ ~drifted =>
               \E h \in Handlers :
                 /\ pc[h] \in {"dropPoll", "deletePoll", "deletePollOnly"} /\ pc'[h] # pc[h]
                 /\ arg[h].id = IF pc[h] = "dropPoll" THEN p ELSE poll[p]
<1>1. Init => DriftInv
  BY ShapeInit, DriftInit DEF DriftInv
<1>2. DriftInv /\ [Next]_vars => DriftInv'
  BY ShapeStep, RowsStep, DriftStep DEF DriftInv
<1>3. DriftInv /\ [Next]_vars => Lost
  <2> SUFFICES ASSUME DriftInv, [Next]_vars, NEW p \in PollIds,
                      poll[p] # 0, poll'[p] = 0, ~drifted
               PROVE  \E h \in Handlers :
                 /\ pc[h] \in {"dropPoll", "deletePoll", "deletePollOnly"} /\ pc'[h] # pc[h]
                 /\ arg[h].id = IF pc[h] = "dropPoll" THEN p ELSE poll[p]
    OBVIOUS
  <2>0. poll \in [PollIds -> Nat] /\ poll[p] = p /\ pc \in [Handlers -> Labels]
        /\ \A h \in Handlers : arg[h].id # 0
    BY DEF DriftInv, Rows, SameNumber, Shape
  <2>1. ASSUME NEW h \in Handlers, CommitTrial(h) \/ InsertSubject(h) PROVE FALSE
    BY <2>0, <2>1 DEF CommitTrial, InsertSubject
  <2>2. PICK h \in Handlers : DeletePoll(h) \/ DropPoll(h)
    BY <2>1 DEF Next, Handle, Request, Connect, InsertTrial, InsertPoll, AddJob,
           FindFails, Find, Save, SoftDelete, CommitDelete, Guard, Reword, Fault,
           StartJob, UpdateTimeDone, FailJob, Crash, CastBallot, Replicate, vars, polls
  <2>3. arg[h].id = p
    BY <2>0, <2>2 DEF DeletePoll, DropPoll, DropRow, polls
  <2>4. /\ pc[h] \in {"dropPoll", "deletePoll", "deletePollOnly"}
        /\ pc'[h] # pc[h]
    BY <2>0, <2>2 DEF DeletePoll, DropPoll, Goto
  <2> QED BY <2>0, <2>3, <2>4
<1> QED BY <1>1, <1>2, <1>3, PTL DEF Spec, PollLostOnlyIfDrifted

-----------------------------------------------------------------------------
(* Types.  A request in flight that is still to draw a number has been     *)
(* counted already, and so has the connection of an open transaction: that *)
(* keeps both sequences and the pool within their bounds.  A creation in   *)
(* flight holds a number no trial has, so that its COMMIT breaks no key.   *)

NeedsTrial(h) == pc[h] = "insertTrial" \/ (pc[h] = "connect" /\ arg[h].op = "create")
NeedsPoll(h) ==
  \/ pc[h] \in {"insertTrial", "insertPoll", "insertSubject"}
  \/ pc[h] = "connect" /\ arg[h].op = "create"
  \/ pc[h] = "guard" /\ arg[h].op = "subject"
InOpen(h) == pc[h] \in InTxn

WantTrial == {h \in Handlers : NeedsTrial(h)}
WantPoll  == {h \in Handlers : NeedsPoll(h)}

Counted ==
  /\ leaks + Cardinality(Open) <= PoolSize
  /\ serials.trial + Cardinality(WantTrial) <= requests
  /\ serials.poll + Cardinality(WantPoll) <= requests

New(h) == pc[h] \in {"insertPoll", "addJob", "commitTrial"}

Fresh ==
  /\ \A t \in made : t <= serials.trial
  /\ \A h \in Handlers : New(h) => arg[h].id \notin made /\ arg[h].id <= serials.trial
  /\ \A g, h \in Handlers : New(g) /\ New(h) /\ arg[g].id = arg[h].id => g = h

Erasing == \A h \in Handlers : pc[h] \in {"deletePoll", "commitDelete"} => arg[h].id \in made

One(b) == IF b THEN 1 ELSE 0

\* The numbers among the variables, without their bounds.
Numbers ==
  /\ serials \in [trial : Nat, poll : Nat] /\ leaks \in Nat
  /\ requests \in Nat /\ requests <= MaxRequests /\ crashes \in 0..MaxCrashes

LEMMA Weight ==
  ASSUME NEW A \in SUBSET Handlers, NEW h \in Handlers
  PROVE  /\ Cardinality(A \ {h}) \in Nat
         /\ Cardinality(A) = Cardinality(A \ {h}) + One(h \in A)
<1>1. IsFiniteSet(A)
  BY BoundAssumption, FS_Subset
<1>2. IsFiniteSet(A \ {h}) /\ Cardinality(A \ {h}) \in Nat
  BY <1>1, FS_Subset, FS_CardinalityType
<1>3. CASE h \in A
  <2>1. Cardinality(A \ {h}) = Cardinality(A) - 1
    BY <1>1, <1>3, FS_RemoveElement
  <2>2. Cardinality(A) \in Nat
    BY <1>1, FS_CardinalityType
  <2> QED BY <1>2, <1>3, <2>1, <2>2 DEF One
<1>4. CASE h \notin A
  <2>1. A \ {h} = A
    BY <1>4
  <2> QED BY <1>2, <1>4, <2>1 DEF One
<1> QED BY <1>3, <1>4

LEMMA CardNat == \A A \in SUBSET Handlers : Cardinality(A) \in Nat
BY BoundAssumption, FS_Subset, FS_CardinalityType

\* Two sets that differ in h only, counted.
LEMMA Recount ==
  ASSUME NEW A \in SUBSET Handlers, NEW B \in SUBSET Handlers, NEW h \in Handlers,
         A \ {h} = B \ {h}, NEW x \in Int, NEW y \in Int, NEW u \in Int, NEW v \in Int,
         x + Cardinality(A) <= u, y + One(h \in B) <= x + One(h \in A) + (v - u)
  PROVE  y + Cardinality(B) <= v
<1> DEFINE n == Cardinality(A \ {h})
           a == One(h \in A)
           b == One(h \in B)
<1>1. Cardinality(A) = n + a /\ n \in Nat
  BY Weight
<1>2. Cardinality(B) = n + b
  BY Weight
<1>3. a \in Int /\ b \in Int
  BY DEF One
<1>4. x + (n + a) <= u /\ y + b <= x + a + (v - u)
  BY <1>1
<1>5. y + (n + b) <= v
  <2> HIDE DEF n, a, b
  <2> QED BY <1>1, <1>3, <1>4
<1> QED BY <1>2, <1>5

\* One handler moves.
LEMMA CountStep ==
  ASSUME Numbers, Numbers', Counted, NEW h \in Handlers,
         pc \in [Handlers -> Labels],
         \A g \in Handlers : g # h => pc'[g] = pc[g] /\ arg'[g] = arg[g],
         \/ leaks' + One(InOpen(h)') <= leaks + One(InOpen(h))
         \/ Spare /\ leaks' = leaks /\ ~InOpen(h),
         serials'.trial + One(NeedsTrial(h)')
           <= serials.trial + One(NeedsTrial(h)) + (requests' - requests),
         serials'.poll + One(NeedsPoll(h)')
           <= serials.poll + One(NeedsPoll(h)) + (requests' - requests)
  PROVE  Counted'
<1>0. /\ Open \in SUBSET Handlers /\ Open' \in SUBSET Handlers
      /\ WantTrial \in SUBSET Handlers /\ WantTrial' \in SUBSET Handlers
      /\ WantPoll \in SUBSET Handlers /\ WantPoll' \in SUBSET Handlers
  BY DEF Open, WantTrial, WantPoll
<1>1. /\ Open \ {h} = Open' \ {h} /\ WantTrial \ {h} = WantTrial' \ {h}
      /\ WantPoll \ {h} = WantPoll' \ {h}
  BY DEF Open, WantTrial, WantPoll, NeedsTrial, NeedsPoll
<1>2. /\ (h \in Open <=> InOpen(h)) /\ (h \in Open' <=> InOpen(h)')
      /\ (h \in WantTrial <=> NeedsTrial(h)) /\ (h \in WantTrial' <=> NeedsTrial(h)')
      /\ (h \in WantPoll <=> NeedsPoll(h)) /\ (h \in WantPoll' <=> NeedsPoll(h)')
  BY DEF Open, WantTrial, WantPoll, InOpen
<1>3. /\ serials.trial \in Int /\ serials'.trial \in Int
      /\ serials.poll \in Int /\ serials'.poll \in Int
      /\ leaks \in Int /\ leaks' \in Int /\ PoolSize \in Int
      /\ requests \in Int /\ requests' \in Int
  BY BoundAssumption DEF Numbers
<1>4. serials'.trial + Cardinality(WantTrial') <= requests'
  <2>1. /\ serials.trial + Cardinality(WantTrial) <= requests
        /\ serials'.trial + One(h \in WantTrial')
             <= serials.trial + One(h \in WantTrial) + (requests' - requests)
    BY <1>2 DEF Counted, One
  <2> QED BY <1>0, <1>1, <1>3, <2>1, Recount
<1>5. serials'.poll + Cardinality(WantPoll') <= requests'
  <2>1. /\ serials.poll + Cardinality(WantPoll) <= requests
        /\ serials'.poll + One(h \in WantPoll')
             <= serials.poll + One(h \in WantPoll) + (requests' - requests)
    BY <1>2 DEF Counted, One
  <2> QED BY <1>0, <1>1, <1>3, <2>1, Recount
<1>6. leaks' + Cardinality(Open') <= PoolSize
  <2>1. CASE leaks' + One(InOpen(h)') <= leaks + One(InOpen(h))
    <3>1. /\ leaks + Cardinality(Open) <= PoolSize
          /\ leaks' + One(h \in Open') <= leaks + One(h \in Open) + (PoolSize - PoolSize)
      BY <1>2, <1>3, <2>1 DEF Counted, One
    <3> QED BY <1>0, <1>1, <1>3, <3>1, Recount
  <2>2. CASE Spare /\ leaks' = leaks /\ ~InOpen(h)
    <3>1. Cardinality(Open) \in Nat /\ leaks + Cardinality(Open) <= PoolSize - 1
      BY <1>0, <1>3, <2>2, CardNat DEF Spare
    <3>2. leaks' + One(h \in Open') <= leaks + One(h \in Open) + (PoolSize - (PoolSize - 1))
      BY <1>2, <1>3, <2>2 DEF One
    <3>3. PoolSize - 1 \in Int
      BY <1>3
    <3> QED BY <1>0, <1>1, <1>3, <3>1, <3>2, <3>3, Recount
  <2> QED BY <2>1, <2>2
<1> QED BY <1>4, <1>5, <1>6 DEF Counted
\* The same for a step that takes no number and makes no request.
LEMMA QuietCount ==
  ASSUME Numbers, Numbers', Counted, NEW h \in Handlers, NEW label,
         pc \in [Handlers -> Labels], Goto(h, label), arg' = arg,
         \/ leaks' = leaks /\ (label \in InTxn => pc[h] \in InTxn)
         \/ leaks' = leaks + 1 /\ label \notin InTxn /\ pc[h] \in InTxn
         \/ leaks' = leaks /\ Spare /\ pc[h] \notin InTxn,
         UNCHANGED <<serials, requests>>, NeedsTrial(h)' => NeedsTrial(h),
         NeedsPoll(h)' => NeedsPoll(h)
  PROVE  Counted'
<1>1. \A g \in Handlers : pc'[g] = IF g = h THEN label ELSE pc[g]
  BY DEF Goto
<1>2. \/ leaks' + One(InOpen(h)') <= leaks + One(InOpen(h))
      \/ Spare /\ leaks' = leaks /\ ~InOpen(h)
  <2>1. /\ leaks \in Nat
        /\ (InOpen(h)' <=> label \in InTxn) /\ (InOpen(h) <=> pc[h] \in InTxn)
    BY <1>1 DEF Numbers, InOpen
  <2> QED BY <2>1 DEF One
<1>3. /\ serials'.trial + One(NeedsTrial(h)')
           <= serials.trial + One(NeedsTrial(h)) + (requests' - requests)
      /\ serials'.poll + One(NeedsPoll(h)')
           <= serials.poll + One(NeedsPoll(h)) + (requests' - requests)
  BY DEF Numbers, One
<1> QED BY <1>1, <1>2, <1>3, CountStep

LEMMA NumbersStep ==
  ASSUME Numbers, [Next]_vars PROVE Numbers'
<1> USE DEF Numbers
<1>1. ASSUME NEW h \in Handlers, NEW op \in Ops, NEW id \in Ids(op), Request(h, op, id)
      PROVE  Numbers'
  BY <1>1, BoundAssumption DEF Request, leaked
<1>2. ASSUME NEW h \in Handlers, InsertTrial(h) \/ InsertPoll(h) \/ InsertSubject(h)
      PROVE  Numbers'
  BY <1>2 DEF InsertTrial, InsertPoll, InsertSubject, leaked
<1>3. ASSUME NEW h \in Handlers, FindFails(h) \/ Save(h) \/ Fault(h)
      PROVE  Numbers'
  BY <1>3 DEF FindFails, Save, Fault, DrawInVain
<1>4. ASSUME NEW h \in Handlers,
             \/ Connect(h) \/ AddJob(h) \/ CommitTrial(h) \/ Find(h) \/ SoftDelete(h)
             \/ DeletePoll(h) \/ CommitDelete(h) \/ Guard(h) \/ Reword(h) \/ DropPoll(h)
      PROVE  Numbers'
  BY <1>4 DEF Connect, AddJob, CommitTrial, Find, SoftDelete, DeletePoll, CommitDelete,
              Guard, Reword, DropPoll, leaked
<1>5. CASE StartJob \/ UpdateTimeDone \/ FailJob \/ CastBallot \/ Replicate
           \/ UNCHANGED vars
  BY <1>5 DEF StartJob, UpdateTimeDone, FailJob, CastBallot, Replicate, leaked, vars
<1>6. CASE Crash
  BY <1>6, BoundAssumption DEF Crash
<1> QED BY <1>1, <1>2, <1>3, <1>4, <1>5, <1>6 DEF Next, Handle

LEMMA CountedStep ==
  ASSUME Shape, Numbers, Counted, [Next]_vars PROVE Counted'
<1>0. /\ Numbers' /\ pc \in [Handlers -> Labels] /\ DOMAIN arg = Handlers
      /\ arg \in [Handlers -> [op : AllOps, id : Nat \ {0}, poll : Nat]]
      /\ serials.trial \in Nat /\ serials.poll \in Nat /\ requests \in Nat /\ leaks \in Nat
      /\ serials \in [trial : Nat, poll : Nat]
  BY NumbersStep DEF Shape, Numbers
<1>1. ASSUME NEW h \in Handlers, NEW op \in Ops, NEW id \in Ids(op), Request(h, op, id)
      PROVE  Counted'
  <2>1. PICK label \in {"guard", "connect"} : Goto(h, label)
    BY <1>1 DEF Request
  <2>2. \A g \in Handlers : pc'[g] = IF g = h THEN label ELSE pc[g]
    BY <1>0, <2>1 DEF Goto
  <2>3. /\ \A g \in Handlers : g # h => arg'[g] = arg[g]
        /\ serials' = serials /\ leaks' = leaks /\ requests' = requests + 1
    BY <1>0, <1>1 DEF Request, leaked
  <2>4. leaks' + One(InOpen(h)') <= leaks + One(InOpen(h))
    BY <1>0, <2>2, <2>3 DEF One, InOpen, InTxn, Creating
  <2>5. /\ serials'.trial + One(NeedsTrial(h)')
             <= serials.trial + One(NeedsTrial(h)) + (requests' - requests)
        /\ serials'.poll + One(NeedsPoll(h)')
             <= serials.poll + One(NeedsPoll(h)) + (requests' - requests)
    BY <1>0, <2>3 DEF One
  <2> QED BY <1>0, <2>2, <2>3, <2>4, <2>5, CountStep
<1>2. ASSUME NEW h \in Handlers, Connect(h) PROVE Counted'
  <2>1. PICK label \in {"insertTrial", "find", "softDelete"} :
          Goto(h, label) /\ (label = "insertTrial" <=> arg[h].op = "create")
    BY <1>2 DEF Connect
  <2>2. pc'[h] = label /\ arg' = arg /\ pc[h] = "connect"
    BY <1>0, <1>2, <2>1 DEF Connect, Goto
  <2>3. (NeedsTrial(h)' => NeedsTrial(h)) /\ (NeedsPoll(h)' => NeedsPoll(h))
    BY <2>1, <2>2 DEF NeedsTrial, NeedsPoll
  <2>4. leaks' = leaks /\ Spare /\ pc[h] \notin InTxn
    BY <1>2, <2>2 DEF Connect, leaked, InTxn, Creating
  <2> QED BY <1>0, <1>2, <2>1, <2>2, <2>3, <2>4, QuietCount DEF Connect
<1>3. ASSUME NEW h \in Handlers, InsertTrial(h) PROVE Counted'
  <2>1. /\ pc[h] = "insertTrial" /\ \A g \in Handlers : g # h => arg'[g] = arg[g]
        /\ serials'.trial = serials.trial + 1 /\ serials'.poll = serials.poll
        /\ leaks' = leaks /\ requests' = requests
    BY <1>0, <1>3 DEF InsertTrial, leaked
  <2>2. \A g \in Handlers : pc'[g] = IF g = h THEN "insertPoll" ELSE pc[g]
    BY <1>0, <1>3 DEF InsertTrial, Goto
  <2>3. leaks' + One(InOpen(h)') <= leaks + One(InOpen(h))
    BY <1>0, <2>1, <2>2 DEF One, InOpen, InTxn, Creating
  <2>4. NeedsTrial(h) /\ ~NeedsTrial(h)' /\ NeedsPoll(h)
    BY <2>1, <2>2 DEF NeedsTrial, NeedsPoll
  <2>5. /\ serials'.trial + One(NeedsTrial(h)')
             <= serials.trial + One(NeedsTrial(h)) + (requests' - requests)
        /\ serials'.poll + One(NeedsPoll(h)')
             <= serials.poll + One(NeedsPoll(h)) + (requests' - requests)
    BY <1>0, <2>1, <2>4 DEF One
  <2> QED BY <1>0, <2>1, <2>2, <2>3, <2>5, CountStep
<1>4. ASSUME NEW h \in Handlers, InsertPoll(h) \/ InsertSubject(h) PROVE Counted'
  <2>1. /\ pc[h] \in {"insertPoll", "insertSubject"}
        /\ \A g \in Handlers : g # h => arg'[g] = arg[g]
        /\ serials'.trial = serials.trial /\ serials'.poll = serials.poll + 1
        /\ leaks' = leaks /\ requests' = requests
    BY <1>0, <1>4 DEF InsertPoll, InsertSubject, leaked
  <2>2. PICK label \in {"addJob", "idle"} : Goto(h, label) /\ (label = "addJob" => InsertPoll(h))
    BY <1>4 DEF InsertPoll, InsertSubject
  <2>3. \A g \in Handlers : pc'[g] = IF g = h THEN label ELSE pc[g]
    BY <1>0, <2>2 DEF Goto
  <2>4. leaks' + One(InOpen(h)') <= leaks + One(InOpen(h))
    BY <1>0, <2>1, <2>2, <2>3 DEF One, InOpen, InTxn, Creating, InsertPoll
  <2>5. ~NeedsTrial(h)' /\ ~NeedsPoll(h)' /\ NeedsPoll(h)
    BY <2>1, <2>3 DEF NeedsTrial, NeedsPoll
  <2>6. /\ serials'.trial + One(NeedsTrial(h)')
             <= serials.trial + One(NeedsTrial(h)) + (requests' - requests)
        /\ serials'.poll + One(NeedsPoll(h)')
             <= serials.poll + One(NeedsPoll(h)) + (requests' - requests)
    BY <1>0, <2>1, <2>5 DEF One
  <2> QED BY <1>0, <2>1, <2>3, <2>4, <2>6, CountStep
<1>5. ASSUME NEW h \in Handlers,
             \/ AddJob(h) \/ CommitTrial(h) \/ Find(h) \/ SoftDelete(h) \/ DeletePoll(h)
             \/ CommitDelete(h) \/ Reword(h) \/ DropPoll(h)
      PROVE  Counted'
  <2>1. PICK label \in {"commitTrial", "idle", "save", "deletePoll", "deletePollOnly",
                        "commitDelete"} :
          Goto(h, label) /\ (label # "idle" => pc[h] \in InTxn)
    BY <1>5 DEF AddJob, CommitTrial, Find, SoftDelete, DeletePoll, CommitDelete, Reword,
                DropPoll, InTxn, Creating
  <2>2. arg' = arg /\ leaks' = leaks /\ UNCHANGED <<serials, requests>>
    BY <1>5 DEF AddJob, CommitTrial, Find, SoftDelete, DeletePoll, CommitDelete, Reword,
                DropPoll, leaked
  <2>3. ~NeedsTrial(h)' /\ ~NeedsPoll(h)'
    BY <1>0, <2>1 DEF Goto, NeedsTrial, NeedsPoll
  <2>4. label \in InTxn => pc[h] \in InTxn
    BY <2>1 DEF InTxn, Creating
  <2> QED BY <1>0, <2>1, <2>2, <2>3, <2>4, QuietCount
<1>6. ASSUME NEW h \in Handlers, FindFails(h) \/ Save(h) \/ Fault(h) PROVE Counted'
  <2>1. Goto(h, "idle") /\ arg' = arg /\ requests' = requests
    BY <1>6 DEF FindFails, Save, Fault
  <2>2. leaks' = leaks \/ (leaks' = leaks + 1 /\ pc[h] \in {"find", "save"})
    BY <1>6 DEF FindFails, Save, Fault
  <2>3. ~NeedsTrial(h)' /\ ~NeedsPoll(h)' /\ pc'[h] = "idle"
    BY <1>0, <2>1 DEF Goto, NeedsTrial, NeedsPoll
  <2>4. "idle" \notin InTxn /\ (pc[h] \in {"find", "save"} => pc[h] \in InTxn)
    BY DEF InTxn, Creating
  <2>5. \/ serials' = serials
        \/ NeedsTrial(h) /\ serials'.trial = serials.trial + 1 /\ serials'.poll = serials.poll
        \/ NeedsPoll(h) /\ serials'.poll = serials.poll + 1 /\ serials'.trial = serials.trial
    BY <1>0, <1>6 DEF FindFails, Save, Fault, DrawInVain, NeedsTrial, NeedsPoll
  <2>6. leaks' + One(InOpen(h)') <= leaks + One(InOpen(h))
    BY <1>0, <2>2, <2>3, <2>4 DEF One, InOpen
  <2>7. /\ serials'.trial + One(NeedsTrial(h)')
             <= serials.trial + One(NeedsTrial(h)) + (requests' - requests)
        /\ serials'.poll + One(NeedsPoll(h)')
             <= serials.poll + One(NeedsPoll(h)) + (requests' - requests)
    BY <1>0, <2>1, <2>3, <2>5 DEF One
  <2>8. \A g \in Handlers : g # h => pc'[g] = pc[g] /\ arg'[g] = arg[g]
    BY <1>0, <2>1 DEF Goto
  <2> QED BY <1>0, <2>6, <2>7, <2>8, CountStep
<1>7. ASSUME NEW h \in Handlers, Guard(h) PROVE Counted'
  <2>1. PICK label \in {"idle", "insertSubject", "reword", "dropPoll"} :
          Goto(h, label) /\ (label = "insertSubject" => arg[h].op = "subject")
    BY <1>7 DEF Guard, AfterGuard
  <2>2. /\ arg' = arg /\ leaks' = leaks /\ UNCHANGED <<serials, requests>>
        /\ pc[h] = "guard" /\ pc'[h] = label
    BY <1>0, <1>7, <2>1 DEF Guard, leaked, Goto
  <2>3. ~NeedsTrial(h)' /\ (NeedsPoll(h)' => NeedsPoll(h))
    BY <2>1, <2>2 DEF NeedsTrial, NeedsPoll
  <2>4. label \notin InTxn
    BY <2>1 DEF InTxn, Creating
  <2> QED BY <1>0, <2>1, <2>2, <2>3, <2>4, QuietCount
<1>8. CASE StartJob \/ UpdateTimeDone \/ FailJob \/ CastBallot \/ Replicate
           \/ UNCHANGED vars
  <2>1. UNCHANGED <<pc, arg, leaks, serials, requests>>
    BY <1>8 DEF StartJob, UpdateTimeDone, FailJob, CastBallot, Replicate, leaked, vars
  <2> QED BY <2>1 DEF Counted, Open, WantTrial, WantPoll, NeedsTrial, NeedsPoll
<1>9. CASE Crash
  <2>1. /\ pc' = [h \in Handlers |-> "idle"] /\ leaks' = 0
        /\ UNCHANGED <<arg, serials, requests>>
    BY <1>9 DEF Crash
  <2>2. Open' = {} /\ WantTrial' = {} /\ WantPoll' = {}
    BY <2>1 DEF Open, WantTrial, WantPoll, NeedsTrial, NeedsPoll, InTxn, Creating
  <2>3. Cardinality({}) = 0
    BY FS_EmptySet
  <2>4. Cardinality(WantTrial) \in Nat /\ Cardinality(WantPoll) \in Nat /\ PoolSize \in Nat
    BY CardNat, BoundAssumption DEF WantTrial, WantPoll
  <2> QED BY <1>0, <2>1, <2>2, <2>3, <2>4 DEF Counted
<1> QED BY <1>1, <1>2, <1>3, <1>4, <1>5, <1>6, <1>7, <1>8, <1>9 DEF Next, Handle
LEMMA StillFresh ==
  ASSUME Fresh, serials.trial \in Nat, serials'.trial \in {serials.trial, serials.trial + 1},
         made' = made, made \subseteq Nat, \A g \in Handlers : arg[g].id \in Nat,
         \A g \in Handlers : New(g)' => New(g) /\ arg'[g].id = arg[g].id
  PROVE  Fresh'
<1>1. /\ \A t \in made : t <= serials'.trial
      /\ \A h \in Handlers : New(h) => arg[h].id <= serials'.trial
  BY DEF Fresh
<1> QED
  BY <1>1 DEF Fresh

LEMMA StillErasing ==
  ASSUME Erasing, made \subseteq made',
         \A g \in Handlers : pc'[g] \in {"deletePoll", "commitDelete"} =>
           pc[g] \in {"deletePoll", "commitDelete"} /\ arg'[g].id = arg[g].id
  PROVE  Erasing'
BY DEF Erasing

LEMMA FreshStep ==
  ASSUME Shape, made \subseteq Nat, Fresh, Erasing, [Next]_vars
  PROVE  Fresh' /\ Erasing'
<1>0. /\ pc \in [Handlers -> Labels] /\ DOMAIN arg = Handlers
      /\ serials.trial \in Nat /\ \A g \in Handlers : arg[g].id \in Nat
  BY DEF Shape
<1>a. ASSUME NEW h \in Handlers, NEW label, Goto(h, label),
             label \notin {"insertPoll", "addJob", "commitTrial"} \/ New(h),
             label \notin {"deletePoll", "commitDelete"} \/ arg[h].id \in made,
             \A g \in Handlers : g # h => arg'[g] = arg[g],
             arg'[h].id = arg[h].id
               \/ label \notin {"insertPoll", "addJob", "commitTrial", "deletePoll", "commitDelete"},
             serials'.trial \in {serials.trial, serials.trial + 1}, made' = made
      PROVE  Fresh' /\ Erasing'
  <2>1. \A g \in Handlers : pc'[g] = IF g = h THEN label ELSE pc[g]
    BY <1>0, <1>a DEF Goto
  <2>2. \A g \in Handlers : New(g)' => New(g) /\ arg'[g].id = arg[g].id
    BY <1>a, <2>1 DEF New
  <2>3. Erasing'
    BY <1>a, <2>1 DEF Erasing
  <2> QED BY <1>0, <1>a, <2>2, <2>3, StillFresh
<1>1. ASSUME NEW h \in Handlers, NEW op \in Ops, NEW id \in Ids(op), Request(h, op, id)
      PROVE  Fresh' /\ Erasing'
  <2>1. PICK label \in {"guard", "connect"} : Goto(h, label)
    BY <1>1 DEF Request
  <2> QED BY <1>0, <1>1, <2>1, <1>a DEF Request, trials
<1>2. ASSUME NEW h \in Handlers, InsertTrial(h) PROVE Fresh' /\ Erasing'
  <2> DEFINE n == serials.trial + 1
  <2>1. /\ serials'.trial = n /\ arg'[h].id = n /\ pc[h] = "insertTrial" /\ made' = made
        /\ \A g \in Handlers : g # h => arg'[g] = arg[g]
    BY <1>0, <1>2 DEF InsertTrial, Shape, trials
  <2>2. \A g \in Handlers : pc'[g] = IF g = h THEN "insertPoll" ELSE pc[g]
    BY <1>0, <1>2 DEF InsertTrial, Goto
  <2>3. ~New(h) /\ \A g \in Handlers : New(g)' <=> (g = h \/ New(g))
    BY <2>1, <2>2 DEF New
  <2>4. n \in Nat /\ n > serials.trial
    BY <1>0
  <2>5. /\ \A t \in made : t <= n /\ t # n
        /\ \A g \in Handlers : New(g) => arg[g].id <= n /\ arg[g].id # n
    <3>1. /\ \A t \in made : t \in Nat /\ t <= serials.trial
          /\ \A g \in Handlers : New(g) => arg[g].id <= serials.trial
      BY DEF Fresh
    <3> QED BY <1>0, <3>1
  <2>6. Fresh'
    <3> HIDE DEF n
    <3> QED BY <2>1, <2>3, <2>4, <2>5 DEF Fresh
  <2>7. Erasing'
    BY <2>1, <2>2 DEF Erasing
  <2> QED BY <2>6, <2>7
<1>3. ASSUME NEW h \in Handlers, CommitTrial(h) PROVE Fresh' /\ Erasing'
  <2>1. /\ serials' = serials /\ arg' = arg /\ pc[h] = "commitTrial"
        /\ made' = made \cup {arg[h].id}
    BY <1>3 DEF CommitTrial
  <2>2. \A g \in Handlers : pc'[g] = IF g = h THEN "idle" ELSE pc[g]
    BY <1>0, <1>3 DEF CommitTrial, Goto
  <2>3. New(h) /\ \A g \in Handlers : New(g)' <=> (g # h /\ New(g))
    BY <2>1, <2>2 DEF New
  <2>4. Fresh'
    BY <2>1, <2>3 DEF Fresh
  <2>5. Erasing'
    BY <2>1, <2>2 DEF Erasing
  <2> QED BY <2>4, <2>5
<1>4. ASSUME NEW h \in Handlers, InsertPoll(h) PROVE Fresh' /\ Erasing'
  <2>1. /\ serials'.trial = serials.trial /\ arg'[h].id = arg[h].id /\ New(h)
        /\ \A g \in Handlers : g # h => arg'[g] = arg[g]
    BY <1>0, <1>4 DEF InsertPoll, Shape, New
  <2> QED BY <1>4, <2>1, <1>a DEF InsertPoll, trials
<1>5. ASSUME NEW h \in Handlers,
             \/ Connect(h) \/ FindFails(h) \/ Find(h) \/ Save(h) \/ Reword(h) \/ DropPoll(h)
             \/ CommitDelete(h) \/ Guard(h) \/ InsertSubject(h) \/ Fault(h)
      PROVE  Fresh' /\ Erasing'
  <2>1. PICK label \in {"insertTrial", "find", "softDelete", "idle", "save",
                        "insertSubject", "reword", "dropPoll"} : Goto(h, label)
    BY <1>5 DEF Connect, FindFails, Find, Save, Reword, DropPoll, CommitDelete, Guard,
                AfterGuard, InsertSubject, Fault
  <2>2. arg' = arg /\ made' = made /\ serials'.trial \in {serials.trial, serials.trial + 1}
    BY <1>0, <1>5 DEF Connect, FindFails, Find, Save, Reword, DropPoll, CommitDelete, Guard,
                InsertSubject, Fault, DrawInVain, trials, Shape
  <2> QED BY <2>1, <2>2, <1>a
<1>6. ASSUME NEW h \in Handlers, AddJob(h) \/ SoftDelete(h) \/ DeletePoll(h)
      PROVE  Fresh' /\ Erasing'
  <2>1. PICK label \in {"commitTrial", "deletePoll", "deletePollOnly", "commitDelete", "idle"} :
          /\ Goto(h, label) /\ (label = "commitTrial" => New(h))
          /\ (label \in {"deletePoll", "commitDelete"} => arg[h].id \in made)
    BY <1>6 DEF AddJob, SoftDelete, DeletePoll, New, Erasing
  <2>2. arg' = arg /\ made' = made /\ serials' = serials
    BY <1>6 DEF AddJob, SoftDelete, DeletePoll, trials
  <2> QED BY <2>1, <2>2, <1>a
<1>7. CASE StartJob \/ UpdateTimeDone \/ FailJob \/ CastBallot \/ Replicate
           \/ UNCHANGED vars
  <2>1. UNCHANGED <<pc, arg, made, serials>>
    BY <1>7 DEF StartJob, UpdateTimeDone, FailJob, CastBallot, Replicate, trials, vars
  <2> QED BY <1>0, <2>1, StillFresh, StillErasing DEF New
<1>8. CASE Crash
  <2>1. UNCHANGED <<arg, made, serials>> /\ \A g \in Handlers : pc'[g] = "idle"
    BY <1>8 DEF Crash, trials
  <2> QED BY <1>0, <2>1, StillFresh, StillErasing DEF New
<1> QED BY <1>1, <1>2, <1>3, <1>4, <1>5, <1>6, <1>7, <1>8 DEF Next, Handle

-----------------------------------------------------------------------------
TypeInv == TypeOK /\ Counted /\ Fresh /\ Erasing

LEMMA TypesInit == Init => TypeInv
<1> SUFFICES ASSUME Init PROVE TypeInv
  OBVIOUS
<1>1. made = {} /\ over = {} /\ deleted = {} /\ replica \in Version /\ wal \in Seq(Version)
  BY DEF Init, Version
<1>2. /\ poll \in [PollIds -> {0} \cup made]
      /\ \A p, q \in PollIds : poll[p] = poll[q] /\ poll[p] # 0 => p = q
      /\ wording \in [PollIds -> Texts] /\ voted \subseteq PollIds /\ drifted \in BOOLEAN
  BY DEF Init, Texts
<1>3. /\ serials \in [trial : 0..requests, poll : 0..requests]
      /\ leaks \in 0..PoolSize /\ requests \in 0..MaxRequests /\ crashes \in 0..MaxCrashes
  BY BoundAssumption DEF Init
<1>4. pc \in [Handlers -> Labels]
  BY DEF Init, Labels
<1>5. 1 \in TrialIds /\ 1 \in PollIds
  BY BoundAssumption DEF TrialIds, PollIds
<1>6. arg \in [Handlers -> [op : AllOps, id : TrialIds \cup PollIds, poll : PollIds]]
  BY <1>5 DEF Init, AllOps
<1>7. /\ stuck \subseteq TrialIds /\ queued \subseteq TrialIds /\ running \in {0} \cup TrialIds
      /\ stalled \subseteq TrialIds /\ missed \subseteq TrialIds
  BY DEF Init
<1>8. TypeOK
  BY <1>1, <1>2, <1>3, <1>4, <1>6, <1>7 DEF TypeOK
<1>9. Counted
  <2>1. Open = {} /\ WantTrial = {} /\ WantPoll = {}
    BY DEF Init, Open, WantTrial, WantPoll, NeedsTrial, NeedsPoll, InTxn, Creating
  <2> QED BY <2>1, FS_EmptySet, BoundAssumption DEF Init, Counted
<1>10. Fresh /\ Erasing
  BY DEF Init, Fresh, Erasing, New
<1> QED BY <1>8, <1>9, <1>10 DEF TypeInv

\* What the lemmas above need of the types.
LEMMA TypesGive == TypeInv => Shape /\ Numbers /\ made \subseteq Nat
<1> SUFFICES ASSUME TypeInv PROVE Shape /\ Numbers /\ made \subseteq Nat
  OBVIOUS
<1>1. /\ requests \in 0..MaxRequests /\ leaks \in 0..PoolSize /\ crashes \in 0..MaxCrashes
      /\ serials \in [trial : 0..requests, poll : 0..requests]
  BY DEF TypeInv, TypeOK
<1>2. Numbers
  BY <1>1, BoundAssumption DEF Numbers
<1>3. TrialIds \cup PollIds \subseteq Nat \ {0} /\ PollIds \subseteq Nat
  BY BoundAssumption DEF TrialIds, PollIds
<1>4. arg \in [Handlers -> [op : AllOps, id : Nat \ {0}, poll : Nat]]
  BY <1>3 DEF TypeInv, TypeOK
<1>5. Shape
  BY <1>2, <1>4 DEF Shape, Numbers, TypeInv, TypeOK
<1>6. made \subseteq Nat
  BY <1>3 DEF TypeInv, TypeOK
<1> QED BY <1>2, <1>5, <1>6

\* A handler that needs a number finds one within the bound.
LEMMA NumberLeft ==
  ASSUME TypeInv, NEW h \in Handlers
  PROVE  /\ NeedsTrial(h) => serials.trial + 1 \in TrialIds
         /\ NeedsPoll(h) => serials.poll + 1 \in PollIds
<1>1. /\ serials.trial \in Nat /\ serials.poll \in Nat /\ requests \in Nat
      /\ requests <= MaxRequests /\ MaxRequests \in Nat
  BY TypesGive, BoundAssumption DEF Numbers
<1>2. ASSUME NEW A \in SUBSET Handlers, h \in A, NEW x \in Nat, x + Cardinality(A) <= requests
      PROVE  x + 1 \in 1..MaxRequests
  <2>1. Cardinality(A) = Cardinality(A \ {h}) + 1 /\ Cardinality(A \ {h}) \in Nat
    BY <1>2, Weight DEF One
  <2> QED BY <1>1, <1>2, <2>1
<1>3. /\ WantTrial \in SUBSET Handlers /\ WantPoll \in SUBSET Handlers
      /\ serials.trial + Cardinality(WantTrial) <= requests
      /\ serials.poll + Cardinality(WantPoll) <= requests
  BY DEF WantTrial, WantPoll, TypeInv, Counted
<1>4. NeedsTrial(h) => serials.trial + 1 \in 1..MaxRequests
  <2>1. NeedsTrial(h) => h \in WantTrial
    BY DEF WantTrial
  <2> QED BY <1>1, <1>3, <2>1, <1>2
<1>5. NeedsPoll(h) => serials.poll + 1 \in 1..MaxRequests
  <2>1. NeedsPoll(h) => h \in WantPoll
    BY DEF WantPoll
  <2> QED BY <1>1, <1>3, <2>1, <1>2
<1> QED BY <1>4, <1>5 DEF TrialIds, PollIds
\* The table of trials, its versions on the slave's side, and the queue.
LEMMA TablesStep ==
  ASSUME TypeInv, [Next]_vars
  PROVE  /\ made' \subseteq TrialIds /\ over' \subseteq made' /\ deleted' \subseteq made'
         /\ replica' \in Version /\ wal' \in Seq(Version)
         /\ made \subseteq made'
<1> DEFINE Goal == /\ made' \subseteq TrialIds /\ over' \subseteq made' /\ deleted' \subseteq made'
                   /\ replica' \in Version /\ wal' \in Seq(Version) /\ made \subseteq made'
<1>0. /\ made \subseteq TrialIds /\ over \subseteq made /\ deleted \subseteq made
      /\ replica \in Version /\ wal \in Seq(Version)
      /\ \A h \in Handlers : arg[h].id \in TrialIds
  BY DEF TypeInv, TypeOK, TrialIds, PollIds
<1>a. ASSUME made' \subseteq TrialIds, over' \subseteq made', deleted' \subseteq made', Ship,
             made \subseteq made'
      PROVE  Goal
  <2>1. [made |-> made', over |-> over', deleted |-> deleted'] \in Version
    BY <1>a DEF Version
  <2>2. replica' = replica
        /\ wal' = Append(wal, [made |-> made', over |-> over', deleted |-> deleted'])
    BY <1>a DEF Ship
  <2> QED BY <1>0, <1>a, <2>1, <2>2
<1>b. ASSUME UNCHANGED trials PROVE Goal
  BY <1>0, <1>b DEF trials
<1>1. ASSUME NEW h \in Handlers, CommitTrial(h) PROVE Goal
  BY <1>0, <1>1, <1>a DEF CommitTrial
<1>2. ASSUME NEW h \in Handlers, CommitDelete(h) PROVE Goal
  <2>1. arg[h].id \in made
    BY <1>2 DEF CommitDelete, TypeInv, Erasing
  <2> QED BY <1>0, <1>2, <2>1, <1>a DEF CommitDelete
<1>3. ASSUME UpdateTimeDone PROVE Goal
  <2>1. CASE running \in made
    BY <1>0, <1>3, <2>1, <1>a DEF UpdateTimeDone
  <2> QED BY <1>3, <2>1, <1>b DEF UpdateTimeDone
<1>4. ASSUME Replicate PROVE Goal
  <2>1. /\ Head(wal) \in Version /\ Tail(wal) \in Seq(Version)
    BY <1>0, <1>4 DEF Replicate
  <2> QED BY <1>0, <1>4, <2>1 DEF Replicate
<1>5. ASSUME NEW h \in Handlers, NEW op \in Ops, NEW id \in Ids(op), Request(h, op, id)
      PROVE  Goal
  BY <1>5, <1>b DEF Request
<1>6. ASSUME NEW h \in Handlers, Handle(h) \/ Fault(h), ~CommitTrial(h), ~CommitDelete(h)
      PROVE  UNCHANGED trials
  BY <1>6 DEF Handle, Connect, InsertTrial, InsertPoll, AddJob, FindFails, Find, Save,
              SoftDelete, DeletePoll, Guard, InsertSubject, Reword, DropPoll, Fault
<1>7. ASSUME StartJob \/ FailJob \/ Crash \/ CastBallot \/ UNCHANGED vars PROVE Goal
  BY <1>7, <1>b DEF StartJob, FailJob, Crash, CastBallot, vars, trials
<1> HIDE DEF Goal
<1>8. Goal
  BY <1>1, <1>2, <1>3, <1>4, <1>5, <1>6, <1>7, <1>b DEF Next
<1> QED BY <1>8 DEF Goal

LEMMA PollsStep ==
  ASSUME TypeInv, [Next]_vars
  PROVE  /\ poll' \in [PollIds -> {0} \cup made']
         /\ \A p, q \in PollIds : poll'[p] = poll'[q] /\ poll'[p] # 0 => p = q
         /\ wording' \in [PollIds -> Texts] /\ voted' \subseteq PollIds
<1> DEFINE Goal == /\ poll' \in [PollIds -> {0} \cup made']
                   /\ \A p, q \in PollIds : poll'[p] = poll'[q] /\ poll'[p] # 0 => p = q
                   /\ wording' \in [PollIds -> Texts] /\ voted' \subseteq PollIds
<1>0. /\ poll \in [PollIds -> {0} \cup made]
      /\ \A p, q \in PollIds : poll[p] = poll[q] /\ poll[p] # 0 => p = q
      /\ wording \in [PollIds -> Texts] /\ voted \subseteq PollIds
      /\ made \subseteq made' /\ 0 \notin made
  <2>1. made \subseteq made'
    BY TablesStep
  <2>2. 0 \notin made
    BY DEF TypeInv, TypeOK, TrialIds
  <2> QED BY <2>1, <2>2 DEF TypeInv, TypeOK
<1>a. ASSUME UNCHANGED <<poll, wording, voted>> PROVE Goal
  BY <1>0, <1>a
\* A row disappears.
<1>b. ASSUME NEW i, DropRow(i) PROVE Goal
  <2>1. poll' = [poll EXCEPT ![i] = 0] /\ wording' = wording /\ voted' = voted
    BY <1>b DEF DropRow
  <2>2. \A p \in PollIds : poll'[p] = IF p = i THEN 0 ELSE poll[p]
    BY <1>0, <2>1
  <2>3. poll' \in [PollIds -> {0} \cup made']
    BY <1>0, <2>1
  <2> QED BY <1>0, <2>1, <2>2, <2>3
\* A row appears for a trial that has none.
<1>c. ASSUME NEW i, NEW t \in made', \A p \in PollIds : poll[p] # t,
             poll' = [poll EXCEPT ![i] = t], UNCHANGED <<wording, voted>>
      PROVE  Goal
  <2>2. \A p \in PollIds : poll'[p] = IF p = i THEN t ELSE poll[p]
    BY <1>0, <1>c
  <2>3. poll' \in [PollIds -> {0} \cup made']
    BY <1>0, <1>c
  <2> QED BY <1>0, <1>c, <2>2, <2>3
<1>1. ASSUME NEW h \in Handlers, CommitTrial(h) PROVE Goal
  <2>1. /\ poll' = [poll EXCEPT ![arg[h].poll] = arg[h].id] /\ made' = made \cup {arg[h].id}
        /\ UNCHANGED <<wording, voted>> /\ pc[h] = "commitTrial"
    BY <1>1 DEF CommitTrial
  <2>2. arg[h].id \notin made
    BY <2>1 DEF TypeInv, Fresh, New
  <2>a. arg[h].id # 0
    BY TypesGive DEF Shape
  <2>3. \A p \in PollIds : poll[p] # arg[h].id
    BY <1>0, <2>2, <2>a
  <2> QED BY <2>1, <2>3, <1>c
<1>2. ASSUME NEW h \in Handlers, InsertSubject(h) PROVE Goal
  <2>1. CASE arg[h].id \in made /\ \A p \in PollIds : poll[p] # arg[h].id
    BY <1>0, <1>2, <2>1, <1>c DEF InsertSubject
  <2> QED BY <1>2, <2>1, <1>a DEF InsertSubject
<1>3. ASSUME NEW h \in Handlers, DeletePoll(h) \/ DropPoll(h) PROVE Goal
  <2>1. UNCHANGED polls \/ DropRow(arg[h].id)
    BY <1>3 DEF DeletePoll, DropPoll
  <2> QED BY <2>1, <1>a, <1>b DEF polls
<1>4. ASSUME NEW h \in Handlers, Reword(h) PROVE Goal
  <2>1. wording' \in [PollIds -> Texts] /\ UNCHANGED <<poll, voted>>
    BY <1>0, <1>4 DEF Reword
  <2> QED BY <1>0, <2>1
<1>5. ASSUME CastBallot PROVE Goal
  <2>1. voted' \subseteq PollIds /\ UNCHANGED <<poll, wording>>
    BY <1>0, <1>5 DEF CastBallot
  <2> QED BY <1>0, <2>1
<1>6. ASSUME NEW h \in Handlers, NEW op \in Ops, NEW id \in Ids(op), Request(h, op, id)
      PROVE  Goal
  BY <1>6, <1>a DEF Request, polls
<1>7. ASSUME NEW h \in Handlers,
             \/ Connect(h) \/ InsertTrial(h) \/ InsertPoll(h) \/ AddJob(h) \/ FindFails(h)
             \/ Find(h) \/ Save(h) \/ SoftDelete(h) \/ CommitDelete(h) \/ Guard(h) \/ Fault(h)
      PROVE  UNCHANGED <<poll, wording, voted>>
  BY <1>7 DEF Connect, InsertTrial, InsertPoll, AddJob, FindFails, Find, Save, SoftDelete,
              CommitDelete, Guard, Fault, polls
<1>8. ASSUME StartJob \/ UpdateTimeDone \/ FailJob \/ Crash \/ Replicate \/ UNCHANGED vars PROVE Goal
  BY <1>8, <1>a DEF StartJob, UpdateTimeDone, FailJob, Crash, Replicate, vars, polls
<1> HIDE DEF Goal
<1>9. Goal
  BY <1>1, <1>2, <1>3, <1>4, <1>5, <1>6, <1>7, <1>8, <1>a DEF Next, Handle
<1> QED BY <1>9 DEF Goal

LEMMA QueueStep ==
  ASSUME TypeInv, [Next]_vars
  PROVE  /\ stuck' \subseteq TrialIds /\ queued' \subseteq TrialIds
         /\ running' \in {0} \cup TrialIds
         /\ stalled' \subseteq TrialIds /\ missed' \subseteq TrialIds
<1> DEFINE Goal == /\ stuck' \subseteq TrialIds /\ queued' \subseteq TrialIds
                   /\ running' \in {0} \cup TrialIds
                   /\ stalled' \subseteq TrialIds /\ missed' \subseteq TrialIds
<1>0. /\ stuck \subseteq TrialIds /\ queued \subseteq TrialIds
      /\ running \in {0} \cup TrialIds
      /\ stalled \subseteq TrialIds /\ missed \subseteq TrialIds
      /\ \A h \in Handlers : arg[h].id \in TrialIds
  BY DEF TypeInv, TypeOK, TrialIds, PollIds
<1>1. ASSUME NEW h \in Handlers, AddJob(h) PROVE Goal
  BY <1>0, <1>1 DEF AddJob, leaked
<1>2. ASSUME NEW h \in Handlers, Save(h) \/ FindFails(h) \/ Fault(h) PROVE Goal
  BY <1>0, <1>2 DEF Save, FindFails, Fault, queue
<1>3. ASSUME NEW h \in Handlers, NEW op \in Ops, NEW id \in Ids(op), Request(h, op, id)
      PROVE  Goal
  BY <1>0, <1>3 DEF Request, leaked, queue
<1>4. ASSUME NEW h \in Handlers, Handle(h), ~AddJob(h), ~Save(h), ~FindFails(h)
      PROVE  Goal
  <2>1. UNCHANGED <<leaked, queue>>
    BY <1>4 DEF Handle, Connect, InsertTrial, InsertPoll, CommitTrial, Find, SoftDelete,
                DeletePoll, CommitDelete, Guard, InsertSubject, Reword, DropPoll
  <2> QED BY <1>0, <2>1 DEF leaked, queue
<1>5. ASSUME StartJob \/ UpdateTimeDone \/ FailJob PROVE Goal
  BY <1>0, <1>5 DEF StartJob, UpdateTimeDone, FailJob, leaked
<1>6. ASSUME Crash PROVE Goal
  BY <1>0, <1>6 DEF Crash
<1>7. ASSUME CastBallot \/ Replicate \/ UNCHANGED vars PROVE Goal
  BY <1>0, <1>7 DEF CastBallot, Replicate, vars, leaked, queue
<1> HIDE DEF Goal
<1>8. Goal
  BY <1>1, <1>2, <1>3, <1>4, <1>5, <1>6, <1>7 DEF Next
<1> QED BY <1>8 DEF Goal

LEMMA ArgStep ==
  ASSUME TypeInv, [Next]_vars
  PROVE  arg' \in [Handlers -> [op : AllOps, id : TrialIds \cup PollIds, poll : PollIds]]
<1> DEFINE A == [op : AllOps, id : TrialIds \cup PollIds, poll : PollIds]
<1>0. arg \in [Handlers -> A] /\ 1 \in TrialIds /\ 1 \in PollIds
  BY BoundAssumption DEF TypeInv, TypeOK, TrialIds, PollIds
<1>1. ASSUME NEW h \in Handlers, NEW op \in Ops, NEW id \in Ids(op), Request(h, op, id)
      PROVE  arg' \in [Handlers -> A]
  <2>1. op \in AllOps /\ id \in TrialIds
    BY <1>0, BoundAssumption DEF Ids
  <2> QED BY <1>0, <1>1, <2>1 DEF Request
<1>2. ASSUME NEW h \in Handlers, InsertTrial(h) PROVE arg' \in [Handlers -> A]
  <2>1. serials.trial + 1 \in TrialIds
    BY <1>2, NumberLeft DEF InsertTrial, NeedsTrial
  <2> QED BY <1>0, <1>2, <2>1 DEF InsertTrial
<1>3. ASSUME NEW h \in Handlers, InsertPoll(h) PROVE arg' \in [Handlers -> A]
  <2>1. serials.poll + 1 \in PollIds
    BY <1>3, NumberLeft DEF InsertPoll, NeedsPoll
  <2> QED BY <1>0, <1>3, <2>1 DEF InsertPoll
<1>4. ASSUME NEW h \in Handlers, Handle(h) \/ Fault(h), ~InsertTrial(h), ~InsertPoll(h)
      PROVE  arg' = arg
  BY <1>4 DEF Handle, Connect, AddJob, CommitTrial, FindFails, Find, Save, SoftDelete,
              DeletePoll, CommitDelete, Guard, InsertSubject, Reword, DropPoll, Fault
<1>5. CASE StartJob \/ UpdateTimeDone \/ FailJob \/ Crash \/ CastBallot \/ Replicate
           \/ UNCHANGED vars
  BY <1>0, <1>5 DEF StartJob, UpdateTimeDone, FailJob, Crash, CastBallot, Replicate, vars
<1> QED BY <1>0, <1>1, <1>2, <1>3, <1>4, <1>5 DEF Next

\* Types, keys and bounds of every behaviour.
THEOREM TypesHold == Spec => []TypeOK
<1>1. Init => TypeInv
  BY TypesInit
<1>2. TypeInv /\ [Next]_vars => TypeInv'
  <2> SUFFICES ASSUME TypeInv, [Next]_vars PROVE TypeInv'
    OBVIOUS
  <2>1. Counted' /\ Fresh' /\ Erasing' /\ Shape' /\ Numbers'
    BY TypesGive, ShapeStep, NumbersStep, CountedStep, FreshStep DEF TypeInv
  <2>2. /\ serials' \in [trial : 0..requests', poll : 0..requests']
        /\ leaks' \in 0..PoolSize
    <3>1. /\ Cardinality(Open') \in Nat /\ Cardinality(WantTrial') \in Nat
          /\ Cardinality(WantPoll') \in Nat
      BY CardNat DEF Open, WantTrial, WantPoll
    <3>2. /\ leaks' <= PoolSize /\ serials'.trial <= requests' /\ serials'.poll <= requests'
      BY <2>1, <3>1, BoundAssumption DEF Counted, Numbers
    <3> QED BY <2>1, <3>2, BoundAssumption DEF Numbers
  <2>3. /\ requests' \in 0..MaxRequests /\ crashes' \in 0..MaxCrashes
    BY <2>1, BoundAssumption DEF Numbers
  <2>4. pc' \in [Handlers -> Labels]
    BY <2>1 DEF Shape
  <2>5. drifted' \in BOOLEAN
    <3>1. Rows
      BY TypesGive DEF TypeInv, TypeOK, Rows
    <3> QED BY <3>1, TypesGive, RowsStep DEF TypeInv, TypeOK
  <2>6. TypeOK'
    BY <2>2, <2>3, <2>4, <2>5, TablesStep, PollsStep, QueueStep, ArgStep DEF TypeOK
  <2> QED BY <2>1, <2>6 DEF TypeInv
<1>3. TypeInv => TypeOK
  BY DEF TypeInv
<1> QED BY <1>1, <1>2, <1>3, PTL DEF Spec
=============================================================================
